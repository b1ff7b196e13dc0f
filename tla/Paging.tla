-------------------------------- MODULE Paging --------------------------------
(***************************************************************************)
(* How a program comes to its memory: the kernel's loader (elf.c) places   *)
(* the segments in frames that mm_malloc() maps, maps a stack and the      *)
(* video memory and changes CR3; then NEMU translates every access of the  *)
(* program (laddr_read, page_translate) through a TLB that nothing ever    *)
(* flushes (tlb.c), and the program moves its break (mm.c).                *)
(*                                                                         *)
(* Until CR3 changes the kernel runs on its own directory, which maps each *)
(* frame at its own number; above KOFFSET both directories are the same,   *)
(* and that half is left out.  A byte is known by its segment and place.   *)
(***************************************************************************)
EXTENDS Integers, Sequences, FiniteSets

CONSTANTS
    PAGE,           \* bytes of a page: 4096
    NR_PTE,         \* pages a page table maps: 1024
    KMEM, PHY_MEM,  \* first frame for programs, number of frames
    KOFFSET,        \* first page of the kernel's half
    Segments,       \* the PT_LOAD headers, in file order
    VIDEO,          \* the page (and frame) of the video memory
    STACK_PAGES,
    TLB_SIZE,
    MaxBreak,       \* bound on the heap, in bytes
    MaxStores,      \* bound on the stores of a behaviour
    Touched,        \* bound: frames the kernel is seen to access by number
    Lens            \* bytes of an access

\* As the linker lays a program out: ascending, above the addresses at which
\* the kernel reaches the frames, with whole bytes of code before the heap, and
\* the heap below the stack.
ASSUME Layout ==
    /\ {PAGE, NR_PTE, TLB_SIZE} \subseteq Nat \ {0}
    /\ {KMEM, PHY_MEM, KOFFSET, STACK_PAGES, MaxBreak, MaxStores} \subseteq Nat
    /\ KMEM < PHY_MEM /\ VIDEO \in 0..(NR_PTE - 1) /\ VIDEO < KMEM
    /\ Segments \in Seq([vaddr : Nat, filesz : Nat, memsz : Nat]) /\ Segments # <<>>
    /\ \A j \in DOMAIN Segments :
        /\ Segments[j].filesz <= Segments[j].memsz /\ Segments[j].memsz > 0
        /\ Segments[j].vaddr >= PAGE * PHY_MEM /\ Segments[j].vaddr >= PAGE * NR_PTE
        /\ \A i \in 1..(j - 1) : Segments[j].vaddr >= Segments[i].vaddr + Segments[i].memsz
        /\ Segments[j].vaddr + Segments[j].memsz + MaxBreak <= (KOFFSET - STACK_PAGES) * PAGE
    /\ Lens \subseteq 1..PAGE /\ Touched \subseteq 0..(PHY_MEM - 1)

Frames  == 0..(PHY_MEM - 1)
Pages   == 0..(KOFFSET - 1)
Dirs    == 0..((KOFFSET - 1) \div NR_PTE)
vptable == (KOFFSET - 1) \div NR_PTE + 1
Tables  == Dirs \cup {vptable}
None    == -1
Empty   == [vpn |-> None, frame |-> None]
NewByte == <<0, 0>>     \* what the program stores
ZeroByte == <<0, 1>>

VARIABLES
    pc,             \* "kernel", "user", or "fault" once a translation failed
    loaded,         \* segments placed so far
    updir,          \* the user directory: a page table's name, or None
    tables,         \* the page tables: mm_malloc()'s, one per entry, and vptable
    pf_idx,         \* the next free frame
    brk, heap_end,  \* the kernel's break, the program's own
    mem,            \* physical memory, <<frame, offset>> -> byte
    tlb,
    reply, stores

pgVars == <<pc, loaded, updir, tables, pf_idx, brk, heap_end, mem, tlb, reply, stores>>

PgInit ==
    /\ pc = "kernel" /\ loaded = 0
    /\ updir = [d \in Dirs |-> None]
    /\ tables = [t \in Tables |-> [e \in 0..(NR_PTE - 1) |-> None]]
    /\ pf_idx = KMEM /\ brk = 0 /\ heap_end = 0
    /\ mem = [c \in Frames \X (0..(PAGE - 1)) |-> ZeroByte]
    /\ tlb = [i \in 1..TLB_SIZE |-> Empty]
    /\ reply = <<>> /\ stores = 0

-----------------------------------------------------------------------------
\* The directory of the program.

Dir(p) == p \div NR_PTE
Entry(p) == p % NR_PTE

\* page_walk(): the frame of page p, None if an entry is not present.
Walk(dir, tabs, p) ==
    IF dir[Dir(p)] = None THEN None ELSE tabs[dir[Dir(p)]][Entry(p)]

Mapped(p) == Walk(updir, tables, p) # None

PagesOf(v, len) == (v \div PAGE)..((v + len - 1) \div PAGE)

\* mm_malloc(): every page of the area that is not mapped yet gets the next
\* frame, in order of the pages.
Unmapped(v, len) ==
    IF len <= 0 THEN {} ELSE {p \in PagesOf(v, len) : ~Mapped(p)}

\* Faulty variant: the frame after the free one.
GivenNext(new, p) == pf_idx + Cardinality({q \in new : q <= p})

Given(new, p) == pf_idx + Cardinality({q \in new : q < p})

DirWith(new) == [d \in Dirs |->
    IF updir[d] = None /\ \E p \in new : Dir(p) = d THEN d ELSE updir[d]]

TablesWith(new) == [t \in Tables |-> [e \in 0..(NR_PTE - 1) |->
    LET here == {p \in new : DirWith(new)[Dir(p)] = t /\ Entry(p) = e} IN
    IF here = {} THEN tables[t][e] ELSE Given(new, CHOOSE p \in here : TRUE)]]

\* Faulty variant: pages are given a frame whether they have one or not.
mm_malloc_again(v, len) ==
    LET new == IF len <= 0 THEN {} ELSE PagesOf(v, len) IN
    /\ pf_idx + Cardinality(new) <= PHY_MEM
    /\ updir' = DirWith(new) /\ tables' = TablesWith(new)
    /\ pf_idx' = pf_idx + Cardinality(new)

mm_malloc(v, len) ==
    LET new == Unmapped(v, len) IN
    /\ pf_idx + Cardinality(new) <= PHY_MEM
    /\ updir' = DirWith(new) /\ tables' = TablesWith(new)
    /\ pf_idx' = pf_idx + Cardinality(new)

-----------------------------------------------------------------------------
\* The loader.

\* While the kernel runs on its own directory it reaches frames at their own
\* addresses, and such a translation may be put into any entry.
KernelAccess ==
    /\ pc = "kernel"
    /\ \E f \in Touched, i \in 1..TLB_SIZE :
        /\ \A l \in 1..TLB_SIZE : tlb[l].vpn # f
        /\ tlb' = [tlb EXCEPT ![i] = [vpn |-> f, frame |-> f]]
    /\ UNCHANGED <<pc, loaded, updir, tables, pf_idx, brk, heap_end, mem, reply, stores>>

\* Physical byte k of the area whose first byte is at v: the loader goes on
\* from the address of that first byte.
Byte(v, k) ==
    LET at == Walk(updir', tables', v \div PAGE) * PAGE + (v % PAGE) + k
    IN <<at \div PAGE, at % PAGE>>

Placed(j, s) == [c \in DOMAIN mem |->
    IF \E k \in 0..(s.memsz - 1) : c = Byte(s.vaddr, k)
    THEN LET k == CHOOSE k \in 0..(s.memsz - 1) : c = Byte(s.vaddr, k)
         IN IF k < s.filesz THEN <<j, k>> ELSE ZeroByte
    ELSE mem[c]]

\* The break is the address of the last byte of the highest segment.
Broken(s) == IF brk < s.vaddr + s.memsz - 1 THEN s.vaddr + s.memsz - 1 ELSE brk

Load ==
    /\ pc = "kernel" /\ loaded < Len(Segments)
    /\ LET s == Segments[loaded + 1] IN
        /\ mm_malloc(s.vaddr, s.memsz)
        /\ mem' = Placed(loaded + 1, s)
        /\ brk' = Broken(s)
    /\ loaded' = loaded + 1
    /\ UNCHANGED <<pc, heap_end, tlb, reply, stores>>

Image == UNION {Segments[j].vaddr..(Segments[j].vaddr + Segments[j].memsz - 1) :
                    j \in DOMAIN Segments}
End == 1 + CHOOSE v \in Image : \A w \in Image : w <= v

VideoFrame == VIDEO

\* The stack; create_video_mapping() takes the first entry of the directory;
\* write_cr3() leaves the TLB alone, and the program starts.
Run ==
    /\ pc = "kernel" /\ loaded = Len(Segments)
    /\ LET new == Unmapped((KOFFSET - STACK_PAGES) * PAGE, STACK_PAGES * PAGE) IN
        /\ pf_idx + Cardinality(new) <= PHY_MEM
        /\ updir' = [DirWith(new) EXCEPT ![0] = vptable]
        /\ tables' = [TablesWith(new) EXCEPT ![vptable][VIDEO] = VideoFrame]
        /\ pf_idx' = pf_idx + Cardinality(new)
    /\ pc' = "user" /\ heap_end' = End
    /\ UNCHANGED <<loaded, brk, mem, tlb, reply, stores>>

-----------------------------------------------------------------------------
\* The program's accesses.

Heap  == End..(heap_end - 1)
Stack == ((KOFFSET - STACK_PAGES) * PAGE)..(KOFFSET * PAGE - 1)
Video == (VIDEO * PAGE)..((VIDEO + 1) * PAGE - 1)
Own   == Image \cup Heap \cup Stack \cup Video

\* A page's entries in TLB t; page_translate() asks for one page after
\* another and puts what was missing over any entry.
Hits(t, p) == {i \in 1..TLB_SIZE : t[i].vpn = p}

Filled(t, p) ==
    IF Hits(t, p) # {} \/ Walk(updir, tables, p) = None THEN {t}
    ELSE {[t EXCEPT ![i] = [vpn |-> p, frame |-> Walk(updir, tables, p)]] : i \in 1..TLB_SIZE}

tlb_read(t, p) ==
    IF Hits(t, p) = {} THEN None
    ELSE t[CHOOSE i \in Hits(t, p) : \A l \in Hits(t, p) : i <= l].frame

\* The bytes of an access that spill over into the next page.
Spill(v, len) == IF (v % PAGE) + len > PAGE THEN (v % PAGE) + len - PAGE ELSE 0

\* Faulty variant: an access of several pages is made at the first one's frame.
CellsUnsplit(first, second, v, len) == [j \in 1..len |->
    LET at == first * PAGE + (v % PAGE) + j - 1
    IN <<(at \div PAGE) % PHY_MEM, at % PAGE>>]

\* Where the bytes of an access are, given the frames of its two pages.
Cells(first, second, v, len) == [j \in 1..len |->
    IF j <= len - Spill(v, len) THEN <<first, (v % PAGE) + j - 1>>
    ELSE <<second, j - 1 - (len - Spill(v, len))>>]

\* laddr_read() and laddr_write(): an access within the program's own memory,
\* by the TLB it leaves and the bytes it reaches, none when a page is missing.
Reached(v, len) ==
    LET p == v \div PAGE
        q == (v + len - 1) \div PAGE
    IN UNION {{[tlb |-> u,
                cells |-> IF None \in {tlb_read(t, p), tlb_read(u, q)} THEN <<>>
                          ELSE Cells(tlb_read(t, p), tlb_read(u, q), v, len)] :
               u \in Filled(t, q)} : t \in Filled(tlb, p)}

Accesses == UNION {Reached(a[1], a[2]) :
                   a \in {b \in Own \X Lens : b[1]..(b[1] + b[2] - 1) \subseteq Own}}

Access(a) ==
    /\ tlb' = a.tlb
    /\ pc' = IF a.cells = <<>> THEN "fault" ELSE "user"
    /\ UNCHANGED <<loaded, updir, tables, pf_idx, brk, heap_end>>

Read ==
    /\ pc = "user"
    /\ \E a \in Accesses :
        /\ Access(a)
        /\ reply' = IF a.cells = <<>> THEN reply ELSE [j \in DOMAIN a.cells |-> mem[a.cells[j]]]
    /\ UNCHANGED <<mem, stores>>

Write ==
    /\ pc = "user" /\ stores < MaxStores
    /\ \E a \in Accesses :
        /\ Access(a)
        /\ mem' = [c \in DOMAIN mem |->
                     IF \E j \in DOMAIN a.cells : a.cells[j] = c THEN NewByte ELSE mem[c]]
        /\ reply' = IF a.cells = <<>> THEN reply ELSE <<>>
    /\ stores' = stores + 1

\* sbrk() with mm_brk(): the kernel maps what lies beyond its break.
Sbrk ==
    /\ pc = "user"
    /\ \E new \in End..(End + MaxBreak) :
        /\ mm_malloc(brk, new - brk)
        /\ brk' = new /\ heap_end' = new
    /\ reply' = <<>>
    /\ UNCHANGED <<pc, loaded, mem, tlb, stores>>

PgNext == KernelAccess \/ Load \/ Run \/ Read \/ Write \/ Sbrk

PgSpec == PgInit /\ [][PgNext]_pgVars

-----------------------------------------------------------------------------
Bytes == {ZeroByte, NewByte} \cup ((DOMAIN Segments) \X (0..(PAGE * PHY_MEM)))

\* The variables have the types of the C declarations.
PgTypeOK ==
    /\ pc \in {"kernel", "user", "fault"} /\ loaded \in 0..Len(Segments)
    /\ updir \in [Dirs -> {None} \cup Tables]
    /\ tables \in [Tables -> [0..(NR_PTE - 1) -> Frames \cup {None}]]
    /\ pf_idx \in KMEM..PHY_MEM /\ brk \in Nat /\ heap_end \in Nat
    /\ mem \in [Frames \X (0..(PAGE - 1)) -> Bytes]
    /\ tlb \in [1..TLB_SIZE -> [vpn : Pages, frame : Frames] \cup {Empty}]
    /\ stores \in 0..MaxStores

\* Every frame a program gets is its own: no two pages share one, and none but
\* the video memory's belongs to the kernel.
FramesApart == \A p \in Pages : Mapped(p) =>
    /\ Walk(updir, tables, p) < KMEM => p = VIDEO /\ Walk(updir, tables, p) = VIDEO
    /\ \A q \in Pages \ {p} : Walk(updir, tables, p) # Walk(updir, tables, q)

\* The TLB is never flushed, not when CR3 changes nor when a page is mapped,
\* and yet a hit is what page_walk() would have found: what the kernel left
\* there are pages the program does not have.
TlbAgrees == pc = "user" => \A i \in 1..TLB_SIZE :
    tlb[i].vpn # None /\ Mapped(tlb[i].vpn)
        => tlb[i].frame = Walk(updir, tables, tlb[i].vpn)

\* A program finds every segment where its header says, whatever the segments
\* before it did to the frames and however they meet on a page, until it
\* writes there itself; and one that keeps within what it was given never meets
\* a page that is not present, wherever its break has been in between.
RunsInItsImage ==
    /\ pc # "fault"
    /\ \A j \in 1..loaded : \A k \in 0..(Segments[j].memsz - 1) :
        LET v == Segments[j].vaddr + k
            c == <<Walk(updir, tables, v \div PAGE), v % PAGE>>
        IN mem[c] # NewByte =>
            mem[c] = IF k < Segments[j].filesz THEN <<j, k>> ELSE ZeroByte

PhysicalOf(v) == <<Walk(updir, tables, v \div PAGE), v % PAGE>>

-----------------------------------------------------------------------------
\* The inductive invariant.

\* The directory's tables are mm_malloc()'s, each in its own place, until
\* create_video_mapping() takes the first one; tables not in use are empty.
TablesSound ==
    /\ \A d \in Dirs :
        IF pc # "kernel" /\ d = 0 THEN updir[d] = vptable ELSE updir[d] \in {None, d}
    /\ \A d \in Dirs, e \in 0..(NR_PTE - 1) : updir[d] = None => tables[d][e] = None
    /\ \A e \in 0..(NR_PTE - 1) :
        tables[vptable][e] = IF pc # "kernel" /\ e = VIDEO THEN VIDEO ELSE None

\* A page that is mapped was given a frame, and lies where programs do.
FramesGiven == \A p \in Pages : Mapped(p) =>
    \/ Walk(updir, tables, p) \in KMEM..(pf_idx - 1) /\ p >= PHY_MEM /\ p >= NR_PTE
    \/ pc # "kernel" /\ p = VIDEO /\ Walk(updir, tables, p) = VIDEO

LastByte(j) == Segments[j].vaddr + Segments[j].memsz - 1

\* While segments are loaded the page of the last byte is the highest and has
\* the frame given last.
LoadedInOrder ==
    /\ pc # "kernel" => loaded = Len(Segments)
    /\ pc = "kernel" /\ loaded = 0 => brk = 0 /\ \A p \in Pages : ~Mapped(p)
    /\ pc = "kernel" /\ loaded > 0 =>
        /\ brk = LastByte(loaded)
        /\ Walk(updir, tables, LastByte(loaded) \div PAGE) = pf_idx - 1
        /\ \A p \in Pages : Mapped(p) => p <= LastByte(loaded) \div PAGE

\* The program's own memory is mapped.
OwnIsMapped ==
    /\ \A j \in 1..loaded : \A v \in Segments[j].vaddr..LastByte(j) : Mapped(v \div PAGE)
    /\ pc # "kernel" =>
        /\ \A v \in Own : Mapped(v \div PAGE)
        /\ heap_end \in End..(End + MaxBreak)
        /\ brk = heap_end \/ (brk = End - 1 /\ heap_end = End)

\* What is in the TLB: frames at their own numbers, or pages of the program.
TlbSound == \A i \in 1..TLB_SIZE :
    \/ tlb[i] = Empty
    \/ tlb[i].vpn = tlb[i].frame
    \/ /\ pc # "kernel" /\ Mapped(tlb[i].vpn)
       /\ tlb[i].frame = Walk(updir, tables, tlb[i].vpn)

PagingInv ==
    /\ PgTypeOK /\ TablesSound /\ FramesGiven /\ FramesApart /\ LoadedInOrder
    /\ OwnIsMapped /\ TlbSound /\ TlbAgrees /\ RunsInItsImage
    /\ pc = "kernel" => reply = <<>>

-----------------------------------------------------------------------------
Memory == INSTANCE ByteMemory WITH
    Values <- Bytes,
    space <- [v \in IF pc = "kernel" THEN {} ELSE
                    {v \in 0..(KOFFSET * PAGE - 1) : Mapped(v \div PAGE)} |-> mem[PhysicalOf(v)]]

\* Loader, page tables, TLB and the splitting of an access give the program a
\* plain memory of bytes.
ImplementsMemory == Memory!Spec
=============================================================================
