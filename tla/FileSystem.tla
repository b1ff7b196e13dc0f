------------------------------ MODULE FileSystem ------------------------------
(***************************************************************************)
(* The kernel's file system (fs/fs.c behind do_syscall.c): a fixed table   *)
(* of files laid out on the disk, one descriptor per file with one offset, *)
(* and the streams of a program that use the descriptors.  A system call   *)
(* runs to its end before the program goes on, so each is one action; a    *)
(* failed assertion stops the kernel for good.                             *)
(*                                                                         *)
(* A byte is known by its address on the disk, ide_read() delivers what it *)
(* is asked for (IdeDriver implements WordStore), and offsets are uint32_t *)
(* values: sums and a negative off_t are taken modulo MOD.                 *)
(***************************************************************************)
EXTENDS Integers, Sequences

CONSTANTS
    NR_FILES,
    FileSize,       \* per file 0..NR_FILES-1, from file_table
    DiskOffset,
    MOD,            \* 2^32
    Streams,        \* the FILE* of a program
    ReadLens,       \* lengths a program reads
    SeekOffsets,    \* distances it seeks, off_t numbers of either sign
    Before          \* bound: what may lie in memory before the file table

ASSUME FileTable ==
    /\ NR_FILES \in Nat \ {0}
    /\ FileSize \in [0..(NR_FILES - 1) -> Nat \ {0}]
    /\ DiskOffset \in [0..(NR_FILES - 1) -> Nat]
    /\ MOD \in Nat /\ NR_FILES + 3 <= MOD /\ ReadLens \subseteq Nat
    /\ SeekOffsets \subseteq Int /\ \A off \in SeekOffsets : -MOD <= 2 * off /\ 2 * off < MOD
    /\ Before \subseteq 0..(MOD - 1)
    /\ \A f \in 0..(NR_FILES - 1) :
        2 * FileSize[f] <= MOD /\ \A n \in ReadLens : FileSize[f] + n < MOD

StdFds  == 0..2
FileFds == 3..(NR_FILES + 2)
AllFds  == StdFds \cup FileFds
Word    == 0..(MOD - 1)
NoFd    == -1
Zero    == -1       \* the byte memset() leaves

SEEK == {"SET", "CUR", "END"}
NoCall == [op |-> "none", fd |-> 0, len |-> 0]

VARIABLES
    files,      \* the kernel's Fstate array
    tf,         \* the last system call: its number, descriptor and length
    ret,        \* what it left in %eax
    buf,        \* what it left in the program's buffer
    stopped,    \* an assertion of the kernel failed
    stream,     \* per stream, its descriptor or NoFd
    mark,       \* history: where the stream's own calls have left it
    sharing     \* history: streams that had their file in common with another

kernelVars == <<files, tf, ret, buf, stopped>>
fsVars == <<kernelVars, stream, mark, sharing>>

Size(d) == FileSize[d - 3]

FsInit ==
    /\ files = [d \in AllFds |-> [used |-> FALSE, index |-> 0, offset |-> 0]]
    /\ tf = NoCall /\ ret = 0 /\ buf = <<>> /\ stopped = FALSE
    /\ stream = [s \in Streams |-> NoFd] /\ mark = [s \in Streams |-> 0]
    /\ sharing = {}

-----------------------------------------------------------------------------
\* do_syscall(): the call a program makes, and the two ways it ends.

Call(op, d, len) == tf' = [op |-> op, fd |-> d, len |-> len]

Answer(r, b) == ret' = r /\ buf' = b /\ UNCHANGED stopped

Panic == stopped' = TRUE /\ UNCHANGED <<files, ret, buf>>

\* Faulty variant: an open file goes on where it was.
OpenKeepsOffset(d) ==
    /\ files' = [files EXCEPT ![d].used = TRUE, ![d].index = d]
    /\ Call("open", d, 0) /\ Answer(d, <<>>)

fs_open(d) ==
    /\ files' = [files EXCEPT ![d] = [used |-> TRUE, index |-> d, offset |-> 0]]
    /\ Call("open", d, 0) /\ Answer(d, <<>>)

\* strcmp() finds no such name.
fs_open_unknown == Call("open", 0, 0) /\ Panic

\* Faulty variants: the length is not truncated; nothing is read if not all of
\* it is there.
WholeLen(d, len) == len

AllOrNothing(d, len) ==
    IF (files[d].offset + len) % MOD >= Size(d) THEN 0 ELSE len

\* What is read of a file whose offset is within it.
rdlen(d, len) ==
    IF (files[d].offset + len) % MOD >= Size(d)
    THEN Size(d) - files[d].offset - 1 ELSE len

ide_read(place, n) == [j \in 1..n |-> place + j - 1]

fs_read(d, len) ==
    /\ Call("read", d, len)
    /\ IF d \notin FileFds \/ ~files[d].used THEN Panic
       ELSE IF files[d].offset >= Size(d) THEN Answer(0, <<>>) /\ UNCHANGED files
       ELSE LET n == rdlen(d, len) IN
            /\ Answer(n, ide_read(DiskOffset[d - 3] + files[d].offset, n)
                            \o [j \in 1..(len - n) |-> Zero])
            /\ files' = [files EXCEPT ![d].offset = (@ + n) % MOD]

\* Every character goes to the serial port.
fs_write(d, len) ==
    /\ Call("write", d, len)
    /\ IF d \notin StdFds THEN Panic ELSE Answer(len, <<>>) /\ UNCHANGED files

\* Faulty variant: the comparison is one of signed numbers.
ClampedSigned(n, size) == IF n >= size THEN size - 1 ELSE n

Clamped(n, size) == IF n % MOD >= size THEN (size - 1) % MOD ELSE n % MOD

\* For a standard descriptor the size is read in front of the table's first
\* entry, whatever lies there.
fs_lseek(d, off, whence) ==
    /\ Call("lseek", d, 0)
    /\ \E size \in IF d \in FileFds THEN {Size(d)} ELSE Before :
        LET at == CASE whence = "SET" -> Clamped(off, size)
                    [] whence = "CUR" -> Clamped(files[d].offset + off, size)
                    [] whence = "END" -> (size + off) % MOD
        IN IF whence = "END" /\ (d \notin FileFds \/ off > 0) THEN Panic
           ELSE /\ files' = [files EXCEPT ![d].offset = at]
                /\ Answer(at, <<>>)

fs_close(d) ==
    /\ files' = [files EXCEPT ![d].used = FALSE]
    /\ Call("close", d, 0) /\ Answer(0, <<>>)

-----------------------------------------------------------------------------
\* The program: a stream is opened, read and moved about, and closed.

Opened == {s \in Streams : stream[s] # NoFd}

Marked(s, at) ==
    mark' = [mark EXCEPT ![s] = IF stopped' \/ s \in sharing THEN @ ELSE at]

fopen(s) ==
    /\ stream[s] = NoFd /\ ~stopped
    /\ \E d \in FileFds :
        /\ fs_open(d)
        /\ stream' = [stream EXCEPT ![s] = d]
        /\ mark' = [mark EXCEPT ![s] = 0]
        /\ LET others == {t \in Opened : stream[t] = d} IN
           sharing' = IF others = {} THEN sharing \ {s} ELSE sharing \cup others \cup {s}

fopenUnknown == ~stopped /\ fs_open_unknown /\ UNCHANGED <<stream, mark, sharing>>

fread(s) ==
    /\ s \in Opened /\ ~stopped
    /\ \E len \in ReadLens : fs_read(stream[s], len)
    /\ Marked(s, mark[s] + ret')
    /\ UNCHANGED <<stream, sharing>>

fseek(s) ==
    /\ s \in Opened /\ ~stopped
    /\ \E off \in SeekOffsets, whence \in SEEK : fs_lseek(stream[s], off, whence)
    /\ Marked(s, ret')
    /\ UNCHANGED <<stream, sharing>>

fclose(s) ==
    /\ s \in Opened /\ ~stopped
    /\ fs_close(stream[s])
    /\ stream' = [stream EXCEPT ![s] = NoFd]
    /\ UNCHANGED <<mark, sharing>>

\* stdout (stderr is no different); isatty() says no, so the library may seek.
stdio ==
    /\ ~stopped
    /\ \/ \E d \in {1}, len \in ReadLens : fs_write(d, len)
       \/ \E d \in {1}, off \in SeekOffsets, whence \in {"SET", "CUR"} :
            fs_lseek(d, off, whence)
    /\ UNCHANGED <<stream, mark, sharing>>

Stopped == stopped /\ UNCHANGED fsVars

FsNext ==
    \/ \E s \in Streams : fopen(s) \/ fread(s) \/ fseek(s) \/ fclose(s)
    \/ fopenUnknown
    \/ stdio
    \/ Stopped

FsSpec == FsInit /\ [][FsNext]_fsVars

-----------------------------------------------------------------------------
\* The variables have the types of the C declarations.
FsTypeOK ==
    /\ files \in [AllFds -> [used : BOOLEAN, index : {0} \cup FileFds, offset : Word]]
    /\ tf \in [op : {"none", "open", "read", "write", "lseek", "close"},
               fd : AllFds, len : {0} \cup ReadLens]
    /\ ret \in Word /\ buf \in Seq(Nat \cup {Zero}) /\ stopped \in BOOLEAN
    /\ stream \in [Streams -> FileFds \cup {NoFd}]
    /\ mark \in [Streams -> Word] /\ sharing \subseteq Streams

Delivered == [j \in 1..(IF buf = <<>> \/ stopped THEN 0 ELSE ret) |-> buf[j]]

\* No sequence of calls delivers a byte of the neighbouring file: the files lie
\* one after the other on the disk, and every read stays within its own,
\* whatever offsets the seeks before it produced.
ReadsOwnBytes ==
    \A j \in DOMAIN Delivered : LET f == tf.fd IN
        Delivered[j] \in DiskOffset[f - 3]..(DiskOffset[f - 3] + Size(f) - 1)

\* A stream that shares its file with no other finds its descriptor open and at
\* the place its own calls left it, whatever the other streams did in between.
StreamsKeepPlace ==
    ~stopped => \A s \in Opened \ sharing :
        files[stream[s]].used /\ files[stream[s]].offset = mark[s]

\* Streams that have a file in common are known to share it.
SharersKnown == \A s, t \in Opened :
    s # t /\ stream[s] = stream[t] => s \in sharing

FsInv == FsTypeOK /\ SharersKnown /\ StreamsKeepPlace /\ ReadsOwnBytes

Position(d) == IF files[d].offset >= Size(d) THEN Size(d) ELSE files[d].offset

\* The last call, if it was about a file and answered.
Asked == IF stopped \/ tf.fd \notin FileFds THEN NoCall ELSE tf

Streamed == INSTANCE FileStreams WITH
    Fds <- FileFds, Length <- [d \in FileFds |-> Size(d)],
    Lens <- ReadLens, Offsets <- SeekOffsets,
    open <- [d \in FileFds |-> files[d].used],
    pos <- [d \in FileFds |-> Position(d)],
    asked <- Asked,
    got <- [j \in DOMAIN Delivered |-> <<tf.fd, Delivered[j] - DiskOffset[tf.fd - 3]>>]

\* The kernel's files are the streams of FileStreams: a position in the file,
\* bytes delivered from there on in order, nothing skipped and nothing shared; as
\* many as were asked for, or all but the last one if the read reaches the end;
\* and seeks that go to the place they name, or where FileStreams says instead.
ImplementsStreams == Streamed!Spec
=============================================================================
