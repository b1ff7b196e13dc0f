---------------------------- MODULE ProgramsProofs ----------------------------
(***************************************************************************)
(* Proofs about the programs.  FileSystem: for any file table, any number  *)
(* of streams and any width of the offsets that holds the size of a file   *)
(* and a read past its end, and a distance of either sign in half of it.   *)
(* Audio: for any size of the chunks and any length of the file, the three *)
(* threads keep the inductive invariant AuInv, and with it the mutexes,    *)
(* the chunk that is filled and the one request for data.  PalKeys: PalInv *)
(* is inductive, for any keys, any number of arrows among them and any     *)
(* number of events in a poll.  And all three are invariants of the        *)
(* machine the programs share (Programs).                                  *)
(***************************************************************************)
EXTENDS Programs, TLAPS

-----------------------------------------------------------------------------
\* The file system.

FileState == [used : BOOLEAN, index : {0} \cup FileFds, offset : Word]

\* What a read or a seek does to the kernel's files: one offset changes.
Moves(d, pos) ==
    /\ files' \in [AllFds -> FileState]
    /\ \A e \in AllFds : /\ files'[e].used = files[e].used
                         /\ files'[e].offset = IF e = d THEN pos ELSE files[e].offset

\* Arithmetic on words.
LEMMA ModRange == ASSUME NEW a \in Int PROVE a % MOD \in Word
  <1> DEFINE m == MOD
  <1>1. m \in Nat \ {0}
    BY FileTable
  <1> HIDE DEF m
  <1>2. a % m \in 0..(m - 1)
    BY <1>1
  <1>3. QED
    BY <1>2 DEF m, Word

LEMMA ModSmall == ASSUME NEW a \in Word PROVE a % MOD = a
  <1>1. MOD \in Nat \ {0}
    BY FileTable
  <1>2. QED
    BY <1>1 DEF Word

\* The table's entries; a read of any length from within a file or its end
\* cannot wrap around.
LEMMA Tabled ==
  ASSUME NEW d \in FileFds
  PROVE  /\ d \in AllFds /\ d \notin StdFds /\ d \in Nat
         /\ Size(d) \in Nat \ {0} /\ DiskOffset[d - 3] \in Nat
         /\ \A n \in ReadLens : n \in Nat /\ Size(d) + n \in Word
  <1>1. d - 3 \in 0..(NR_FILES - 1) /\ d \in Nat
    BY FileTable DEF FileFds
  <1>2. d \in AllFds /\ d \notin StdFds
    BY <1>1 DEF AllFds, StdFds, FileFds
  <1>3. Size(d) \in Nat \ {0} /\ DiskOffset[d - 3] \in Nat
    BY <1>1, FileTable DEF Size
  <1>4. ASSUME NEW n \in ReadLens PROVE n \in Nat /\ Size(d) + n \in Word
    <2>1. n \in Nat /\ FileSize[d - 3] + n < MOD /\ MOD \in Nat
      BY <1>1, FileTable
    <2>2. QED
      BY <1>3, <2>1 DEF Size, Word
  <1>5. QED
    BY <1>1, <1>2, <1>3, <1>4

\* A file is at most half as long as the offsets count.
LEMMA SizeFits ==
  ASSUME NEW d \in FileFds
  PROVE  \E m \in Nat \ {0}, z \in Nat \ {0} : m = MOD /\ z = Size(d) /\ 2 * z <= m
  <1>1. d - 3 \in 0..(NR_FILES - 1) /\ MOD \in Nat \ {0}
    BY FileTable DEF FileFds
  <1>2. Size(d) \in Nat \ {0}
    BY Tabled
  <1>3. 2 * Size(d) <= MOD
    BY <1>1, FileTable DEF Size
  <1>4. QED
    BY <1>1, <1>2, <1>3

\* A new offset makes Moves.
LEMMA OffsetMoves ==
  ASSUME files \in [AllFds -> FileState], NEW d \in AllFds, NEW pos \in Word,
         files' = [files EXCEPT ![d].offset = pos]
  PROVE  Moves(d, pos)
  BY DEF Moves, FileState

-----------------------------------------------------------------------------
\* fs_read() of a descriptor a program holds: the kernel stops, or n bytes of
\* the file from its offset on are delivered and the offset moves past them.
LEMMA ReadEffect ==
  ASSUME FsTypeOK, NEW d \in FileFds, NEW len \in ReadLens, fs_read(d, len)
  PROVE  \/ Panic /\ ~files[d].used
         \/ /\ files[d].used /\ UNCHANGED stopped /\ buf' \in Seq(Nat \cup {Zero})
            /\ \E n \in 0..len :
                /\ ret' = n /\ Moves(d, files[d].offset + n)
                /\ n > 0 => files[d].offset + n <= Size(d) /\ n <= Len(buf')
                /\ \A j \in 1..n : buf'[j] = DiskOffset[d - 3] + files[d].offset + j - 1
  <1> DEFINE o == files[d].offset
             z == DiskOffset[d - 3]
  <1>1. /\ d \in AllFds /\ len \in Nat /\ Size(d) \in Nat \ {0} /\ z \in Nat
        /\ Size(d) + len \in Word /\ MOD \in Nat
    BY Tabled, FileTable
  <1>2. o \in Word /\ files \in [AllFds -> FileState] /\ o \in Nat
    BY <1>1 DEF FsTypeOK, FileState, Word
  <1>3. CASE ~files[d].used
    BY <1>3 DEF fs_read
  <1>4. CASE files[d].used /\ o >= Size(d)
    <2>1. ret' = 0 /\ buf' = <<>> /\ UNCHANGED <<files, stopped>>
      BY <1>4 DEF fs_read, Answer
    <2>2. Moves(d, o + 0)
      BY <1>1, <1>2, <2>1 DEF Moves
    <2>3. 0 \in 0..len /\ buf' \in Seq(Nat \cup {Zero})
      BY <1>1, <2>1
    <2>4. QED
      BY <1>4, <2>1, <2>2, <2>3
  <1>5. CASE files[d].used /\ o < Size(d)
    <2> DEFINE n == rdlen(d, len)
    <2>1. o + len \in Word
      BY <1>1, <1>2, <1>5 DEF Word
    <2>2. (o + len) % MOD = o + len
      BY <2>1, ModSmall
    <2>3. n = IF o + len >= Size(d) THEN Size(d) - o - 1 ELSE len
      BY <2>2 DEF rdlen
    <2>4. n \in 0..len /\ o + n <= Size(d) /\ o + n \in Word
      BY <1>1, <1>2, <1>5, <2>1, <2>3 DEF Word
    <2> HIDE DEF n
    <2>5. /\ ret' = n /\ UNCHANGED stopped
          /\ buf' = ide_read(z + o, n) \o [j \in 1..(len - n) |-> Zero]
          /\ files' = [files EXCEPT ![d].offset = (o + n) % MOD]
      <3>1. ~(d \notin FileFds \/ ~files[d].used) /\ ~(files[d].offset >= Size(d))
        BY <1>1, <1>2, <1>5
      <3>2. /\ Answer(rdlen(d, len), ide_read(DiskOffset[d - 3] + files[d].offset, rdlen(d, len))
                            \o [j \in 1..(len - rdlen(d, len)) |-> Zero])
            /\ files' = [files EXCEPT ![d].offset = (@ + rdlen(d, len)) % MOD]
        BY <3>1 DEF fs_read
      <3>3. QED
        BY <3>2 DEF Answer, n
    <2>6. Moves(d, o + n)
      BY <1>1, <1>2, <2>4, <2>5, ModSmall, OffsetMoves
    <2> DEFINE a == ide_read(z + o, n)
               b == [j \in 1..(len - n) |-> Zero]
    <2>7. /\ a \in Seq(Nat \cup {Zero}) /\ Len(a) = n
          /\ \A j \in 1..n : a[j] = z + o + j - 1
      BY <1>1, <1>2, <2>4 DEF ide_read
    <2>8. b \in Seq(Nat \cup {Zero}) /\ len - n \in Nat
      BY <1>1, <2>4
    <2> HIDE DEF a, b
    <2>9. /\ buf' \in Seq(Nat \cup {Zero}) /\ n <= Len(buf')
          /\ \A j \in 1..n : buf'[j] = z + o + j - 1
      <3>1. buf' = a \o b
        BY <2>5 DEF a, b
      <3>2. QED
        BY <2>4, <2>7, <2>8, <3>1
    <2>10. QED
      BY <1>5, <2>4, <2>5, <2>6, <2>9
  <1>6. QED
    BY <1>2, <1>1, <1>3, <1>4, <1>5

\* fs_lseek() leaves a word as the offset, or stops the kernel.
LEMMA SeekEffect ==
  ASSUME FsTypeOK, NEW d \in FileFds \cup {1}, NEW off \in SeekOffsets, NEW whence \in SEEK,
         fs_lseek(d, off, whence)
  PROVE  \/ Panic
         \/ \E pos \in Word : Moves(d, pos) /\ ret' = pos /\ buf' = <<>> /\ UNCHANGED stopped
  <1>1. d \in AllFds /\ off \in Int /\ files \in [AllFds -> FileState]
    BY Tabled, FileTable, SMTT(60) DEF FsTypeOK, FileState, AllFds, StdFds
  <1>2. files[d].offset \in Int
    BY <1>1 DEF FileState, Word
  <1> DEFINE Sized == IF d \in FileFds THEN {Size(d)} ELSE Before
             At(size) == CASE whence = "SET" -> Clamped(off, size)
                           [] whence = "CUR" -> Clamped(files[d].offset + off, size)
                           [] whence = "END" -> (size + off) % MOD
  <1>3. Sized \subseteq Int
    <2>1. CASE d \in FileFds
      BY <2>1, Tabled
    <2>2. CASE d \notin FileFds
      BY <2>2, FileTable
    <2>3. QED
      BY <2>1, <2>2
  <1>4. ASSUME NEW size \in Sized PROVE At(size) \in Word
    <2>1. size \in Int
      BY <1>3
    <2>2. ASSUME NEW n \in Int PROVE Clamped(n, size) \in Word
      BY <2>1, ModRange DEF Clamped
    <2>3. (size + off) % MOD \in Word
      BY <1>1, <2>1, ModRange
    <2>4. Clamped(off, size) \in Word /\ Clamped(files[d].offset + off, size) \in Word
      BY <1>1, <1>2, <2>2
    <2>5. QED
      BY <2>3, <2>4 DEF SEEK
  <1>5. PICK size \in Sized :
          IF whence = "END" /\ (d \notin FileFds \/ off > 0) THEN Panic
          ELSE /\ files' = [files EXCEPT ![d].offset = At(size)]
               /\ Answer(At(size), <<>>)
    BY DEF fs_lseek
  <1>6. At(size) \in Word
    BY <1>4
  <1> HIDE DEF At, Sized
  <1>7. CASE Panic
    BY <1>7
  <1>8. CASE files' = [files EXCEPT ![d].offset = At(size)] /\ Answer(At(size), <<>>)
    <2>1. Moves(d, At(size))
      BY <1>1, <1>6, <1>8, OffsetMoves
    <2>2. QED
      BY <1>6, <1>8, <2>1 DEF Answer
  <1>9. QED
    BY <1>5, <1>7, <1>8

-----------------------------------------------------------------------------
\* ReadsOwnBytes: only a read leaves something in the buffer.

LEMMA NoBytes ==
  ASSUME buf' = <<>> \/ stopped'
  PROVE  ReadsOwnBytes'
  <1>1. DOMAIN Delivered' = 1..0
    BY DEF Delivered
  <1>2. QED
    BY <1>1 DEF ReadsOwnBytes

LEMMA OwnBytes ==
  ASSUME FsTypeOK, NEW d \in FileFds, NEW n \in Nat, tf'.fd = d, ret' = n, ~stopped',
         buf' \in Seq(Nat \cup {Zero}),
         n > 0 => files[d].offset + n <= Size(d) /\ n <= Len(buf'),
         \A j \in 1..n : buf'[j] = DiskOffset[d - 3] + files[d].offset + j - 1
  PROVE  ReadsOwnBytes'
  <1>1. CASE buf' = <<>>
    BY <1>1, NoBytes
  <1>2. CASE buf' # <<>>
    <2>1. Delivered' = [j \in 1..n |-> buf'[j]]
      BY <1>2 DEF Delivered
    <2>3. /\ files[d].offset \in Nat /\ Size(d) \in Nat /\ DiskOffset[d - 3] \in Nat
      BY Tabled DEF FsTypeOK, FileState, Word
    <2>4. ASSUME NEW j \in 1..n
          PROVE  buf'[j] \in DiskOffset[d - 3]..(DiskOffset[d - 3] + Size(d) - 1)
      <3>1. /\ j \in Nat /\ 1 <= j /\ j <= n /\ files[d].offset + n <= Size(d)
            /\ buf'[j] = DiskOffset[d - 3] + files[d].offset + j - 1
        OBVIOUS
      <3>2. QED
        BY <2>3, <3>1, SMTT(30)
    <2>5. QED
      BY <2>1, <2>4 DEF ReadsOwnBytes
  <1>3. QED
    BY <1>1, <1>2

-----------------------------------------------------------------------------
\* The streams' places: whoever shares nothing is alone on its descriptor.

LEMMA PlacesKept ==
  ASSUME FsInv, NEW s \in Opened, NEW pos \in Word, Moves(stream[s], pos), ~stopped,
         UNCHANGED <<stream, sharing>>, mark' = [mark EXCEPT ![s] = IF s \in sharing THEN @ ELSE pos]
  PROVE  StreamsKeepPlace' /\ mark' \in [Streams -> Word]
  <1>1. stream \in [Streams -> FileFds \cup {NoFd}] /\ mark \in [Streams -> Word]
    BY DEF FsInv, FsTypeOK
  <1>2. ASSUME NEW t \in (Opened \ sharing)'
        PROVE  (files[stream[t]].used /\ files[stream[t]].offset = mark[t])'
    <2>1. t \in Opened \ sharing /\ stream'[t] = stream[t]
      BY DEF Opened
    <2>2. stream[t] \in AllFds /\ files[stream[t]].used /\ files[stream[t]].offset = mark[t]
      BY <1>1, <2>1 DEF FsInv, StreamsKeepPlace, Opened, AllFds
    <2>3. CASE t = s
      BY <1>1, <2>1, <2>2, <2>3 DEF Moves, Opened
    <2>4. CASE t # s
      <3>1. stream[t] # stream[s]
        BY <2>1, <2>4 DEF FsInv, SharersKnown
      <3>2. mark'[t] = mark[t]
        BY <1>1, <2>1, <2>4 DEF Opened
      <3>3. QED
        BY <2>1, <2>2, <3>1, <3>2 DEF Moves
    <2>5. QED
      BY <2>3, <2>4
  <1>3. QED
    BY <1>1, <1>2 DEF StreamsKeepPlace, Opened

-----------------------------------------------------------------------------
\* The types but for the program's own variables.
KernelTypes ==
    /\ files \in [AllFds -> FileState]
    /\ tf \in [op : {"none", "open", "read", "write", "lseek", "close"},
               fd : AllFds, len : {0} \cup ReadLens]
    /\ ret \in Word /\ buf \in Seq(Nat \cup {Zero}) /\ stopped \in BOOLEAN

LEMMA Types ==
  FsTypeOK <=> /\ KernelTypes /\ stream \in [Streams -> FileFds \cup {NoFd}]
               /\ mark \in [Streams -> Word] /\ sharing \subseteq Streams
  BY DEF FsTypeOK, KernelTypes, FileState

LEMMA CallTypes ==
  ASSUME NEW op \in {"open", "read", "write", "lseek", "close"}, NEW d \in AllFds,
         NEW len \in {0} \cup ReadLens, Call(op, d, len)
  PROVE  tf' \in [op : {"none", "open", "read", "write", "lseek", "close"},
                  fd : AllFds, len : {0} \cup ReadLens]
  BY DEF Call

LEMMA ZeroIsWord == 0 \in Word /\ (\A n \in ReadLens : n \in Word)
  <1>1. MOD \in Nat \ {0}
    BY FileTable
  <1>2. 0 \in 0..(NR_FILES - 1) /\ FileSize[0] \in Nat
    BY FileTable
  <1>3. \A n \in ReadLens : n \in Nat /\ FileSize[0] + n < MOD
    BY <1>2, FileTable
  <1>4. QED
    BY <1>1, <1>2, <1>3 DEF Word

\* A descriptor is a word.
LEMMA WordFds == ASSUME NEW d \in FileFds PROVE d \in Word
  BY FileTable DEF FileFds, Word

LEMMA InitInv == FsInit => FsInv
  <1> SUFFICES ASSUME FsInit PROVE FsInv
    OBVIOUS
  <1>1. FsTypeOK
    <2>1. NoCall \in [op : {"none", "open", "read", "write", "lseek", "close"},
                      fd : AllFds, len : {0} \cup ReadLens]
      BY DEF NoCall, AllFds, StdFds
    <2>2. files \in [AllFds -> FileState]
      BY ZeroIsWord DEF FsInit, FileState
    <2>3. KernelTypes
      <3>1. tf = NoCall /\ ret = 0 /\ buf = <<>> /\ stopped = FALSE
        BY DEF FsInit
      <3>2. buf \in Seq(Nat \cup {Zero})
        BY <3>1
      <3>3. QED
        BY <2>1, <2>2, <3>1, <3>2, ZeroIsWord DEF KernelTypes
    <2>4. /\ stream \in [Streams -> FileFds \cup {NoFd}] /\ mark \in [Streams -> Word]
          /\ sharing \subseteq Streams
      BY ZeroIsWord DEF FsInit
    <2>5. QED
      BY <2>3, <2>4, Types
  <1>2. Opened = {}
    BY DEF FsInit, Opened
  <1>3. ReadsOwnBytes
    <2>1. DOMAIN Delivered = 1..0
      BY DEF FsInit, Delivered
    <2>2. QED
      BY <2>1 DEF ReadsOwnBytes
  <1>4. QED
    BY <1>1, <1>2, <1>3 DEF FsInv, SharersKnown, StreamsKeepPlace

-----------------------------------------------------------------------------
LEMMA OpenStep == ASSUME FsInv, NEW s \in Streams, fopen(s) PROVE FsInv'
  <1> DEFINE Others(d) == {t \in Opened : stream[t] = d}
  <1>1. PICK d \in FileFds :
          /\ fs_open(d)
          /\ stream' = [stream EXCEPT ![s] = d] /\ mark' = [mark EXCEPT ![s] = 0]
          /\ sharing' = IF Others(d) = {} THEN sharing \ {s}
                        ELSE sharing \cup Others(d) \cup {s}
    BY DEF fopen
  <1>2. /\ KernelTypes /\ stream \in [Streams -> FileFds \cup {NoFd}]
        /\ mark \in [Streams -> Word] /\ sharing \subseteq Streams
        /\ stream[s] = NoFd /\ ~stopped
    BY Types DEF FsInv, fopen
  <1>3. /\ files' = [files EXCEPT ![d] = [used |-> TRUE, index |-> d, offset |-> 0]]
        /\ ret' = d /\ buf' = <<>> /\ stopped' = stopped /\ Call("open", d, 0)
    BY <1>1 DEF fs_open, Answer
  <1>4. d \in AllFds /\ d # NoFd /\ d \in Nat
    BY Tabled DEF NoFd
  <1>5. FsTypeOK'
    <2>1. files' \in [AllFds -> FileState]
      BY <1>2, <1>3, ZeroIsWord DEF KernelTypes, FileState
    <2>2. tf' \in [op : {"none", "open", "read", "write", "lseek", "close"},
                   fd : AllFds, len : {0} \cup ReadLens]
      BY <1>3, <1>4, CallTypes
    <2>3. ret' \in Word
      BY <1>3, WordFds
    <2>4. KernelTypes'
      BY <1>2, <1>3, <2>1, <2>2, <2>3 DEF KernelTypes
    <2>5. /\ stream' \in [Streams -> FileFds \cup {NoFd}] /\ mark' \in [Streams -> Word]
          /\ sharing' \subseteq Streams
      BY <1>1, <1>2, ZeroIsWord DEF Opened
    <2>6. QED
      BY <2>4, <2>5, Types DEF FsTypeOK, KernelTypes, FileState
  <1>6. Opened' = Opened \cup {s} /\ s \notin Opened
        /\ stream'[s] = d /\ (\A t \in Opened : stream'[t] = stream[t])
    BY <1>1, <1>2, <1>4 DEF Opened
  <1>7. SharersKnown'
    <2>1. ASSUME NEW t \in Opened', NEW u \in Opened', t # u, stream'[t] = stream'[u]
          PROVE  t \in sharing'
      <3>1. CASE t = s \/ u = s
        BY <1>1, <1>6, <2>1, <3>1
      <3>2. CASE t # s /\ u # s
        <4>1. t \in Opened /\ u \in Opened /\ stream[t] = stream[u]
          BY <1>6, <2>1, <3>2
        <4>2. t \in sharing
          BY <2>1, <4>1 DEF FsInv, SharersKnown
        <4>3. QED
          BY <1>1, <3>2, <4>2
      <3>3. QED
        BY <3>1, <3>2
    <2>2. QED
      BY <2>1 DEF SharersKnown
  <1>8. StreamsKeepPlace'
    <2>1. ASSUME NEW t \in Opened', t \notin sharing'
          PROVE  files'[stream'[t]].used /\ files'[stream'[t]].offset = mark'[t]
      <3>1. CASE t = s
        BY <1>1, <1>2, <1>3, <1>4, <1>6, <3>1 DEF KernelTypes
      <3>2. CASE t # s
        <4>1. t \in Opened /\ stream'[t] = stream[t] /\ t \in Streams /\ mark'[t] = mark[t]
          BY <1>1, <1>2, <1>6, <2>1, <3>2 DEF Opened
        <4>2. stream[t] # d /\ t \notin sharing
          BY <1>1, <2>1, <3>2, <4>1
        <4>3. files[stream[t]].used /\ files[stream[t]].offset = mark[t]
          BY <1>2, <4>1, <4>2 DEF FsInv, StreamsKeepPlace
        <4>4. files'[stream[t]] = files[stream[t]]
          BY <1>2, <1>3, <4>1, <4>2 DEF KernelTypes, Opened, AllFds
        <4>5. QED
          BY <4>1, <4>3, <4>4
      <3>3. QED
        BY <3>1, <3>2
    <2>2. QED
      BY <2>1 DEF StreamsKeepPlace
  <1>9. ReadsOwnBytes'
    BY <1>3, NoBytes
  <1>10. QED
    BY <1>5, <1>7, <1>8, <1>9 DEF FsInv

LEMMA ReadStep == ASSUME FsInv, NEW s \in Streams, fread(s) PROVE FsInv'
  <1> DEFINE d == stream[s]
  <1>1. PICK len \in ReadLens : fs_read(d, len)
    BY DEF fread
  <1>2. /\ s \in Opened /\ ~stopped /\ UNCHANGED <<stream, sharing>>
        /\ mark' = [mark EXCEPT ![s] = IF stopped' \/ s \in sharing THEN @ ELSE mark[s] + ret']
    BY DEF fread, Marked
  <1>3. /\ KernelTypes /\ stream \in [Streams -> FileFds \cup {NoFd}]
        /\ mark \in [Streams -> Word] /\ sharing \subseteq Streams
    BY Types DEF FsInv
  <1>4. d \in FileFds
    BY <1>2, <1>3 DEF Opened
  <1>5. tf' \in [op : {"none", "open", "read", "write", "lseek", "close"},
                 fd : AllFds, len : {0} \cup ReadLens]
        /\ tf'.fd = d
    BY <1>1, <1>4, Tabled, CallTypes DEF fs_read, Call
  <1>6. SharersKnown'
    BY <1>2 DEF FsInv, SharersKnown, Opened
  <1> HIDE DEF d
  <1>7. CASE Panic
    <2>1. stopped' = TRUE /\ UNCHANGED <<files, ret, buf>> /\ mark' = mark
      BY <1>2, <1>3, <1>7 DEF Panic
    <2>2. FsTypeOK'
      BY <1>2, <1>3, <1>5, <2>1, Types DEF FsTypeOK, KernelTypes, FileState
    <2>3. QED
      BY <1>6, <2>1, <2>2, NoBytes DEF FsInv, StreamsKeepPlace
  <1>8. CASE /\ files[d].used /\ UNCHANGED stopped /\ buf' \in Seq(Nat \cup {Zero})
             /\ \E n \in 0..len :
                /\ ret' = n /\ Moves(d, files[d].offset + n)
                /\ n > 0 => files[d].offset + n <= Size(d) /\ n <= Len(buf')
                /\ \A j \in 1..n : buf'[j] = DiskOffset[d - 3] + files[d].offset + j - 1
    <2>1. PICK n \in 0..len :
                /\ ret' = n /\ Moves(d, files[d].offset + n)
                /\ n > 0 => files[d].offset + n <= Size(d) /\ n <= Len(buf')
                /\ \A j \in 1..n : buf'[j] = DiskOffset[d - 3] + files[d].offset + j - 1
      BY <1>8
    <2>2. /\ files' \in [AllFds -> FileState] /\ files'[d].offset = files[d].offset + n
          /\ d \in AllFds
      BY <1>4, <2>1, Tabled DEF Moves
    <2>3. files[d].offset + n \in Word
      BY <2>2 DEF FileState
    <2>4. n \in Word /\ n \in Nat
      BY <1>1, FileTable, ZeroIsWord DEF Word
    <2>5. ~stopped'
      BY <1>2, <1>8
    <2>6. mark' = [mark EXCEPT ![s] = IF s \in sharing THEN @ ELSE files[d].offset + n]
      <3>1. CASE s \in sharing
        BY <1>2, <3>1
      <3>2. CASE s \notin sharing
        <4>1. mark[s] = files[d].offset
          BY <1>2, <3>2 DEF FsInv, StreamsKeepPlace, d
        <4>2. QED
          BY <1>2, <2>1, <2>5, <3>2, <4>1
      <3>3. QED
        BY <3>1, <3>2
    <2>7. StreamsKeepPlace' /\ mark' \in [Streams -> Word]
      BY <1>2, <2>1, <2>3, <2>6, PlacesKept DEF d
    <2>8. KernelTypes'
      BY <1>3, <1>5, <1>8, <2>1, <2>2, <2>4 DEF KernelTypes
    <2>9. FsTypeOK'
      BY <1>2, <1>3, <2>7, <2>8 DEF FsTypeOK, KernelTypes, FileState
    <2>10. ReadsOwnBytes'
      BY <1>4, <1>5, <1>8, <2>1, <2>4, <2>5, OwnBytes DEF FsInv
    <2>11. QED
      BY <1>6, <2>7, <2>9, <2>10 DEF FsInv
  <1>9. QED
    BY <1>1, <1>4, <1>7, <1>8, ReadEffect DEF FsInv

LEMMA SeekStep == ASSUME FsInv, NEW s \in Streams, fseek(s) PROVE FsInv'
  <1> DEFINE d == stream[s]
  <1>1. PICK off \in SeekOffsets, whence \in SEEK : fs_lseek(d, off, whence)
    BY DEF fseek
  <1>2. /\ s \in Opened /\ ~stopped /\ UNCHANGED <<stream, sharing>>
        /\ mark' = [mark EXCEPT ![s] = IF stopped' \/ s \in sharing THEN @ ELSE ret']
    BY DEF fseek, Marked
  <1>3. /\ KernelTypes /\ stream \in [Streams -> FileFds \cup {NoFd}]
        /\ mark \in [Streams -> Word] /\ sharing \subseteq Streams
    BY Types DEF FsInv
  <1>4. d \in FileFds
    BY <1>2, <1>3 DEF Opened
  <1>5. tf' \in [op : {"none", "open", "read", "write", "lseek", "close"},
                 fd : AllFds, len : {0} \cup ReadLens]
    BY <1>1, <1>4, Tabled, CallTypes DEF fs_lseek
  <1>6. SharersKnown'
    BY <1>2 DEF FsInv, SharersKnown, Opened
  <1> HIDE DEF d
  <1>7. CASE Panic
    <2>1. stopped' = TRUE /\ UNCHANGED <<files, ret, buf>> /\ mark' = mark
      BY <1>2, <1>3, <1>7 DEF Panic
    <2>2. FsTypeOK'
      BY <1>2, <1>3, <1>5, <2>1, Types DEF FsTypeOK, KernelTypes, FileState
    <2>3. QED
      BY <1>6, <2>1, <2>2, NoBytes DEF FsInv, StreamsKeepPlace
  <1>8. CASE \E pos \in Word : Moves(d, pos) /\ ret' = pos /\ buf' = <<>> /\ UNCHANGED stopped
    <2>1. PICK pos \in Word : Moves(d, pos) /\ ret' = pos /\ buf' = <<>> /\ UNCHANGED stopped
      BY <1>8
    <2>2. mark' = [mark EXCEPT ![s] = IF s \in sharing THEN @ ELSE pos]
      BY <1>2, <2>1
    <2>3. StreamsKeepPlace' /\ mark' \in [Streams -> Word]
      BY <1>2, <2>1, <2>2, PlacesKept DEF d
    <2>4. buf' \in Seq(Nat \cup {Zero})
      BY <2>1
    <2>5. KernelTypes'
      BY <1>3, <1>5, <2>1, <2>4 DEF KernelTypes, Moves
    <2>6. FsTypeOK'
      BY <1>2, <1>3, <2>3, <2>5 DEF FsTypeOK, KernelTypes, FileState
    <2>7. QED
      BY <1>6, <2>1, <2>3, <2>6, NoBytes DEF FsInv
  <1>9. QED
    BY <1>1, <1>4, <1>7, <1>8, SeekEffect DEF FsInv

LEMMA CloseStep == ASSUME FsInv, NEW s \in Streams, fclose(s) PROVE FsInv'
  <1> DEFINE d == stream[s]
  <1>1. /\ s \in Opened /\ ~stopped /\ UNCHANGED <<mark, sharing>>
        /\ stream' = [stream EXCEPT ![s] = NoFd]
        /\ files' = [files EXCEPT ![d].used = FALSE] /\ Call("close", d, 0)
        /\ ret' = 0 /\ buf' = <<>> /\ stopped' = stopped
    BY DEF fclose, fs_close, Answer
  <1>2. /\ KernelTypes /\ stream \in [Streams -> FileFds \cup {NoFd}]
        /\ mark \in [Streams -> Word] /\ sharing \subseteq Streams
    BY Types DEF FsInv
  <1>3. d \in FileFds /\ d \in AllFds
    BY <1>1, <1>2, Tabled DEF Opened
  <1> HIDE DEF d
  <1>4. FsTypeOK'
    <2>1. tf' \in [op : {"none", "open", "read", "write", "lseek", "close"},
                   fd : AllFds, len : {0} \cup ReadLens]
      BY <1>1, <1>3, CallTypes
    <2>2. files' \in [AllFds -> FileState]
      BY <1>1, <1>2, ZenonT(40) DEF KernelTypes, FileState
    <2>3. KernelTypes'
      BY <1>1, <1>2, <2>1, <2>2, ZeroIsWord DEF KernelTypes
    <2>4. QED
      BY <1>1, <1>2, <2>3, Types DEF FsTypeOK, KernelTypes, FileState
  <1>5. Opened' = Opened \ {s} /\ \A t \in Opened' : stream'[t] = stream[t] /\ t \in Streams
    BY <1>1, <1>2 DEF Opened
  <1>6. SharersKnown'
    BY <1>1, <1>5 DEF FsInv, SharersKnown
  <1>7. StreamsKeepPlace'
    <2>1. ASSUME NEW t \in Opened', t \notin sharing'
          PROVE  files'[stream'[t]].used /\ files'[stream'[t]].offset = mark'[t]
      <3>1. t \in Opened /\ t # s /\ t \notin sharing /\ stream'[t] = stream[t]
        BY <1>1, <1>5, <2>1
      <3>2. stream[t] # d
        BY <1>1, <3>1 DEF FsInv, SharersKnown, d
      <3>3. files[stream[t]].used /\ files[stream[t]].offset = mark[t]
        BY <1>1, <3>1 DEF FsInv, StreamsKeepPlace
      <3>4. stream[t] \in AllFds
        BY <1>2, <3>1 DEF Opened, AllFds
      <3>5. files'[stream[t]] = files[stream[t]]
        BY <1>1, <1>2, <3>2, <3>4 DEF KernelTypes
      <3>6. QED
        BY <1>1, <3>1, <3>3, <3>5
    <2>2. QED
      BY <2>1 DEF StreamsKeepPlace
  <1>8. QED
    BY <1>1, <1>4, <1>6, <1>7, NoBytes DEF FsInv

\* Steps that leave the streams alone: the kernel stops, or no file's offset moves.
LEMMA PanicStep ==
  ASSUME FsInv, KernelTypes', stopped' = TRUE, UNCHANGED <<stream, mark, sharing>>
  PROVE  FsInv'
  <1>1. FsTypeOK'
    BY Types DEF FsInv, FsTypeOK, KernelTypes, FileState
  <1>2. SharersKnown'
    BY DEF FsInv, SharersKnown, Opened
  <1>3. StreamsKeepPlace'
    BY DEF StreamsKeepPlace
  <1>4. QED
    BY <1>1, <1>2, <1>3, NoBytes DEF FsInv

LEMMA OtherStep ==
  ASSUME FsInv, KernelTypes', UNCHANGED <<stopped, stream, mark, sharing>>, buf' = <<>>,
         \A e \in FileFds : /\ files'[e].used = files[e].used
                            /\ files'[e].offset = files[e].offset
  PROVE  FsInv'
  <1>1. FsTypeOK'
    BY Types DEF FsInv, FsTypeOK, KernelTypes, FileState
  <1>2. SharersKnown'
    BY DEF FsInv, SharersKnown, Opened
  <1>3. StreamsKeepPlace'
    <2>1. ASSUME ~stopped, NEW s \in Opened, s \notin sharing
          PROVE  files'[stream[s]].used /\ files'[stream[s]].offset = mark[s]
      <3>1. stream[s] \in FileFds
        BY Types DEF FsInv, Opened
      <3>2. files[stream[s]].used /\ files[stream[s]].offset = mark[s]
        BY <2>1 DEF FsInv, StreamsKeepPlace
      <3>3. QED
        BY <3>1, <3>2
    <2>2. QED
      BY <2>1 DEF StreamsKeepPlace, Opened
  <1>4. QED
    BY <1>1, <1>2, <1>3, NoBytes DEF FsInv

LEMMA UnknownStep == ASSUME FsInv, fopenUnknown PROVE FsInv'
  <1>1. KernelTypes /\ 0 \in AllFds
    BY Types DEF FsInv, AllFds, StdFds
  <1>2. tf' \in [op : {"none", "open", "read", "write", "lseek", "close"},
                 fd : AllFds, len : {0} \cup ReadLens]
    BY <1>1, CallTypes DEF fopenUnknown, fs_open_unknown
  <1>3. stopped' = TRUE /\ UNCHANGED <<files, ret, buf, stream, mark, sharing>>
    BY DEF fopenUnknown, fs_open_unknown, Panic
  <1>4. KernelTypes'
    BY <1>1, <1>2, <1>3 DEF KernelTypes
  <1>5. QED
    BY <1>3, <1>4, PanicStep

LEMMA StdioStep == ASSUME FsInv, stdio PROVE FsInv'
  <1>1. /\ KernelTypes /\ ~stopped /\ UNCHANGED <<stream, mark, sharing>>
        /\ 1 \in AllFds /\ 1 \in StdFds /\ 1 \notin FileFds
    BY Types DEF FsInv, stdio, AllFds, StdFds, FileFds
  <1>2. CASE \E len \in ReadLens : fs_write(1, len)
    <2>1. PICK len \in ReadLens : fs_write(1, len)
      BY <1>2
    <2>2. /\ ret' = len /\ buf' = <<>> /\ UNCHANGED <<files, stopped>>
      BY <1>1, <2>1 DEF fs_write, Answer
    <2>3. tf' \in [op : {"none", "open", "read", "write", "lseek", "close"},
                   fd : AllFds, len : {0} \cup ReadLens]
      BY <1>1, <2>1, CallTypes DEF fs_write
    <2>4. KernelTypes'
      <3>1. ret' \in Word /\ buf' \in Seq(Nat \cup {Zero})
        BY <2>2, ZeroIsWord
      <3>2. QED
        BY <1>1, <2>2, <2>3, <3>1 DEF KernelTypes
    <2>5. QED
      BY <1>1, <2>2, <2>4, OtherStep
  <1>3. CASE \E off \in SeekOffsets, whence \in {"SET", "CUR"} : fs_lseek(1, off, whence)
    <2>1. PICK off \in SeekOffsets, whence \in {"SET", "CUR"} : fs_lseek(1, off, whence)
      BY <1>3
    <2>2. whence \in SEEK
      BY DEF SEEK
    <2>3. tf' \in [op : {"none", "open", "read", "write", "lseek", "close"},
                   fd : AllFds, len : {0} \cup ReadLens]
      BY <1>1, <2>1, CallTypes DEF fs_lseek
    <2>4. CASE Panic
      <3>1. KernelTypes'
        BY <1>1, <2>3, <2>4 DEF KernelTypes, Panic
      <3>2. stopped' = TRUE /\ UNCHANGED <<stream, mark, sharing>>
        BY <1>1, <2>4 DEF Panic
      <3>3. QED
        BY <3>1, <3>2, PanicStep
    <2>5. CASE \E pos \in Word : Moves(1, pos) /\ ret' = pos /\ buf' = <<>> /\ UNCHANGED stopped
      <3>1. buf' = <<>> /\ UNCHANGED stopped /\ ret' \in Word /\ files' \in [AllFds -> FileState]
        BY <2>5 DEF Moves
      <3>2. \A e \in FileFds : /\ files'[e].used = files[e].used
                               /\ files'[e].offset = files[e].offset
        BY <1>1, <2>5, Tabled DEF Moves
      <3>3. KernelTypes'
        <4>1. buf' \in Seq(Nat \cup {Zero})
          BY <3>1
        <4>2. QED
          BY <1>1, <2>3, <3>1, <4>1 DEF KernelTypes
      <3>4. QED
        BY <1>1, <3>1, <3>2, <3>3, OtherStep
    <2>6. QED
      BY <2>1, <2>2, <2>4, <2>5, SeekEffect DEF FsInv
  <1>4. QED
    BY <1>2, <1>3 DEF stdio

LEMMA StillStep == ASSUME FsInv, UNCHANGED fsVars PROVE FsInv'
  <1>1. /\ files' = files /\ tf' = tf /\ ret' = ret /\ buf' = buf /\ stopped' = stopped
        /\ stream' = stream /\ mark' = mark /\ sharing' = sharing
    BY DEF fsVars, kernelVars
  <1>2. FsTypeOK' /\ SharersKnown' /\ StreamsKeepPlace'
    BY <1>1 DEF FsInv, FsTypeOK, SharersKnown, StreamsKeepPlace, Opened
  <1>3. ReadsOwnBytes'
    BY <1>1 DEF FsInv, ReadsOwnBytes, Delivered
  <1>4. QED
    BY <1>2, <1>3 DEF FsInv

LEMMA StepInv == FsInv /\ [FsNext]_fsVars => FsInv'
  <1> SUFFICES ASSUME FsInv, [FsNext]_fsVars PROVE FsInv'
    OBVIOUS
  <1>1. ASSUME NEW s \in Streams, fopen(s) PROVE FsInv'
    BY <1>1, OpenStep
  <1>2. ASSUME NEW s \in Streams, fread(s) PROVE FsInv'
    BY <1>2, ReadStep
  <1>3. ASSUME NEW s \in Streams, fseek(s) PROVE FsInv'
    BY <1>3, SeekStep
  <1>4. ASSUME NEW s \in Streams, fclose(s) PROVE FsInv'
    BY <1>4, CloseStep
  <1>5. CASE fopenUnknown
    BY <1>5, UnknownStep
  <1>6. CASE stdio
    BY <1>6, StdioStep
  <1>7. CASE Stopped \/ UNCHANGED fsVars
    BY <1>7, StillStep DEF Stopped
  <1>8. QED
    BY <1>1, <1>2, <1>3, <1>4, <1>5, <1>6, <1>7 DEF FsNext

-----------------------------------------------------------------------------
\* The inductive invariant of the file system: the types, that streams with a
\* file in common know it, every other stream's place and the bytes delivered.
THEOREM FsInvariance == FsSpec => []FsInv
  <1>1. QED
    BY InitInv, StepInv, PTL DEF FsSpec

\* No read ever delivers a byte of another file, for any table of files, any
\* seeks and any lengths that leave the unsigned sums room (fs.c:56-73).
THEOREM ReadsStayInFile == FsSpec => []ReadsOwnBytes
  <1>1. FsInv => ReadsOwnBytes
    BY DEF FsInv
  <1>2. QED
    BY <1>1, FsInvariance, PTL

\* A stream alone on its file is where its own calls left it (fs.c:38-49).
THEOREM PlaceIsKept == FsSpec => []StreamsKeepPlace
  <1>1. FsInv => StreamsKeepPlace
    BY DEF FsInv
  <1>2. QED
    BY <1>1, FsInvariance, PTL

-----------------------------------------------------------------------------
(***************************************************************************)
(* The kernel's files implement FileStreams: each call is a step of the    *)
(* abstract files or leaves them as they are.                              *)
(***************************************************************************)

IsOpen == [d \in FileFds |-> files[d].used]
Positions == [d \in FileFds |-> Position(d)]
Got == [j \in DOMAIN Delivered |-> <<tf.fd, Delivered[j] - DiskOffset[tf.fd - 3]>>]

\* What a call that is answered asks for.
LEMMA AskedNext ==
  ASSUME NEW op, NEW d \in FileFds, NEW len, Call(op, d, len), ~stopped'
  PROVE  Asked' = [op |-> op, fd |-> d, len |-> len]
  BY DEF Call, Asked

\* What a sequence of nothing is.
LEMMA NothingGot ==
  ASSUME buf = <<>> \/ stopped
  PROVE  Got = <<>>
  <1>1. Delivered = [j \in 1..0 |-> buf[j]]
    BY DEF Delivered
  <1>2. DOMAIN Delivered = 1..0
    BY <1>1
  <1>3. Got = [j \in 1..0 |-> <<tf.fd, Delivered[j] - DiskOffset[tf.fd - 3]>>]
    BY <1>2 DEF Got
  <1>4. QED
    BY <1>3

LEMMA NothingGotNext ==
  ASSUME buf' = <<>> \/ stopped'
  PROVE  Got' = <<>>
  <1>1. Delivered' = [j \in 1..0 |-> buf'[j]]
    BY DEF Delivered
  <1>2. DOMAIN Delivered' = 1..0
    BY <1>1
  <1>3. Got' = [j \in 1..0 |-> <<tf'.fd, Delivered'[j] - DiskOffset[tf'.fd - 3]>>]
    BY <1>2 DEF Got
  <1>4. QED
    BY <1>3

\* A position is a place in the file or its end.
LEMMA PositionRange ==
  ASSUME FsTypeOK, NEW d \in FileFds
  PROVE  Position(d) \in 0..Size(d) /\ files[d].offset \in Nat
  <1>1. files[d].offset \in Nat /\ Size(d) \in Nat
    BY Tabled, FileTable DEF FsTypeOK, Word
  <1>2. QED
    BY <1>1 DEF Position

LEMMA PositionRangeNext ==
  ASSUME FsTypeOK', NEW d \in FileFds
  PROVE  (Position(d) \in 0..Size(d))'
  <1>1. files'[d].offset \in Nat /\ Size(d) \in Nat
    BY Tabled, FileTable DEF FsTypeOK, Word
  <1>2. QED
    BY <1>1 DEF Position, Size

\* A call that moves one file's offset moves that file's position at most.
LEMMA MovesPosition ==
  ASSUME NEW d \in AllFds, NEW pos, Moves(d, pos)
  PROVE  /\ IsOpen' = IsOpen
         /\ d \notin FileFds => Positions' = Positions
         /\ d \in FileFds => Positions' = [Positions EXCEPT ![d] = Position(d)']
  <1>1. \A e \in FileFds : /\ e \in AllFds /\ files'[e].used = files[e].used
                           /\ e # d => files'[e].offset = files[e].offset
    BY Tabled DEF Moves
  <1>2. \A e \in FileFds : e # d => Position(e)' = Position(e)
    BY <1>1 DEF Position, Size
  <1>3. IsOpen' = IsOpen
    BY <1>1 DEF IsOpen
  <1>4. QED
    BY <1>2, <1>3 DEF Positions

\* Whatever is not about a file, or stops, and leaves the files as they are.
LEMMA OtherMaps ==
  ASSUME Got' = <<>>, IsOpen' = IsOpen, Positions' = Positions,
         stopped' \/ tf'.fd \notin FileFds
  PROVE  Streamed!Next
  <1>1. Asked' = Streamed!Nothing
    BY DEF Asked, NoCall, Streamed!Nothing
  <1>2. QED
    BY <1>1 DEF Streamed!Next, Streamed!Other, Got, IsOpen, Positions

LEMMA PanicMaps ==
  ASSUME Panic
  PROVE  Streamed!Next
  <1>1. Got' = <<>>
    BY NothingGotNext DEF Panic
  <1>2. IsOpen' = IsOpen /\ Positions' = Positions
    BY DEF Panic, IsOpen, Positions, Position, Size
  <1>3. QED
    BY <1>1, <1>2, OtherMaps DEF Panic

LEMMA OpenMaps == ASSUME FsInv, NEW s \in Streams, fopen(s) PROVE Streamed!Next
  <1>1. PICK d \in FileFds : fs_open(d)
    BY DEF fopen
  <1>2. /\ files' = [files EXCEPT ![d] = [used |-> TRUE, index |-> d, offset |-> 0]]
        /\ buf' = <<>> /\ d \in AllFds /\ Size(d) \in Nat \ {0}
    BY <1>1, Tabled DEF fs_open, Answer
  <1>3. files \in [AllFds -> FileState]
    BY Types DEF FsInv, KernelTypes
  <1>4. Got' = <<>>
    BY <1>2, NothingGotNext
  <1>5. \A e \in FileFds : e \in AllFds
    BY Tabled
  <1>6. IsOpen' = [IsOpen EXCEPT ![d] = TRUE]
    BY <1>2, <1>3, <1>5 DEF IsOpen
  <1>7. Positions' = [Positions EXCEPT ![d] = 0]
    <2>1. Position(d)' = 0
      BY <1>2, <1>3 DEF Position, Size
    <2>2. \A e \in FileFds : e # d => Position(e)' = Position(e)
      BY <1>2, <1>3, <1>5 DEF Position, Size
    <2>3. QED
      BY <2>1, <2>2 DEF Positions
  <1>8. Asked' = [op |-> "open", fd |-> d, len |-> 0]
    BY <1>1, AskedNext DEF fs_open, fopen, Answer
  <1>9. Streamed!Open(d)
    BY <1>4, <1>6, <1>7, <1>8 DEF Streamed!Open, Streamed!Asks, Got, IsOpen, Positions
  <1>10. QED
    BY <1>9 DEF Streamed!Next

\* How much a read of an open file delivers.
LEMMA ReadAmount ==
  ASSUME FsTypeOK, NEW d \in FileFds, NEW len \in ReadLens, fs_read(d, len), files[d].used
  PROVE  ret' = IF files[d].offset >= Size(d) THEN 0
                ELSE IF files[d].offset + len >= Size(d) THEN Size(d) - files[d].offset - 1
                ELSE len
  <1> DEFINE o == files[d].offset
  <1>1. len \in Nat /\ Size(d) \in Nat \ {0} /\ Size(d) + len \in Word /\ o \in Nat
    BY Tabled DEF FsTypeOK, FileState, Word
  <1>2. CASE o >= Size(d)
    BY <1>2 DEF fs_read, Answer
  <1>3. CASE ~(o >= Size(d))
    <2>1. ret' = rdlen(d, len)
      BY <1>3 DEF fs_read, Answer
    <2>2. o + len \in Word
      <3>1. PICK m \in Nat, z \in Nat, k \in Nat : m = MOD /\ z = Size(d) /\ k = o
        BY <1>1, FileTable
      <3>2. k < z /\ z + len <= m - 1
        BY <1>1, <1>3, <3>1 DEF Word
      <3>3. k + len \in 0..(m - 1)
        BY <1>1, <3>1, <3>2
      <3>4. QED
        BY <3>1, <3>3 DEF Word
    <2>3. (o + len) % MOD = o + len
      BY <2>2, ModSmall
    <2>4. QED
      BY <1>3, <2>1, <2>3 DEF rdlen
  <1>4. QED
    BY <1>2, <1>3

LEMMA ReadMaps ==
  ASSUME FsInv, ~stopped, NEW d \in FileFds, NEW len \in ReadLens, fs_read(d, len)
  PROVE  Streamed!Next
  <1> DEFINE o == files[d].offset
             z == DiskOffset[d - 3]
  <1>1. d \in AllFds /\ FsTypeOK /\ Size(d) \in Nat /\ z \in Nat
    BY Tabled DEF FsInv
  <1>2. tf'.fd = d
    BY DEF fs_read, Call
  <1>3. o \in Nat /\ Position(d) \in 0..Size(d)
    BY <1>1, PositionRange
  <1>4. CASE Panic
    BY <1>4, PanicMaps
  <1>5. CASE /\ files[d].used /\ UNCHANGED stopped /\ buf' \in Seq(Nat \cup {Zero})
             /\ \E n \in 0..len :
                /\ ret' = n /\ Moves(d, files[d].offset + n)
                /\ n > 0 => files[d].offset + n <= Size(d) /\ n <= Len(buf')
                /\ \A j \in 1..n : buf'[j] = DiskOffset[d - 3] + files[d].offset + j - 1
    <2>1. PICK n \in 0..len :
                /\ ret' = n /\ Moves(d, o + n)
                /\ n > 0 => o + n <= Size(d) /\ n <= Len(buf')
                /\ \A j \in 1..n : buf'[j] = z + o + j - 1
      BY <1>5
    <2>2. n \in Nat /\ n <= len /\ len \in Nat
      BY FileTable
    <2>3. IsOpen' = IsOpen /\ Positions' = [Positions EXCEPT ![d] = Position(d)']
      BY <1>1, <2>1, MovesPosition
    <2>4. Position(d)' = Position(d) + n /\ (n > 0 => Position(d) = o) /\ n <= Size(d) - Position(d)
      <3>1. files'[d].offset = o + n
        BY <1>1, <2>1 DEF Moves
      <3>2. CASE n = 0
        BY <1>1, <1>3, <2>2, <3>1, <3>2 DEF Position, Size
      <3>3. CASE n > 0
        <4>1. o + n <= Size(d)
          BY <2>1, <3>3
        <4>2. QED
          BY <1>1, <1>3, <2>2, <3>1, <3>3, <4>1 DEF Position, Size
      <3>4. QED
        BY <2>2, <3>2, <3>3
    <2>5. Got' = [j \in 1..n |-> <<d, Position(d) + j - 1>>]
      <3>1. CASE n = 0
        <4>1. DOMAIN Delivered' = 1..0
          BY <2>1, <3>1 DEF Delivered
        <4>2. QED
          BY <3>1, <4>1 DEF Got
      <3>2. CASE n > 0
        <4>1. buf' # <<>> /\ ~stopped'
          <5>1. Len(buf') # 0
            BY <2>1, <2>2, <3>2
          <5>2. QED
            BY <1>5, <5>1
        <4>2. Delivered' = [j \in 1..n |-> buf'[j]]
          BY <2>1, <4>1 DEF Delivered
        <4>3. Got' = [j \in 1..n |-> <<d, buf'[j] - z>>]
          BY <1>2, <4>2 DEF Got
        <4>4. \A j \in 1..n : buf'[j] - z = Position(d) + j - 1
          BY <1>1, <1>3, <2>1, <2>2, <2>4, <3>2
        <4>5. QED
          BY <4>3, <4>4
      <3>3. QED
        BY <2>2, <3>1, <3>2
    <2>6. IsOpen[d] /\ Positions[d] = Position(d)
      BY <1>1, <1>5 DEF IsOpen, Positions
    <2>7. n = Streamed!Delivered(d, len)
      <3>1. n = IF o >= Size(d) THEN 0 ELSE IF o + len >= Size(d) THEN Size(d) - o - 1 ELSE len
        BY <1>1, <1>5, <2>1, ReadAmount
      <3>2. n = IF Position(d) + len < Size(d) THEN len
                ELSE IF Position(d) = Size(d) THEN 0 ELSE Size(d) - Position(d) - 1
        BY <1>1, <1>3, <2>2, <3>1 DEF Position
      <3> HIDE DEF o, z
      <3>3. QED
        BY <3>2 DEF Streamed!Delivered, Streamed!AtEnd
    <2>8. /\ Got' = [j \in 1..n |-> <<d, Positions[d] + j - 1>>]
          /\ Positions' = [Positions EXCEPT ![d] = Positions[d] + n]
      BY <2>2, <2>3, <2>4, <2>5, <2>6
    <2>9. Streamed!Read(d)
      <3> HIDE DEF o, z
      <3>1. IsOpen[d] /\ UNCHANGED IsOpen
        BY <2>3, <2>6
      <3>2. Asked' = [op |-> "read", fd |-> d, len |-> len]
        BY <1>5, AskedNext DEF fs_read
      <3>3. QED
        BY <2>7, <2>8, <3>1, <3>2, Zenon
           DEF Streamed!Read, Streamed!Asks, Got, IsOpen, Positions
    <2>10. QED
      BY <1>1, <2>9 DEF Streamed!Next
  <1>6. QED
    BY <1>1, <1>4, <1>5, ReadEffect

\* Clamped() takes a place in the file as it is, and the last byte for any other;
\* a number that wraps around becomes one beyond the file.
LEMMA ClampedIs ==
  ASSUME NEW d \in FileFds, NEW n \in Int
  PROVE  /\ Clamped(n, Size(d)) \in 0..(Size(d) - 1)
         /\ -MOD <= 2 * n /\ n < MOD =>
                Clamped(n, Size(d)) = IF n \in 0..(Size(d) - 1) THEN n ELSE Size(d) - 1
         /\ -MOD <= 2 * n /\ n <= 0 =>
                (Size(d) + n) % MOD = IF Size(d) + n >= 0 THEN Size(d) + n ELSE Size(d) + n + MOD
  <1>1. PICK m \in Nat \ {0}, z \in Nat \ {0} : m = MOD /\ z = Size(d) /\ 2 * z <= m
    BY SizeFits
  <1>2. n % m \in 0..(m - 1) /\ (z - 1) % m = z - 1
    BY <1>1
  <1>3. Clamped(n, z) = IF n % m >= z THEN z - 1 ELSE n % m
    BY <1>1, <1>2 DEF Clamped
  <1>4. /\ n \in 0..(m - 1) => n % m = n
        /\ -m <= n /\ n < 0 => n % m = n + m
    BY <1>1
  <1>5. Clamped(n, z) \in 0..(z - 1)
    BY <1>2, <1>3
  <1>6. -m <= 2 * n /\ n < m => Clamped(n, z) = IF n \in 0..(z - 1) THEN n ELSE z - 1
    BY <1>1, <1>3, <1>4
  <1>7. -m <= 2 * n /\ n <= 0 => (z + n) % m = IF z + n >= 0 THEN z + n ELSE z + n + m
    <2>1. PICK k \in Int : k = z + n
      OBVIOUS
    <2>2. k \in 0..(m - 1) => k % m = k
      BY <1>1
    <2>3. -m <= k /\ k < 0 => k % m = k + m
      BY <1>1
    <2>4. QED
      BY <1>1, <2>1, <2>2, <2>3
  <1>8. QED
    BY <1>1, <1>5, <1>6, <1>7

\* Where a seek leaves the position.
LEMMA SeekPlaces ==
  ASSUME FsTypeOK, NEW d \in FileFds, NEW off \in SeekOffsets, NEW whence \in SEEK,
         fs_lseek(d, off, whence), ~Panic, files'[d].offset = ret'
  PROVE  LET z == Size(d)  p == Position(d)  q == Position(d)'  IN
         \/ q = IF off \in 0..(z - 1) THEN off ELSE z - 1
         \/ p = z /\ q \in 0..(z - 1)
         \/ p # z /\ q = IF p + off \in 0..(z - 1) THEN p + off ELSE z - 1
         \/ off <= 0 /\ q = IF z + off \in 0..(z - 1) THEN z + off ELSE z
  <1>1. PICK m \in Nat \ {0}, z \in Nat \ {0} : m = MOD /\ z = Size(d) /\ 2 * z <= m
    BY SizeFits
  <1>2. PICK o \in Nat : o = files[d].offset
    BY Tabled DEF FsTypeOK, Word
  <1>3. off \in Int /\ -m <= 2 * off /\ 2 * off < m
    BY <1>1, FileTable
  <1>4. Position(d) = IF o >= z THEN z ELSE o
    BY <1>1, <1>2 DEF Position
  <1>5. Position(d)' = IF ret' >= z THEN z ELSE ret'
    BY <1>1 DEF Position, Size
  <1>6. CASE whence = "SET"
    <2>1. ret' = Clamped(off, z)
      BY <1>1, <1>6 DEF fs_lseek, Answer
    <2>2. ret' = IF off \in 0..(z - 1) THEN off ELSE z - 1
      BY <1>1, <1>3, <2>1, ClampedIs
    <2>3. Position(d)' = ret'
      BY <1>1, <1>3, <1>5, <2>2
    <2>4. QED
      BY <1>1, <2>2, <2>3
  <1>7. CASE whence = "CUR"
    <2>1. ret' = Clamped(o + off, z)
      BY <1>1, <1>2, <1>7 DEF fs_lseek, Answer
    <2>2. o + off \in Int
      BY <1>3
    <2>3. ret' \in 0..(z - 1)
      BY <1>1, <2>1, <2>2, ClampedIs
    <2>4. o < z => ret' = IF o + off \in 0..(z - 1) THEN o + off ELSE z - 1
      <3>1. o < z => -m <= 2 * (o + off) /\ o + off < m
        BY <1>1, <1>3
      <3>2. QED
        BY <1>1, <2>1, <2>2, <3>1, ClampedIs
    <2>5. Position(d)' = ret'
      BY <1>1, <1>5, <2>3
    <2>6. QED
      BY <1>1, <1>4, <2>3, <2>4, <2>5
  <1>8. CASE whence = "END"
    <2>1. off <= 0 /\ ret' = (z + off) % m
      BY <1>1, <1>3, <1>8 DEF fs_lseek, Answer
    <2>2. ret' = IF z + off >= 0 THEN z + off ELSE z + off + m
      BY <1>1, <1>3, <2>1, ClampedIs
    <2>3. Position(d)' = IF z + off \in 0..(z - 1) THEN z + off ELSE z
      BY <1>1, <1>3, <1>5, <2>1, <2>2
    <2>4. QED
      BY <1>1, <2>1, <2>3
  <1>9. QED
    BY <1>6, <1>7, <1>8 DEF SEEK

LEMMA SeekMaps ==
  ASSUME FsInv, FsInv', ~stopped, NEW d \in FileFds, NEW off \in SeekOffsets, NEW whence \in SEEK,
         fs_lseek(d, off, whence)
  PROVE  Streamed!Next
  <1>1. d \in AllFds /\ FsTypeOK
    BY Tabled DEF FsInv
  <1>2. CASE Panic
    BY <1>2, PanicMaps
  <1>3. CASE /\ ~Panic
             /\ \E pos \in Word : Moves(d, pos) /\ ret' = pos /\ buf' = <<>> /\ UNCHANGED stopped
    <2>1. /\ IsOpen' = IsOpen /\ Positions' = [Positions EXCEPT ![d] = Position(d)']
          /\ buf' = <<>> /\ files'[d].offset = ret'
      BY <1>1, <1>3, MovesPosition DEF Moves
    <2>2. Got' = <<>>
      BY <2>1, NothingGotNext
    <2> DEFINE z == Size(d)
               p == Position(d)
               q == Position(d)'
    <2>3. \/ q = IF off \in 0..(z - 1) THEN off ELSE z - 1
          \/ p = z /\ q \in 0..(z - 1)
          \/ p # z /\ q = IF p + off \in 0..(z - 1) THEN p + off ELSE z - 1
          \/ off <= 0 /\ q = IF z + off \in 0..(z - 1) THEN z + off ELSE z
      BY <1>1, <1>3, <2>1, SeekPlaces
    <2>4. Positions[d] = p /\ [e \in FileFds |-> Size(e)][d] = z
      BY DEF Positions
    <2> HIDE DEF z, p, q
    <2>5. /\ Streamed!Place(d, off, z - 1) = IF off \in 0..(z - 1) THEN off ELSE z - 1
          /\ Streamed!Place(d, z + off, z) = IF z + off \in 0..(z - 1) THEN z + off ELSE z
          /\ Streamed!Around(d, off) = IF p = z THEN 0..(z - 1)
                ELSE {IF p + off \in 0..(z - 1) THEN p + off ELSE z - 1}
      BY <2>4 DEF Streamed!Place, Streamed!Around, Streamed!AtEnd, Positions
    <2>6. q \in {Streamed!Place(d, off, z - 1)} \cup Streamed!Around(d, off)
                    \cup IF off <= 0 THEN {Streamed!Place(d, z + off, z)} ELSE {}
      BY <2>3, <2>5
    <2>7. Asked' = [op |-> "lseek", fd |-> d, len |-> 0]
      BY <1>3, AskedNext DEF fs_lseek
    <2>8. Streamed!Seek(d)
      BY <2>1, <2>2, <2>4, <2>6, <2>7
         DEF Streamed!Seek, Streamed!Asks, Got, IsOpen, Positions, q
    <2>9. QED
      BY <2>8 DEF Streamed!Next
  <1>4. QED
    BY <1>1, <1>2, <1>3, SeekEffect

LEMMA CloseMaps ==
  ASSUME FsInv, ~stopped, NEW d \in FileFds, fs_close(d)
  PROVE  Streamed!Next
  <1>1. /\ d \in AllFds /\ files \in [AllFds -> FileState]
        /\ files' = [files EXCEPT ![d].used = FALSE] /\ buf' = <<>>
    BY Types, Tabled DEF fs_close, Answer, FsInv, KernelTypes
  <1>2. \A e \in FileFds : /\ files'[e].offset = files[e].offset
                           /\ files'[e].used = IF e = d THEN FALSE ELSE files[e].used
    <2>1. ASSUME NEW e \in FileFds
          PROVE  e \in AllFds /\ files[e] \in FileState
      BY <1>1, Tabled
    <2>2. ASSUME NEW e \in FileFds
          PROVE  files'[e] = IF e = d THEN [files[d] EXCEPT !.used = FALSE] ELSE files[e]
      BY <1>1, <2>1
    <2>3. QED
      BY <2>1, <2>2 DEF FileState
  <1>3. IsOpen' = [IsOpen EXCEPT ![d] = FALSE] /\ Positions' = Positions
    BY <1>1, <1>2 DEF IsOpen, Positions, Position, Size
  <1>4. Got' = <<>>
    BY <1>1, NothingGotNext
  <1>5. Asked' = [op |-> "close", fd |-> d, len |-> 0]
    BY AskedNext DEF fs_close, Answer
  <1>6. Streamed!Close(d)
    BY <1>3, <1>4, <1>5 DEF Streamed!Close, Streamed!Asks, Got, IsOpen, Positions
  <1>7. QED
    BY <1>6 DEF Streamed!Next

LEMMA StdioMaps == ASSUME FsInv, stdio PROVE Streamed!Next
  <1>1. 1 \in AllFds /\ 1 \notin FileFds /\ FsTypeOK
    BY DEF AllFds, StdFds, FileFds, FsInv
  <1>2. CASE \E len \in ReadLens : fs_write(1, len)
    <2>1. CASE Panic
      BY <2>1, PanicMaps
    <2>2. CASE buf' = <<>> /\ files' = files
      <3>1. IsOpen' = IsOpen /\ Positions' = Positions
        BY <2>2 DEF IsOpen, Positions, Position, Size
      <3>2. tf'.fd \notin FileFds
        BY <1>1, <1>2 DEF fs_write, Call
      <3>3. QED
        BY <2>2, <3>1, <3>2, NothingGotNext, OtherMaps
    <2>3. QED
      BY <1>2, <2>1, <2>2 DEF fs_write, Answer
  <1>3. CASE \E off \in SeekOffsets, whence \in {"SET", "CUR"} : fs_lseek(1, off, whence)
    <2>1. PICK off \in SeekOffsets, whence \in SEEK : fs_lseek(1, off, whence)
      BY <1>3 DEF SEEK
    <2>2. CASE Panic
      BY <2>2, PanicMaps
    <2>3. CASE \E pos \in Word : Moves(1, pos) /\ ret' = pos /\ buf' = <<>> /\ UNCHANGED stopped
      <3>1. tf'.fd \notin FileFds
        BY <1>1, <2>1 DEF fs_lseek, Call
      <3>2. QED
        BY <1>1, <2>3, <3>1, MovesPosition, NothingGotNext, OtherMaps
    <2>4. QED
      BY <1>1, <2>1, <2>2, <2>3, SeekEffect
  <1>4. QED
    BY <1>2, <1>3 DEF stdio

\* The kernel's files implement FileStreams, for any table of files, streams,
\* lengths and seeks: a read delivers the bytes at the position, just as many as were
\* asked for or all but the file's last one, and moves the position past them; a
\* seek goes where it names or to the place FileStreams gives instead; and no call
\* moves another file's position (fs.c:38-120).
THEOREM FilesImplementStreams == FsSpec => ImplementsStreams
  <1>1. FsInit => Streamed!Init
    <2> SUFFICES ASSUME FsInit PROVE Streamed!Init
      OBVIOUS
    <2>1. Got = <<>>
      BY NothingGot DEF FsInit
    <2>2. \A d \in FileFds : d \in AllFds /\ Size(d) \in Nat \ {0}
      BY Tabled
    <2>3. IsOpen = [d \in FileFds |-> FALSE]
      BY <2>2 DEF FsInit, IsOpen
    <2>4. Positions = [d \in FileFds |-> 0]
      BY <2>2 DEF FsInit, Positions, Position
    <2>5. QED
      BY <2>1, <2>3, <2>4
         DEF FsInit, Asked, NoCall, Streamed!Init, Streamed!Nothing, Got, IsOpen, Positions
  <1>2. FsInv /\ FsInv' /\ [FsNext]_fsVars
          => [Streamed!Next]_(<<IsOpen, Positions, Asked, Got>>)
    <2> SUFFICES ASSUME FsInv, FsInv', FsNext PROVE Streamed!Next \/ UNCHANGED fsVars
      <3>1. UNCHANGED fsVars => UNCHANGED <<IsOpen, Positions, Asked, Got>>
        BY DEF fsVars, kernelVars, IsOpen, Positions, Position, Size, Asked, Got, Delivered
      <3>2. QED
        BY <3>1
    <2>1. ASSUME NEW s \in Streams, fopen(s) \/ fread(s) \/ fseek(s) \/ fclose(s)
          PROVE  Streamed!Next
      <3>1. CASE fopen(s)
        BY <3>1, OpenMaps
      <3>2. CASE fread(s)
        <4>1. PICK d \in FileFds, len \in ReadLens : ~stopped /\ fs_read(d, len)
          BY <3>2, Types DEF fread, Opened, FsInv
        <4>2. QED
          BY <4>1, ReadMaps
      <3>3. CASE fseek(s)
        <4>1. PICK d \in FileFds, off \in SeekOffsets, whence \in SEEK :
                ~stopped /\ fs_lseek(d, off, whence)
          BY <3>3, Types DEF fseek, Opened, FsInv
        <4>2. QED
          BY <4>1, SeekMaps
      <3>4. CASE fclose(s)
        <4>1. PICK d \in FileFds : ~stopped /\ fs_close(d)
          BY <3>4, Types DEF fclose, Opened, FsInv
        <4>2. QED
          BY <4>1, CloseMaps
      <3>5. QED
        BY <2>1, <3>1, <3>2, <3>3, <3>4
    <2>2. CASE fopenUnknown
      BY <2>2, PanicMaps DEF fopenUnknown, fs_open_unknown
    <2>3. CASE stdio
      BY <2>3, StdioMaps
    <2>4. CASE Stopped
      BY <2>4 DEF Stopped
    <2>5. QED
      BY <2>1, <2>2, <2>3, <2>4 DEF FsNext
  <1>3. QED
    BY <1>1, <1>2, FsInvariance, PTL DEF FsSpec, ImplementsStreams, Streamed!Spec, IsOpen,
       Positions, Got

-----------------------------------------------------------------------------
\* The credits player and the sound card.

\* What all steps use of the types.
LEMMA OtherChunk ==
  ASSUME NEW c \in Chunks
  PROVE  /\ (c + 1) % 2 \in Chunks /\ (c + 1) % 2 # c
         /\ \A d \in Chunks : d # c => d = (c + 1) % 2
  BY DEF Chunks

LEMMA AudioStarts == AuInit => AuInv
  <1> SUFFICES ASSUME AuInit PROVE AuInv
    OBVIOUS
  <1> USE Recording DEF AuInit, Chunks, Nobody
  <1>1. AuTypeOK
    <2>1. /\ 0 \in 0..FileChunks /\ 0 \in 0..PIECES /\ PIECES \in 1..PIECES
      OBVIOUS
    <2>2. heard \in (0..FileChunks) \X (1..PIECES)
      BY <2>1
    <2>3. QED
      BY <2>1, <2>2 DEF AuTypeOK
  <1>2. MutexesAreReturned
    <2>1. \A c \in Chunks : mutex[c] = "nobody"
      OBVIOUS
    <2>2. play \in Chunks /\ fill \in Chunks /\ prog = "start" /\ cb = "idle"
      OBVIOUS
    <2>3. QED
      BY <2>1, <2>2 DEF MutexesAreReturned
  <1>3. FillsWhatItLocked /\ ChunksApart /\ prog # "asked"
    BY DEF FillsWhatItLocked, ChunksApart
  <1>4. OneRequest
    BY DEF OneRequest, Swapping, Switched, Flagged, Writing, Holding
  <1>5. InOrder
    BY DEF InOrder, Playing, Following, Carrying, NextLen
  <1>6. QED
    BY <1>1, <1>2, <1>3, <1>4, <1>5 DEF AuInv

-----------------------------------------------------------------------------
\* Type correctness, thread by thread.

LEMMA CallbackTypes == AuInv /\ Callback => AuTypeOK'
  <1>a. SUFFICES ASSUME AuInv, Callback PROVE AuTypeOK'
    OBVIOUS
  <1>0. AuTypeOK
    BY <1>a DEF AuInv
  <1> USE Recording, <1>0 DEF AuTypeOK, Chunks, Nobody, Lock, Unlock, cbSame, progVars
  <1>1. CASE FillAudio
    BY <1>1 DEF FillAudio
  <1>2. CASE LockPlayed
    BY <1>2 DEF LockPlayed
  <1>3. CASE LockFilled
    BY <1>3 DEF LockFilled
  <1>4. CASE ReleaseFilled
    BY <1>4 DEF ReleaseFilled
  <1>5. CASE SwapFill
    BY <1>5 DEF SwapFill
  <1>6. CASE SwapPlay
    BY <1>6 DEF SwapPlay
  <1>7. CASE FreeOldPlayed
    BY <1>7 DEF FreeOldPlayed
  <1>8. CASE Tell
    BY <1>8 DEF Tell
  <1>9. CASE Mix
    BY <1>9 DEF Mix
  <1>10. CASE UnlockPlayed
    BY <1>10 DEF UnlockPlayed
  <1>11. QED
    BY <1>a, <1>1, <1>2, <1>3, <1>4, <1>5, <1>6, <1>7, <1>8, <1>9, <1>10 DEF Callback

LEMMA OtherTypes == AuInv /\ (Monitor \/ Program \/ timer_event) => AuTypeOK'
  <1>a. SUFFICES ASSUME AuInv, Monitor \/ Program \/ timer_event PROVE AuTypeOK'
    OBVIOUS
  <1>0. AuTypeOK
    BY <1>a DEF AuInv
  <1> USE Recording, <1>0 DEF AuTypeOK, Chunks, Nobody, Lock, Unlock, progSame, progVars, cardVars
  <1>1. CASE Raise
    <2>1. irq' \in BOOLEAN /\ mon' = "clear"
      BY <1>1 DEF Raise
    <2>2. UNCHANGED <<cardVars, cb, progVars, due, heard>>
      BY <1>1 DEF Raise
    <2>3. QED
      BY <2>1, <2>2
  <1>2. CASE ClearSwitch
    BY <1>2, ZenonT(40) DEF ClearSwitch
  <1>3. CASE audio_pause
    BY <1>3 DEF audio_pause
  <1>4. CASE audio_event
    BY <1>4, ZenonT(40) DEF audio_event
  <1>5. CASE Look
    <2>1. read' \in 0..FileChunks /\ left' \in {0, PIECES}
      <3>1. CASE audio_reload
        BY <1>5, <3>1 DEF Look
      <3>2. CASE ~audio_reload
        BY <1>5, <3>2 DEF Look
      <3>3. QED
        BY <3>1, <3>2
    <2>2. QED
      BY <1>5, <2>1 DEF Look
  <1>6. CASE Out
    BY <1>6 DEF Out
  <1>7. CASE LockChunk
    BY <1>7 DEF LockChunk
  <1>8. CASE Copy
    BY <1>8 DEF Copy
  <1>9. CASE Ready
    BY <1>9 DEF Ready
  <1>10. CASE Length
    BY <1>10 DEF Length
  <1>11. CASE UnlockChunk
    BY <1>11 DEF UnlockChunk
  <1>12. CASE ClearReload
    BY <1>12 DEF ClearReload
  <1>13. CASE timer_event
    BY <1>13 DEF timer_event
  <1>14. QED
    BY <1>a, <1>1, <1>2, <1>3, <1>4, <1>5, <1>6, <1>7, <1>8, <1>9, <1>10, <1>11, <1>12, <1>13 DEF Monitor, Program

LEMMA MutexesAreReturnedStep == AuInv /\ [AuNext]_auVars => MutexesAreReturned'
  <1> SUFFICES ASSUME AuInv, [AuNext]_auVars PROVE MutexesAreReturned'
    OBVIOUS
  <1> USE Recording DEF AuInv, AuTypeOK, Chunks, Nobody, Lock, Unlock, cbSame, progSame,
          progVars, cardVars, MutexesAreReturned, ChunksApart, OneRequest, FillsWhatItLocked,
          Swapping, Switched, Flagged, Writing, Holding, InOut, Runs
  <1>1. CASE FillAudio
    BY <1>1 DEF FillAudio
  <1>2. CASE LockPlayed
    BY <1>2 DEF LockPlayed
  <1>3. CASE LockFilled
    BY <1>3 DEF LockFilled
  <1>4. CASE ReleaseFilled
    BY <1>4 DEF ReleaseFilled
  <1>5. CASE SwapFill
    BY <1>5 DEF SwapFill
  <1>6. CASE SwapPlay
    BY <1>6 DEF SwapPlay
  <1>7. CASE FreeOldPlayed
    BY <1>7 DEF FreeOldPlayed
  <1>8. CASE Tell
    BY <1>8 DEF Tell
  <1>9. CASE Mix
    BY <1>9 DEF Mix
  <1>10. CASE UnlockPlayed
    BY <1>10 DEF UnlockPlayed
  <1>11. CASE Raise
    BY <1>11 DEF Raise
  <1>12. CASE ClearSwitch
    BY <1>12 DEF ClearSwitch
  <1>13. CASE audio_pause
    BY <1>13 DEF audio_pause
  <1>14. CASE audio_event
    BY <1>14 DEF audio_event
  <1>15. CASE Look
    BY <1>15 DEF Look
  <1>16. CASE Out
    BY <1>16 DEF Out
  <1>17. CASE LockChunk
    BY <1>17 DEF LockChunk
  <1>18. CASE Copy
    BY <1>18 DEF Copy
  <1>19. CASE Ready
    BY <1>19 DEF Ready
  <1>20. CASE Length
    BY <1>20 DEF Length
  <1>21. CASE UnlockChunk
    BY <1>21 DEF UnlockChunk
  <1>22. CASE ClearReload
    BY <1>22 DEF ClearReload
  <1>23. CASE timer_event
    BY <1>23 DEF timer_event
  <1>24. CASE UNCHANGED auVars
    BY <1>24 DEF auVars
  <1>25. QED
    BY <1>1, <1>2, <1>3, <1>4, <1>5, <1>6, <1>7, <1>8, <1>9, <1>10, <1>11, <1>12, <1>13, <1>14, <1>15, <1>16, <1>17, <1>18, <1>19, <1>20, <1>21, <1>22, <1>23, <1>24 DEF AuNext, Callback, Monitor, Program

LEMMA ChunksApartStep == AuInv /\ [AuNext]_auVars => ChunksApart'
  <1> SUFFICES ASSUME AuInv, [AuNext]_auVars PROVE ChunksApart'
    OBVIOUS
  <1> USE Recording DEF AuInv, AuTypeOK, Chunks, Nobody, Lock, Unlock, cbSame, progSame,
          progVars, cardVars, MutexesAreReturned, ChunksApart, OneRequest, FillsWhatItLocked,
          Swapping, Switched, Flagged, Writing, Holding, InOut, Runs
  <1>1. CASE FillAudio
    BY <1>1 DEF FillAudio
  <1>2. CASE LockPlayed
    BY <1>2 DEF LockPlayed
  <1>3. CASE LockFilled
    BY <1>3 DEF LockFilled
  <1>4. CASE ReleaseFilled
    BY <1>4 DEF ReleaseFilled
  <1>5. CASE SwapFill
    BY <1>5 DEF SwapFill
  <1>6. CASE SwapPlay
    BY <1>6 DEF SwapPlay
  <1>7. CASE FreeOldPlayed
    BY <1>7 DEF FreeOldPlayed
  <1>8. CASE Tell
    BY <1>8 DEF Tell
  <1>9. CASE Mix
    BY <1>9 DEF Mix
  <1>10. CASE UnlockPlayed
    BY <1>10 DEF UnlockPlayed
  <1>11. CASE Raise
    BY <1>11 DEF Raise
  <1>12. CASE ClearSwitch
    BY <1>12 DEF ClearSwitch
  <1>13. CASE audio_pause
    BY <1>13 DEF audio_pause
  <1>14. CASE audio_event
    BY <1>14 DEF audio_event
  <1>15. CASE Look
    BY <1>15 DEF Look
  <1>16. CASE Out
    BY <1>16 DEF Out
  <1>17. CASE LockChunk
    BY <1>17 DEF LockChunk
  <1>18. CASE Copy
    BY <1>18 DEF Copy
  <1>19. CASE Ready
    BY <1>19 DEF Ready
  <1>20. CASE Length
    BY <1>20 DEF Length
  <1>21. CASE UnlockChunk
    BY <1>21 DEF UnlockChunk
  <1>22. CASE ClearReload
    BY <1>22 DEF ClearReload
  <1>23. CASE timer_event
    BY <1>23 DEF timer_event
  <1>24. CASE UNCHANGED auVars
    BY <1>24 DEF auVars
  <1>25. QED
    BY <1>1, <1>2, <1>3, <1>4, <1>5, <1>6, <1>7, <1>8, <1>9, <1>10, <1>11, <1>12, <1>13, <1>14, <1>15, <1>16, <1>17, <1>18, <1>19, <1>20, <1>21, <1>22, <1>23, <1>24 DEF AuNext, Callback, Monitor, Program

LEMMA OneRequestStep == AuInv /\ [AuNext]_auVars => OneRequest'
  <1> SUFFICES ASSUME AuInv, [AuNext]_auVars PROVE OneRequest'
    OBVIOUS
  <1> USE Recording DEF AuInv, AuTypeOK, Chunks, Nobody, Lock, Unlock, cbSame, progSame,
          progVars, cardVars, MutexesAreReturned, ChunksApart, OneRequest, FillsWhatItLocked,
          Swapping, Switched, Flagged, Writing, Holding, InOut, Runs
  <1>1. CASE FillAudio
    BY <1>1 DEF FillAudio
  <1>2. CASE LockPlayed
    BY <1>2 DEF LockPlayed
  <1>3. CASE LockFilled
    BY <1>3 DEF LockFilled
  <1>4. CASE ReleaseFilled
    BY <1>4 DEF ReleaseFilled
  <1>5. CASE SwapFill
    BY <1>5 DEF SwapFill
  <1>6. CASE SwapPlay
    BY <1>6 DEF SwapPlay
  <1>7. CASE FreeOldPlayed
    BY <1>7 DEF FreeOldPlayed
  <1>8. CASE Tell
    BY <1>8 DEF Tell
  <1>9. CASE Mix
    BY <1>9 DEF Mix
  <1>10. CASE UnlockPlayed
    BY <1>10 DEF UnlockPlayed
  <1>11. CASE Raise
    BY <1>11 DEF Raise
  <1>12. CASE ClearSwitch
    BY <1>12 DEF ClearSwitch
  <1>13. CASE audio_pause
    BY <1>13 DEF audio_pause
  <1>14. CASE audio_event
    BY <1>14 DEF audio_event
  <1>15. CASE Look
    BY <1>15 DEF Look
  <1>16. CASE Out
    BY <1>16 DEF Out
  <1>17. CASE LockChunk
    BY <1>17 DEF LockChunk
  <1>18. CASE Copy
    BY <1>18 DEF Copy
  <1>19. CASE Ready
    BY <1>19 DEF Ready
  <1>20. CASE Length
    BY <1>20 DEF Length
  <1>21. CASE UnlockChunk
    BY <1>21 DEF UnlockChunk
  <1>22. CASE ClearReload
    BY <1>22 DEF ClearReload
  <1>23. CASE timer_event
    BY <1>23 DEF timer_event
  <1>24. CASE UNCHANGED auVars
    BY <1>24 DEF auVars
  <1>25. QED
    BY <1>1, <1>2, <1>3, <1>4, <1>5, <1>6, <1>7, <1>8, <1>9, <1>10, <1>11, <1>12, <1>13, <1>14, <1>15, <1>16, <1>17, <1>18, <1>19, <1>20, <1>21, <1>22, <1>23, <1>24 DEF AuNext, Callback, Monitor, Program

LEMMA FillsWhatItLockedStep == AuInv /\ [AuNext]_auVars => FillsWhatItLocked'
  <1> SUFFICES ASSUME AuInv, [AuNext]_auVars PROVE FillsWhatItLocked'
    OBVIOUS
  <1> USE Recording DEF AuInv, AuTypeOK, Chunks, Nobody, Lock, Unlock, cbSame, progSame,
          progVars, cardVars, MutexesAreReturned, ChunksApart, OneRequest, FillsWhatItLocked,
          Swapping, Switched, Flagged, Writing, Holding, InOut, Runs
  <1>1. CASE FillAudio
    BY <1>1 DEF FillAudio
  <1>2. CASE LockPlayed
    BY <1>2 DEF LockPlayed
  <1>3. CASE LockFilled
    BY <1>3 DEF LockFilled
  <1>4. CASE ReleaseFilled
    BY <1>4 DEF ReleaseFilled
  <1>5. CASE SwapFill
    BY <1>5 DEF SwapFill
  <1>6. CASE SwapPlay
    BY <1>6 DEF SwapPlay
  <1>7. CASE FreeOldPlayed
    BY <1>7 DEF FreeOldPlayed
  <1>8. CASE Tell
    BY <1>8 DEF Tell
  <1>9. CASE Mix
    BY <1>9 DEF Mix
  <1>10. CASE UnlockPlayed
    BY <1>10 DEF UnlockPlayed
  <1>11. CASE Raise
    BY <1>11 DEF Raise
  <1>12. CASE ClearSwitch
    BY <1>12 DEF ClearSwitch
  <1>13. CASE audio_pause
    BY <1>13 DEF audio_pause
  <1>14. CASE audio_event
    BY <1>14 DEF audio_event
  <1>15. CASE Look
    BY <1>15 DEF Look
  <1>16. CASE Out
    BY <1>16 DEF Out
  <1>17. CASE LockChunk
    BY <1>17 DEF LockChunk
  <1>18. CASE Copy
    BY <1>18 DEF Copy
  <1>19. CASE Ready
    BY <1>19 DEF Ready
  <1>20. CASE Length
    BY <1>20 DEF Length
  <1>21. CASE UnlockChunk
    BY <1>21 DEF UnlockChunk
  <1>22. CASE ClearReload
    BY <1>22 DEF ClearReload
  <1>23. CASE timer_event
    BY <1>23 DEF timer_event
  <1>24. CASE UNCHANGED auVars
    BY <1>24 DEF auVars
  <1>25. QED
    BY <1>1, <1>2, <1>3, <1>4, <1>5, <1>6, <1>7, <1>8, <1>9, <1>10, <1>11, <1>12, <1>13, <1>14, <1>15, <1>16, <1>17, <1>18, <1>19, <1>20, <1>21, <1>22, <1>23, <1>24 DEF AuNext, Callback, Monitor, Program

LEMMA AskedStep == AuInv /\ [AuNext]_auVars => (prog' = "asked" => asked' = fill')
  <1> SUFFICES ASSUME AuInv, [AuNext]_auVars PROVE prog' = "asked" => asked' = fill'
    OBVIOUS
  <1> USE Recording DEF AuInv, AuTypeOK, Chunks, Nobody, Lock, Unlock, cbSame, progSame,
          progVars, cardVars, MutexesAreReturned, ChunksApart, OneRequest, FillsWhatItLocked,
          Swapping, Switched, Flagged, Writing, Holding, InOut, Runs
  <1>1. CASE FillAudio
    BY <1>1 DEF FillAudio
  <1>2. CASE LockPlayed
    BY <1>2 DEF LockPlayed
  <1>3. CASE LockFilled
    BY <1>3 DEF LockFilled
  <1>4. CASE ReleaseFilled
    BY <1>4 DEF ReleaseFilled
  <1>5. CASE SwapFill
    BY <1>5 DEF SwapFill
  <1>6. CASE SwapPlay
    BY <1>6 DEF SwapPlay
  <1>7. CASE FreeOldPlayed
    BY <1>7 DEF FreeOldPlayed
  <1>8. CASE Tell
    BY <1>8 DEF Tell
  <1>9. CASE Mix
    BY <1>9 DEF Mix
  <1>10. CASE UnlockPlayed
    BY <1>10 DEF UnlockPlayed
  <1>11. CASE Raise
    BY <1>11 DEF Raise
  <1>12. CASE ClearSwitch
    BY <1>12 DEF ClearSwitch
  <1>13. CASE audio_pause
    BY <1>13 DEF audio_pause
  <1>14. CASE audio_event
    BY <1>14 DEF audio_event
  <1>15. CASE Look
    BY <1>15 DEF Look
  <1>16. CASE Out
    BY <1>16 DEF Out
  <1>17. CASE LockChunk
    BY <1>17 DEF LockChunk
  <1>18. CASE Copy
    BY <1>18 DEF Copy
  <1>19. CASE Ready
    BY <1>19 DEF Ready
  <1>20. CASE Length
    BY <1>20 DEF Length
  <1>21. CASE UnlockChunk
    BY <1>21 DEF UnlockChunk
  <1>22. CASE ClearReload
    BY <1>22 DEF ClearReload
  <1>23. CASE timer_event
    BY <1>23 DEF timer_event
  <1>24. CASE UNCHANGED auVars
    BY <1>24 DEF auVars
  <1>25. QED
    BY <1>1, <1>2, <1>3, <1>4, <1>5, <1>6, <1>7, <1>8, <1>9, <1>10, <1>11, <1>12, <1>13, <1>14, <1>15, <1>16, <1>17, <1>18, <1>19, <1>20, <1>21, <1>22, <1>23, <1>24 DEF AuNext, Callback, Monitor, Program

LEMMA InOrderStep == AuInv /\ [AuNext]_auVars => InOrder'
  <1> SUFFICES ASSUME AuInv, [AuNext]_auVars PROVE InOrder'
    OBVIOUS
  <1> USE Recording DEF AuInv, AuTypeOK, Chunks, Nobody, Lock, Unlock, cbSame, progSame,
          progVars, cardVars, MutexesAreReturned, ChunksApart, OneRequest, FillsWhatItLocked,
          Swapping, Switched, Flagged, Writing, Holding, InOut, Runs,
          InOrder, Playing, Following, Carrying, NextLen
  <1>1. CASE FillAudio
    BY <1>1 DEF FillAudio
  <1>2. CASE LockPlayed
    BY <1>2 DEF LockPlayed
  <1>3. CASE LockFilled
    BY <1>3 DEF LockFilled
  <1>4. CASE ReleaseFilled
    BY <1>4 DEF ReleaseFilled
  <1>5. CASE SwapFill
    <2>1. /\ play # fill /\ Playing = play /\ Following = fill
          /\ Playing' = fill /\ Following' = play
      BY <1>5 DEF SwapFill
    <2>2. audio_len[play] = 0 /\ audio_chunk_ready[fill] /\ ~audio_chunk_ready[play]
      BY <1>5, <2>1 DEF SwapFill
    <2>3. ~Writing /\ ~Holding
      BY <1>5 DEF SwapFill
    <2>4. QED
      BY <1>5, <2>1, <2>2, <2>3 DEF SwapFill
  <1>6. CASE SwapPlay
    BY <1>6 DEF SwapPlay
  <1>7. CASE FreeOldPlayed
    BY <1>7 DEF FreeOldPlayed
  <1>8. CASE Tell
    BY <1>8 DEF Tell
  <1>9. CASE Mix
    BY <1>9 DEF Mix
  <1>10. CASE UnlockPlayed
    BY <1>10 DEF UnlockPlayed
  <1>11. CASE Raise
    BY <1>11 DEF Raise
  <1>12. CASE ClearSwitch
    BY <1>12 DEF ClearSwitch
  <1>13. CASE audio_pause
    BY <1>13 DEF audio_pause
  <1>14. CASE audio_event
    BY <1>14 DEF audio_event
  <1>15. CASE Look
    BY <1>15 DEF Look
  <1>16. CASE Out
    BY <1>16 DEF Out
  <1>17. CASE LockChunk
    BY <1>17 DEF LockChunk
  <1>18. CASE Copy
    BY <1>18 DEF Copy
  <1>19. CASE Ready
    BY <1>19 DEF Ready
  <1>20. CASE Length
    BY <1>20 DEF Length
  <1>21. CASE UnlockChunk
    BY <1>21 DEF UnlockChunk
  <1>22. CASE ClearReload
    BY <1>22 DEF ClearReload
  <1>23. CASE timer_event
    BY <1>23 DEF timer_event
  <1>24. CASE UNCHANGED auVars
    BY <1>24 DEF auVars
  <1>25. QED
    BY <1>1, <1>2, <1>3, <1>4, <1>5, <1>6, <1>7, <1>8, <1>9, <1>10, <1>11, <1>12, <1>13, <1>14, <1>15, <1>16, <1>17, <1>18, <1>19, <1>20, <1>21, <1>22, <1>23, <1>24 DEF AuNext, Callback, Monitor, Program

LEMMA AudioSteps == AuInv /\ [AuNext]_auVars => AuInv'
  <1> SUFFICES ASSUME AuInv, [AuNext]_auVars PROVE AuInv'
    OBVIOUS
  <1>1. AuTypeOK'
    <2>1. CASE AuNext
      BY <2>1, CallbackTypes, OtherTypes DEF AuNext
    <2>2. CASE UNCHANGED auVars
      BY <2>2 DEF AuInv, AuTypeOK, auVars, cardVars, progVars
    <2>3. QED
      BY <2>1, <2>2
  <1>2. /\ MutexesAreReturned' /\ ChunksApart' /\ OneRequest' /\ FillsWhatItLocked'
        /\ InOrder'
    BY MutexesAreReturnedStep, ChunksApartStep, OneRequestStep, FillsWhatItLockedStep,
       InOrderStep
  <1>3. prog' = "asked" => asked' = fill'
    BY AskedStep
  <1>4. QED
    BY <1>1, <1>2, <1>3 DEF AuInv

\* The inductive invariant holds in every reachable state, for chunks and files
\* of any size.
THEOREM AudioInvariance == AuSpec => []AuInv
  <1>1. AuInit => AuInv
    BY AudioStarts
  <1>2. AuInv /\ [AuNext]_auVars => AuInv'
    BY AudioSteps
  <1>3. QED
    BY <1>1, <1>2, PTL DEF AuSpec

\* audio_io_handler fills the chunk whose mutex it holds, although the callback
\* may change the index between the two times it is read (audio.c:182-193).
THEOREM FillsLockedChunk == AuSpec => []FillsWhatItLocked
  <1>1. AuInv => FillsWhatItLocked
    BY DEF AuInv
  <1>2. QED
    BY <1>1, AudioInvariance, PTL

\* No audio interrupt is in the controller while the player reads its file, so
\* that the disk's interrupts displace none.
THEOREM ReadingIsUndisturbed == AuSpec => []ReadsUndisturbed
  <1>1. AuInv => ReadsUndisturbed
    BY DEF AuInv, OneRequest, Writing, ReadsUndisturbed
  <1>2. QED
    BY <1>1, AudioInvariance, PTL

\* What comes out next is the piece that follows.
LEMMA HeardNext ==
    AuInv /\ [AuNext]_auVars =>
            [heard' = heard
              \/ (heard[2] < PIECES /\ heard' = <<heard[1], heard[2] + 1>>)
              \/ (heard[2] = PIECES /\ heard' = <<heard[1] + 1, 1>>)]_auVars
  <1> SUFFICES ASSUME AuInv, [AuNext]_auVars, heard' # heard
               PROVE  \/ heard[2] < PIECES /\ heard' = <<heard[1], heard[2] + 1>>
                      \/ heard[2] = PIECES /\ heard' = <<heard[1] + 1, 1>>
    OBVIOUS
  <1>1. Mix
    BY DEF AuNext, Callback, Monitor, Program, auVars, cardVars, cbSame, progSame, FillAudio,
           LockPlayed, LockFilled, ReleaseFilled, SwapFill, SwapPlay, FreeOldPlayed, Tell,
           UnlockPlayed, Raise, ClearSwitch, audio_pause, audio_event, Look, Out, LockChunk,
           Copy, Ready, Length, UnlockChunk, ClearReload, timer_event
  <1>2. /\ cb = "mix" /\ audio_len[play] # 0
        /\ heard' = <<chunk[play], PIECES - audio_len[play] + 1>>
    BY <1>1 DEF Mix
  <1>3. /\ chunk[play] \in 0..FileChunks /\ audio_len[play] \in 1..PIECES
        /\ Playing = play
    BY <1>2, Recording DEF AuInv, AuTypeOK, Playing
  <1>4. heard = IF audio_len[play] = PIECES THEN <<chunk[play] - 1, PIECES>>
                ELSE <<chunk[play], PIECES - audio_len[play]>>
    BY <1>2, <1>3 DEF AuInv, InOrder
  <1>5. QED
    BY <1>2, <1>3, <1>4, Recording

\* What is heard is the file, piece after piece, whatever the threads'
\* interleaving (audio.c:203-257, credits.c:22-53).
THEOREM HeardAsWritten == AuSpec => HeardInOrder
  <1>1. QED
    BY HeardNext, AudioInvariance, PTL DEF AuSpec, HeardInOrder

-----------------------------------------------------------------------------
\* The keys of nemu-pal.

ArrowsAreKeys == Arrows \subseteq Keys /\ kDirUnknown \notin Keys

LEMMA ArrowFacts == ArrowsAreKeys
  BY KeyTable DEF ArrowsAreKeys, Arrows, Keys, kDirUnknown

\* What a poll does to the keys on the keyboard: one without an event stays as
\* it is, the last one is as its event says.
HeldUnlessPolled(n, events) ==
    /\ HeldAfter(events, n) \subseteq Keys
    /\ \A k \in Keys : (\A j \in 1..n : events[j][2] # k) =>
           (k \in HeldAfter(events, n) <=> k \in held)
    /\ events[n][1] = "down" <=> events[n][2] \in HeldAfter(events, n)

LEMMA PollFacts ==
  ASSUME NEW n \in Nat \ {0}, NEW events \in [1..n -> Codes]
  PROVE  HeldUnlessPolled(n, events)
  <1>1. HeldAfter(events, n) \subseteq Keys
    BY DEF HeldAfter
  <1>2. ASSUME NEW k \in Keys, \A j \in 1..n : events[j][2] # k
        PROVE  k \in HeldAfter(events, n) <=> k \in held
    <2>1. {i \in 1..n : events[i][2] = k} = {}
      BY <1>2
    <2> QED
      BY <2>1 DEF HeldAfter
  <1>3. events[n] \in Codes /\ n \in 1..n
    BY DEF Codes
  <1>4. events[n][2] \in Keys
    BY <1>3 DEF Codes
  <1> DEFINE E == {i \in 1..n : events[i][2] = events[n][2]}
  <1>5. n \in E /\ E # {} /\ \A i \in E : i <= n
    BY <1>3
  <1>6. events[n][2] \in HeldAfter(events, n)
            <=> \E i \in E : events[i][1] = "down" /\ \A l \in E : l <= i
    BY <1>4, <1>5 DEF HeldAfter
  <1>7. \A i \in E : (\A l \in E : l <= i) => i = n
    BY <1>5
  <1>8. (\E i \in E : events[i][1] = "down" /\ \A l \in E : l <= i) <=> events[n][1] = "down"
    BY <1>5, <1>7
  <1> QED
    BY <1>1, <1>2, <1>6, <1>8 DEF HeldUnlessPolled

-----------------------------------------------------------------------------
LEMMA KeysStart == PalInit => PalInv
  <1> SUFFICES ASSUME PalInit PROVE PalInv
    OBVIOUS
  <1>0. 0 \in Keys /\ 0 \in 0..MaxKeyEvents
    BY KeyTable DEF Keys
  <1>1. PalTypeOK
    BY <1>0 DEF PalInit, PalTypeOK, Codes
  <1>2. KnowsItsKeys
    BY DEF PalInit, KnowsItsKeys, WillBeTold
  <1>3. BufferIsLast
    BY DEF PalInit, BufferIsLast, Unread
  <1>4. WalksWhereTold
    BY DEF PalInit, WalksWhereTold
  <1> QED
    BY <1>1, <1>2, <1>3, <1>4 DEF PalInv

LEMMA KeyEventsKeep == PalInv /\ KeyEvents => PalInv'
  <1> SUFFICES ASSUME PalInv, KeyEvents PROVE PalInv'
    OBVIOUS
  <1>1. PICK n \in 1..MaxPoll : \E events \in [1..n -> Codes], disk \in BOOLEAN :
            PollKeys(n, events, disk)
    BY DEF KeyEvents
  <1>2. PICK events \in [1..n -> Codes], disk \in BOOLEAN : PollKeys(n, events, disk)
    BY <1>1
  <1>3. n \in Nat \ {0} /\ n \in 1..n
    BY KeyTable
  <1>4. HeldUnlessPolled(n, events)
    BY <1>3, PollFacts
  <1>5. \A j \in 1..n : events[j] \in Codes /\ events[j][2] \in Keys
    BY DEF Codes
  <1>6. PalTypeOK'
    <2>1. PalTypeOK /\ nr_events' \in 0..MaxKeyEvents
      BY <1>2, <1>3, KeyTable DEF PalInv, PalTypeOK, PollKeys
    <2>2. code_buf[2] \in Keys
      BY <2>1 DEF PalTypeOK, Codes
    <2>3. missed' \subseteq Keys
      BY <1>2, <1>3, <1>5, <2>1, <2>2 DEF PalTypeOK, PollKeys
    <2>4. code_buf' \in Codes /\ held' \subseteq Keys /\ raised' \in BOOLEAN
      BY <1>2, <1>3, <1>4, <1>5, <2>1 DEF PalTypeOK, PollKeys, HeldUnlessPolled
    <2> QED
      BY <1>2, <2>1, <2>3, <2>4 DEF PalTypeOK, PollKeys
  <1>7. KnowsItsKeys'
    <2> SUFFICES ASSUME NEW k \in Keys, k \notin missed', ~(Unread' /\ code_buf'[2] = k)
                 PROVE  WillBeTold(k)' <=> k \in held'
      BY DEF KnowsItsKeys
    <2>1. events[n][2] # k
      BY <1>2 DEF PollKeys, Unread
    <2>2. \A j \in 1..(n - 1) : events[j][2] # k
      BY <1>2 DEF PollKeys
    <2>3. \A j \in 1..n : events[j][2] # k
      BY <1>3, <2>1, <2>2
    <2>4. k \in held' <=> k \in held
      BY <1>2, <1>4, <2>3 DEF PollKeys, HeldUnlessPolled
    <2>5. k \notin missed /\ ~(Unread /\ code_buf[2] = k)
      BY <1>2 DEF PollKeys
    <2>6. WillBeTold(k)' <=> WillBeTold(k)
      BY <1>2 DEF PollKeys, WillBeTold
    <2> QED
      BY <2>4, <2>5, <2>6 DEF PalInv, KnowsItsKeys
  <1>8. BufferIsLast'
    BY <1>2, <1>4 DEF PollKeys, BufferIsLast, HeldUnlessPolled
  <1>9. WalksWhereTold'
    BY <1>2 DEF PollKeys, PalInv, WalksWhereTold
  <1> QED
    BY <1>6, <1>7, <1>8, <1>9 DEF PalInv

LEMMA EnterKeeps == PalInv /\ EnterKeyEvent => PalInv'
  <1> SUFFICES ASSUME PalInv, EnterKeyEvent PROVE PalInv'
    OBVIOUS
  <1>1. Unread' /\ Unread
    BY DEF EnterKeyEvent, Unread
  <1>2. PalTypeOK' /\ WalksWhereTold'
    BY DEF PalInv, PalTypeOK, WalksWhereTold, EnterKeyEvent
  <1>3. KnowsItsKeys'
    BY <1>1 DEF PalInv, KnowsItsKeys, WillBeTold, EnterKeyEvent
  <1>4. BufferIsLast'
    BY <1>1 DEF PalInv, BufferIsLast, EnterKeyEvent
  <1> QED
    BY <1>2, <1>3, <1>4 DEF PalInv

LEMMA ReadKeeps == PalInv /\ ReadKeyEvent => PalInv'
  <1> SUFFICES ASSUME PalInv, ReadKeyEvent PROVE PalInv'
    OBVIOUS
  <1> DEFINE k == code_buf[2]
             pressed == code_buf[1] = "down"
  <1>1. PalTypeOK /\ k \in Keys /\ code_buf[1] \in {"down", "up"}
    BY DEF PalInv, PalTypeOK, Codes
  <1>2. Unread /\ (pressed <=> k \in held)
    BY DEF ReadKeyEvent, Unread, PalInv, BufferIsLast
  <1>3. key_state' = [key_state EXCEPT ![k] = StateAfter(key_state[k], pressed)]
    BY DEF ReadKeyEvent
  <1>4. StateAfter(key_state[k], pressed) \in {"EMPTY", "PRESS", "RELEASE"}
    BY <1>1 DEF StateAfter, PalTypeOK
  <1>5. PalTypeOK'
    BY <1>1, <1>3, <1>4 DEF PalTypeOK, ReadKeyEvent
  <1>6. KnowsItsKeys'
    <2> SUFFICES ASSUME NEW j \in Keys, j \notin missed', ~(Unread' /\ code_buf'[2] = j)
                 PROVE  WillBeTold(j)' <=> j \in held'
      BY DEF KnowsItsKeys
    <2>1. CASE j # k
      <3>1. key_state'[j] = key_state[j] /\ told' = told /\ held' = held
        BY <1>1, <1>3, <2>1 DEF PalTypeOK, ReadKeyEvent
      <3>2. j \notin missed
        BY <2>1 DEF ReadKeyEvent
      <3> QED
        BY <2>1, <3>1, <3>2 DEF PalInv, KnowsItsKeys, WillBeTold
    <2>2. CASE j = k
      <3>1. key_state'[k] = StateAfter(key_state[k], pressed)
        BY <1>1, <1>3 DEF PalTypeOK
      <3>2. ~(pressed /\ key_state[k] = "RELEASE") /\ held' = held
        BY <2>2 DEF ReadKeyEvent
      <3>3. key_state'[k] # "EMPTY" /\ (key_state'[k] = "PRESS" <=> pressed)
        BY <1>1, <3>1, <3>2 DEF StateAfter, PalTypeOK
      <3> QED
        BY <1>2, <2>2, <3>2, <3>3 DEF WillBeTold
    <2> QED
      BY <2>1, <2>2
  <1>7. BufferIsLast'
    BY <1>2 DEF PalInv, BufferIsLast, ReadKeyEvent
  <1>8. WalksWhereTold'
    BY DEF PalInv, WalksWhereTold, ReadKeyEvent
  <1> QED
    BY <1>5, <1>6, <1>7, <1>8 DEF PalInv

LEMMA ProcessKeeps == PalInv /\ process_keys => PalInv'
  <1> SUFFICES ASSUME PalInv, process_keys PROVE PalInv'
    OBVIOUS
  <1> USE DEF PalInv
  <1>1. BufferIsLast'
    BY DEF BufferIsLast, Unread, process_keys
  <1>2. CASE Waiting = {}
    <2>1. at' = "frame" /\ UNCHANGED <<key_state, dir, prevdir, dwKeyPress, told, retold>>
      BY <1>2 DEF process_keys
    <2>2. PalTypeOK' /\ WalksWhereTold'
      BY <2>1 DEF process_keys, PalTypeOK, WalksWhereTold
    <2>3. KnowsItsKeys'
      BY <2>1 DEF process_keys, KnowsItsKeys, WillBeTold, Unread
    <2> QED
      BY <1>1, <2>2, <2>3
  <1>3. CASE Waiting # {}
    <2>1. PICK k \in Waiting :
              /\ key_state' = Processed(k)
              /\ IF key_state[k] = "PRESS"
                 THEN /\ PAL_KeyPressHandler(k)
                      /\ told' = told \cup {k} /\ retold' = (retold \/ k \in told)
                 ELSE PAL_KeyReleaseHandler(k) /\ told' = told \ {k} /\ UNCHANGED retold
              /\ UNCHANGED at
      BY <1>3 DEF process_keys
    <2>2. k \in Keys /\ k # kDirUnknown /\ key_state[k] \in {"PRESS", "RELEASE"}
      BY ArrowFacts DEF ArrowsAreKeys, Waiting
    <2>3. UNCHANGED <<held, code_buf, raised, reading, fInBattle, missed, nr_events>>
      BY DEF process_keys
    <2>4. key_state' = [key_state EXCEPT ![k] = "EMPTY"]
      BY <2>1 DEF Processed
    <2>5. KnowsItsKeys'
      <3> SUFFICES ASSUME NEW j \in Keys, j \notin missed', ~(Unread' /\ code_buf'[2] = j)
                   PROVE  WillBeTold(j)' <=> j \in held'
        BY DEF KnowsItsKeys
      <3>1. WillBeTold(j) <=> j \in held'
        BY <2>3 DEF KnowsItsKeys, Unread
      <3>2. CASE j # k
        BY <2>1, <2>4, <3>1, <3>2 DEF PalTypeOK, WillBeTold
      <3>3. CASE j = k
        BY <2>1, <2>2, <2>4, <3>1, <3>3 DEF PalTypeOK, WillBeTold
      <3> QED
        BY <3>2, <3>3
    <2>6. CASE key_state[k] = "PRESS"
      <3>1. PAL_KeyPressHandler(k) /\ told' = told \cup {k} /\ retold' = (retold \/ k \in told)
        BY <2>1, <2>6
      <3>2. PalTypeOK'
        BY <2>1, <2>2, <2>3, <2>4, <3>1 DEF PalTypeOK, PAL_KeyPressHandler
      <3>3. WalksWhereTold'
        BY <2>2, <3>1 DEF PalTypeOK, PAL_KeyPressHandler, WalksWhereTold
      <3> QED
        BY <1>1, <2>5, <3>2, <3>3
    <2>7. CASE key_state[k] # "PRESS"
      <3>1. PAL_KeyReleaseHandler(k) /\ told' = told \ {k} /\ retold' = retold
        BY <2>1, <2>7
      <3>2. PalTypeOK'
        BY <2>1, <2>2, <2>3, <2>4, <3>1 DEF PalTypeOK, PAL_KeyReleaseHandler
      <3>3. WalksWhereTold'
        BY <2>2, <3>1, ArrowFacts
           DEF PalTypeOK, PAL_KeyReleaseHandler, WalksWhereTold, ArrowsAreKeys
      <3> QED
        BY <1>1, <2>5, <3>2, <3>3
    <2> QED
      BY <2>6, <2>7
  <1> QED
    BY <1>2, <1>3

LEMMA FrameKeeps == PalInv /\ PAL_StartFrame => PalInv'
  <1> SUFFICES ASSUME PalInv, PAL_StartFrame PROVE PalInv'
    OBVIOUS
  <1>1. PalTypeOK' /\ WalksWhereTold'
    BY DEF PalInv, PalTypeOK, WalksWhereTold, PAL_StartFrame
  <1>2. KnowsItsKeys' /\ BufferIsLast'
    BY DEF PalInv, KnowsItsKeys, WillBeTold, BufferIsLast, Unread, PAL_StartFrame
  <1> QED
    BY <1>1, <1>2 DEF PalInv

LEMMA StutterKeeps == PalInv /\ UNCHANGED palVars => PalInv'
  <1> SUFFICES ASSUME PalInv, UNCHANGED palVars PROVE PalInv'
    OBVIOUS
  <1>1. PalTypeOK' /\ WalksWhereTold'
    BY DEF PalInv, PalTypeOK, WalksWhereTold, palVars
  <1>2. KnowsItsKeys' /\ BufferIsLast'
    BY DEF PalInv, KnowsItsKeys, WillBeTold, BufferIsLast, Unread, palVars
  <1> QED
    BY <1>1, <1>2 DEF PalInv

LEMMA KeysSteps == PalInv /\ [PalNext]_palVars => PalInv'
  <1> QED
    BY KeyEventsKeep, EnterKeeps, ReadKeeps, ProcessKeeps, FrameKeeps, StutterKeeps
       DEF PalNext, KeyHandler, PalLoop

\* The game knows which of its keys are down and walks only where an arrow was
\* pressed, in every state and for any keyboard.
THEOREM PalInvariance == PalSpec => []PalInv
  <1> QED
    BY KeysStart, KeysSteps, PTL DEF PalSpec

-----------------------------------------------------------------------------
\* The programs on the machine they share: each has its own part of it, and
\* its invariant, with the steps of the others around its own.

LEMMA ProgramSteps ==
    ASSUME [Next]_allVars
    PROVE  [AuNext]_auVars /\ [PalNext]_palVars /\ [FsNext]_fsVars
  <1>1. CASE CreditsStep(AuNext)
    BY <1>1 DEF CreditsStep
  <1>2. CASE PalStep(PalNext)
    BY <1>2 DEF PalStep
  <1>3. CASE FilesStep(FsNext)
    BY <1>3 DEF FilesStep
  <1>4. CASE UNCHANGED allVars
    BY <1>4 DEF allVars
  <1>5. QED
    BY <1>1, <1>2, <1>3, <1>4 DEF Next

\* Whichever program NEMU has loaded, its invariant holds, and those of the
\* programs that are not loaded.
THEOREM ProgramsInvariance == Spec => []AuInv /\ []PalInv /\ []FsInv
  <1>1. Init => AuInv /\ PalInv /\ FsInv
    BY AudioStarts, KeysStart, InitInv DEF Init
  <1>2. AuInv /\ [AuNext]_auVars => AuInv'
    BY AudioSteps
  <1>3. PalInv /\ [PalNext]_palVars => PalInv'
    BY KeysSteps
  <1>4. FsInv /\ [FsNext]_fsVars => FsInv'
    BY StepInv
  <1>5. [Next]_allVars => [AuNext]_auVars /\ [PalNext]_palVars /\ [FsNext]_fsVars
    BY ProgramSteps
  <1>6. QED
    BY <1>1, <1>2, <1>3, <1>4, <1>5, PTL DEF Spec

\* What is heard is the file and the kernel's files implement FileStreams on the
\* machine the programs share.
THEOREM ProgramsKeepTheirPromises == Spec => HeardInOrder /\ ImplementsStreams
  <1>1. Init => FsInit
    BY DEF Init
  <1>2. [Next]_allVars => [AuNext]_auVars /\ [FsNext]_fsVars
    BY ProgramSteps
  <1>3. AuInv /\ [AuNext]_auVars =>
            [heard' = heard
              \/ (heard[2] < PIECES /\ heard' = <<heard[1], heard[2] + 1>>)
              \/ (heard[2] = PIECES /\ heard' = <<heard[1] + 1, 1>>)]_auVars
    BY HeardNext
  <1>4. FsSpec => ImplementsStreams
    BY FilesImplementStreams
  <1>5. QED
    BY <1>1, <1>2, <1>3, <1>4, ProgramsInvariance, PTL DEF Spec, FsSpec, HeardInOrder
=============================================================================
