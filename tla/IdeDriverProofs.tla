--------------------------- MODULE IdeDriverProofs ---------------------------
(***************************************************************************)
(* Proofs about IdeDriver, for any number of sectors, words and slots and  *)
(* any writeback period.  As the kernel is built nothing calls ide_write;  *)
(* the first part is about that system, HasWriter = FALSE.  The inductive  *)
(* invariant ReadInv says that the write path is dead, that a slot mirrors *)
(* its sector unless it is being filled, and how far a fill has come.  The *)
(* second part, from WriterInv on (IdeWriters), assumes nothing of who     *)
(* writes.                                                                 *)
(***************************************************************************)
EXTENDS IdeWriters, TLAPS

\* cache_fetch's slot number is one of the array.
LEMMA HomeSlot == \A s \in Sectors : Home(s) \in Slots
  BY Sizes DEF Home, Sectors, Slots

\* While a request is served its sector and word are in range, and so is its
\* slot.
LEMMA Serving ==
  ASSUME HasWriter = FALSE, ReadInv, at["main"] # "idle"
  PROVE  /\ req \in [op : {"read"}, sector : Sectors, word : Words]
         /\ Slot("main") \in Slots
         /\ Slot("main") = Home(req.sector)
  BY HomeSlot DEF ReadInv, TypeOK, FillInStep, Request, Slot

\* The steps left when nothing writes.
ReadSteps ==
    \/ Ask \/ Fetch \/ Tag \/ Clean \/ UseRead
    \/ DiskRead
    \/ TimerTick \/ TakeInterrupt \/ IdeIntr \/ IdeWriteback \/ Scan \/ EndOfScan

\* The write path is dead: its steps start at positions never reached.
LEMMA OnlyReadSteps ==
  ASSUME HasWriter = FALSE, ReadInv, Next
  PROVE  ReadSteps
<1>1. ~UseWrite
  BY Serving DEF UseWrite, Step
<1>2. ~MarkDirty
  BY DEF MarkDirty, Step, ReadInv, NothingWrites, ReadPositions
<1>3. ~DiskWrite("main", "rClear") /\ ~DiskWrite("isr", "wClean")
  BY DEF DiskWrite, WaitDisk, SelectSector, IssueWrite, WriteWord, NextWord, Step,
         ReadInv, NothingWrites, ReadPositions
<1>4. ~WrittenBack /\ ~Aborted
  BY DEF WrittenBack, Aborted, Step, ReadInv, NothingWrites
<1>5. QED
  BY <1>1, <1>2, <1>3, <1>4 DEF Next, Main, Handler, ReadSteps

\* At the start every slot is free and the device is ready.
LEMMA ReadInit ==
  ASSUME HasWriter = FALSE, Init
  PROVE  ReadInv
<1>1. 0 \in Sectors /\ 0 \in Words /\ 0 \in 0..NR_SEC_CACHE /\ 0 \in 0..WRITEBACK
      /\ 0 \in 0..(WORDS + 1)
  BY Sizes DEF Sectors, Words
<1>2. \A s \in Sectors, w \in Words : Image(s, w) \in Data
  BY DEF Image, Data
<1>3. TypeOK
  <2>1. cache \in [Slots -> SectorCache]
    BY <1>1, <1>2 DEF Init, SectorCache
  <2>2. received \in [Sectors -> [Words -> Data]] /\ reply \in Data
    BY <1>1, <1>2 DEF Init
  <2>3. at \in [Actors -> MainPositions \cup IsrPositions] /\ i \in [Actors -> Words]
    BY <1>1 DEF Init, Actors, MainPositions, IsrPositions
  <2>4. QED
    BY <1>1, <2>1, <2>2, <2>3 DEF Init, Latch!Init, TypeOK, Actors, MainPositions, IsrPositions
<1>4. NothingWrites /\ WritebackCounts /\ SlotsMirrorDisk /\ FillInStep /\ AnswerComes
  BY Sizes DEF Init, NothingWrites, WritebackCounts, SlotsMirrorDisk, FillInStep, AnswerComes,
     ReadPositions, Actors
<1>5. QED
  BY <1>3, <1>4 DEF ReadInv

\* A word is read without an assertion failing, and it is the right word.
LEMMA ReadWordEffect ==
  ASSUME HasWriter = FALSE, ReadInv, ReadWord
  PROVE  /\ at["main"] = "rData" /\ i["main"] \in Words
         /\ byte_cnt = i["main"] /\ sector = req.sector
         /\ aborted' = aborted /\ byte_cnt' = byte_cnt + 1 /\ status' = "ready"
         /\ select' = Garbled
         /\ cache' = [cache EXCEPT ![Slot("main")].content[i["main"]]
                                    = Image(req.sector, i["main"])]
<1>1. at["main"] = "rData" /\ i["main"] \in Words /\ byte_cnt = i["main"] /\ sector = req.sector
  BY DEF ReadWord, NextWord, Step, ReadInv, TypeOK, FillInStep, Actors
<1>2. ide_write = FALSE /\ aborted = FALSE /\ status = "ready"
  BY DEF ReadInv, TypeOK, NothingWrites
<1>3. ~(byte_cnt > WORDS)
  BY <1>1, Sizes DEF Words
<1>4. /\ byte_cnt' = byte_cnt + 1 /\ select' = Garbled /\ aborted' = aborted
      /\ status' = IF byte_cnt' = WORDS THEN "ready" ELSE status
  BY <1>2, <1>3 DEF ReadWord, MoveWord
<1>5. cache' = [cache EXCEPT ![Slot("main")].content[i["main"]] = Image(req.sector, i["main"])]
  BY <1>1, <1>2, <1>4 DEF ReadWord
<1>6. QED
  BY <1>1, <1>2, <1>4, <1>5

-----------------------------------------------------------------------------
\* Every step keeps the types.
LEMMA TypeStep ==
  ASSUME HasWriter = FALSE, ReadInv, ReadSteps
  PROVE  TypeOK'
<1> USE DEF ReadInv, TypeOK, kernel, program, device, latch, Step, Actors, MainPositions,
        IsrPositions, ReadPositions, WritePositions
<1>1. CASE Ask
  BY <1>1 DEF Ask
<1>2. CASE Fetch
  BY <1>2 DEF Fetch
<1>3. CASE Tag \/ Clean
  <2>1. Slot("main") \in Slots /\ req.sector \in Sectors
    BY <1>3, Serving DEF Tag, Clean
  <2>2. cache[Slot("main")] \in SectorCache
    BY <2>1
  <2>3. /\ [cache[Slot("main")] EXCEPT !.used = TRUE, !.sector = req.sector] \in SectorCache
        /\ [cache[Slot("main")] EXCEPT !.dirty = FALSE] \in SectorCache
    BY <2>1, <2>2, Zenon DEF SectorCache
  <2>4. cache' \in [Slots -> SectorCache]
    BY <1>3, <2>1, <2>3 DEF Tag, Clean
  <2>5. QED
    BY <1>3, <2>4 DEF Tag, Clean
<1>5. CASE UseRead
  <2>1. cache[Slot("main")] \in SectorCache /\ req.word \in Words
    BY <1>5, Serving DEF UseRead
  <2>2. cache[Slot("main")].content[req.word] \in Data
    BY <2>1 DEF SectorCache
  <2>3. QED
    BY <1>5, <2>2 DEF UseRead
<1>6. CASE ClearIntr("rClear", "rWait") \/ ClearIntr("rAck", "rData")
  BY <1>6 DEF ClearIntr
<1>7. CASE WaitDisk("main", "rWait", "rSelect")
  BY <1>7 DEF WaitDisk
<1>8. CASE SelectSector("main", "rSelect", "rIssue", req.sector)
  BY <1>8, Serving DEF SelectSector
<1>9. CASE IssueRead
  <2>1. sector' \in Sectors
    BY <1>9, Serving DEF IssueRead, Command, FillInStep
  <2>2. i' \in [Actors -> Words] /\ 0 \in 0..(WORDS + 1)
    BY <1>9, Sizes DEF IssueRead, Words
  <2>3. QED
    BY <1>9, <2>1, <2>2 DEF IssueRead, Latch!Raise
<1>10. CASE TestIntr
  BY <1>10 DEF TestIntr
<1>11. CASE ReadWord
  <2>1. Slot("main") \in Slots /\ req.sector \in Sectors
    BY <1>11, Serving DEF ReadWord, NextWord
  <2>2. cache[Slot("main")] \in SectorCache /\ Image(req.sector, i["main"]) \in Data
    BY <1>11, <2>1, ReadWordEffect DEF Image, Data
  <2>3. [cache[Slot("main")] EXCEPT !.content[i["main"]] = Image(req.sector, i["main"])]
            \in SectorCache
    BY <2>2 DEF SectorCache
  <2>4. cache' \in [Slots -> SectorCache]
    BY <1>11, <2>1, <2>3, ReadWordEffect
  <2>5. i' \in [Actors -> Words]
    BY <1>11, Sizes DEF ReadWord, NextWord, Words
  <2>6. byte_cnt' \in 0..(WORDS + 1)
    <3>1. byte_cnt \in Words /\ byte_cnt' = byte_cnt + 1
      BY <1>11, ReadWordEffect
    <3>2. QED
      BY <3>1, Sizes DEF Words
  <2>7. UNCHANGED <<has_ide_intr, counter, k, program, sector, ide_write, received, latch>>
        /\ at' = [at EXCEPT !["main"] = IF i["main"] + 1 = WORDS THEN "tag" ELSE "rData"]
    BY <1>11, ReadWordEffect DEF ReadWord, NextWord
  <2>8. QED
    BY <1>11, <2>4, <2>5, <2>6, <2>7, ReadWordEffect
<1>12. CASE TimerTick
  BY <1>12 DEF TimerTick, Latch!Raise
<1>13. CASE TakeInterrupt
  BY <1>13, ZenonT(40) DEF TakeInterrupt, Latch!Take
<1>14. CASE IdeIntr
  BY <1>14 DEF IdeIntr, Latch!Dispatch
<1>15. CASE IdeWriteback
  <2>1. counter' \in 0..WRITEBACK
    <3>1. counter # WRITEBACK
      BY <1>15 DEF IdeWriteback, Latch!Dispatch, WritebackCounts
    <3>2. counter \in 0..WRITEBACK /\ counter' = counter + 1
      BY <1>15 DEF IdeWriteback
    <3>3. WRITEBACK \in Nat
      BY Sizes
    <3>4. QED
      BY <3>1, <3>2, <3>3
  <2>2. k' \in 0..NR_SEC_CACHE
    BY <1>15, Sizes DEF IdeWriteback
  <2>3. QED
    BY <1>15, <2>1, <2>2 DEF IdeWriteback, Latch!Dispatch
<1>16. CASE Scan
  BY <1>16, Sizes DEF Scan
<1>17. CASE EndOfScan
  BY <1>17, Sizes DEF EndOfScan
<1>18. QED
  BY <1>1, <1>2, <1>3, <1>5, <1>6, <1>7, <1>8, <1>9, <1>10, <1>11, <1>12, <1>13,
     <1>14, <1>15, <1>16, <1>17 DEF ReadSteps, DiskRead

-----------------------------------------------------------------------------
\* No step wakes the write path, and a handler keeps the processor.
LEMMA NothingWritesStep ==
  ASSUME HasWriter = FALSE, ReadInv, ReadSteps
  PROVE  NothingWrites' /\ WritebackCounts'
<1>0. CASE Fetch
  <2>1. at' = [at EXCEPT !["main"] = "use"] \/ at' = [at EXCEPT !["main"] = "rClear"]
    BY <1>0, Serving DEF Fetch, Evicts, Step, ReadInv, NothingWrites
  <2>2. QED
    BY <1>0, <2>1 DEF Fetch, ReadInv, TypeOK, NothingWrites, WritebackCounts, kernel, device,
       latch, Actors, ReadPositions
<1>1. CASE Ask \/ UseRead
  BY <1>1 DEF Ask, UseRead, Step, ReadInv, TypeOK, NothingWrites, WritebackCounts, kernel,
     device, latch, Actors, ReadPositions
<1>2. CASE Tag \/ Clean
  <2>1. \A c \in Slots : ~cache'[c].dirty
    <3>1. Slot("main") \in Slots /\ cache \in [Slots -> SectorCache]
      BY <1>2, Serving DEF Tag, Clean, Step, ReadInv, TypeOK
    <3>2. \A c \in Slots : c # Slot("main") => cache'[c] = cache[c]
      BY <1>2, <3>1 DEF Tag, Clean
    <3>3. /\ cache[Slot("main")] \in SectorCache /\ ~cache[Slot("main")].dirty
          /\ \A c \in Slots : ~cache[c].dirty
      BY <3>1 DEF ReadInv, NothingWrites
    <3>4. ~cache'[Slot("main")].dirty
      BY <1>2, <3>1, <3>3 DEF Tag, Clean, SectorCache
    <3>5. QED
      BY <3>2, <3>3, <3>4
  <2>2. QED
    BY <1>2, <2>1 DEF Tag, Clean, Step, ReadInv, TypeOK, NothingWrites, WritebackCounts,
       device, latch, Actors
<1>3. CASE ClearIntr("rClear", "rWait") \/ ClearIntr("rAck", "rData")
  BY <1>3 DEF ClearIntr, Step, ReadInv, TypeOK, NothingWrites, WritebackCounts, device, latch,
     Actors, ReadPositions
<1>4. CASE \/ WaitDisk("main", "rWait", "rSelect")
           \/ SelectSector("main", "rSelect", "rIssue", req.sector)
  BY <1>4 DEF WaitDisk, SelectSector, Step, ReadInv, TypeOK, NothingWrites, WritebackCounts,
     kernel, device, latch, Actors, ReadPositions
<1>5. CASE IssueRead \/ TestIntr
  BY <1>5 DEF IssueRead, TestIntr, Latch!Raise, Step, ReadInv, TypeOK, NothingWrites,
     WritebackCounts, kernel, device, latch, Actors, ReadPositions
<1>6. CASE ReadWord
  <2>1. \A c \in Slots : ~cache'[c].dirty
    BY <1>6, Serving, ReadWordEffect, ZenonT(40) DEF ReadInv, TypeOK, NothingWrites, SectorCache
  <2>2. at' = [at EXCEPT !["main"] = "rData"] \/ at' = [at EXCEPT !["main"] = "tag"]
    BY <1>6 DEF ReadWord, NextWord, Step
  <2>3. status' = "ready" /\ aborted' = aborted /\ UNCHANGED <<ide_write, counter, taken>>
    BY <1>6, ReadWordEffect DEF ReadWord, latch
  <2>4. QED
    BY <2>1, <2>2, <2>3 DEF ReadInv, TypeOK, NothingWrites, WritebackCounts, Actors,
       ReadPositions
<1>7. CASE TimerTick \/ TakeInterrupt
  BY <1>7 DEF TimerTick, TakeInterrupt, Latch!Raise, Latch!Take, ReadInv, NothingWrites,
     WritebackCounts, kernel, device
<1>8. CASE IdeIntr \/ IdeWriteback
  BY <1>8, Sizes DEF IdeIntr, IdeWriteback, Latch!Dispatch, ReadInv, TypeOK, NothingWrites,
     WritebackCounts, device, Actors
<1>9. CASE Scan \/ EndOfScan
  BY <1>9, Sizes DEF Scan, EndOfScan, Step, ReadInv, TypeOK, NothingWrites, WritebackCounts,
     kernel, device, latch, Actors, Slots
<1>10. QED
  BY <1>0, <1>1, <1>2, <1>3, <1>4, <1>5, <1>6, <1>7, <1>8, <1>9 DEF ReadSteps, DiskRead

-----------------------------------------------------------------------------
\* The device stays on the request's sector, and a word more of the fill is
\* the sector's.
LEMMA FillInStepStep ==
  ASSUME HasWriter = FALSE, ReadInv, ReadSteps
  PROVE  FillInStep'
<1> USE DEF Step, Actors
<1>1. CASE Ask
  BY <1>1 DEF Ask, Request, NoRequest, ReadInv, TypeOK, FillInStep
<1>2. CASE Fetch
  BY <1>2, Serving DEF Fetch, Hits, Evicts, ReadInv, TypeOK, FillInStep, NothingWrites, Slot,
     kernel, program, device
<1>3. CASE Tag \/ Clean
  <2>1. /\ Slot("main") \in Slots /\ cache[Slot("main")] \in SectorCache
        /\ cache \in [Slots -> SectorCache] /\ req' = req /\ Slot("main")' = Slot("main")
    BY <1>3, Serving DEF Tag, Clean, Slot, ReadInv, TypeOK, program
  <2>2. cache'[Slot("main")].used /\ cache'[Slot("main")].sector = req.sector
    <3>1. CASE Tag
      BY <3>1, <2>1 DEF Tag, SectorCache
    <3>2. CASE Clean
      <4>1. cache[Slot("main")].used /\ cache[Slot("main")].sector = req.sector
        BY <3>2 DEF Clean, ReadInv, FillInStep
      <4>2. QED
        BY <3>2, <4>1, <2>1 DEF Clean, SectorCache
    <3>3. QED
      BY <1>3, <3>1, <3>2
  <2>3. at'["main"] \in {"clean", "use"} /\ req # NoRequest
    BY <1>3 DEF Tag, Clean, ReadInv, TypeOK, FillInStep
  <2>4. QED
    BY <2>1, <2>2, <2>3 DEF FillInStep
<1>4. CASE UseRead
  BY <1>4 DEF UseRead, ReadInv, TypeOK, FillInStep
<1>5. CASE \/ ClearIntr("rClear", "rWait")
           \/ WaitDisk("main", "rWait", "rSelect")
           \/ SelectSector("main", "rSelect", "rIssue", req.sector)
           \/ TestIntr
  BY <1>5 DEF ClearIntr, WaitDisk, SelectSector, TestIntr, Slot, ReadInv, TypeOK,
     FillInStep, kernel, program, device
<1>6. CASE ClearIntr("rAck", "rData")
  <2>1. at["main"] = "rAck" /\ at'["main"] = "rData" /\ req' = req /\ i' = i /\ sector' = sector
        /\ byte_cnt' = byte_cnt
    BY <1>6 DEF ClearIntr, ReadInv, TypeOK, program, device
  <2>2. i["main"] = 0 /\ sector = req.sector /\ byte_cnt = i["main"] /\ req # NoRequest
    BY <2>1 DEF ReadInv, FillInStep
  <2>3. \A w \in Words : ~(w < 0)
    BY Sizes DEF Words
  <2>4. QED
    BY <2>1, <2>2, <2>3 DEF FillInStep
<1>7. CASE IssueRead
  <2>1. select = req.sector /\ req.sector \in Sectors /\ req # NoRequest
    BY <1>7, Serving DEF IssueRead, ReadInv, FillInStep
  <2>2. sector' = req.sector
    BY <1>7, <2>1 DEF IssueRead, Command, Garbled, Sectors
  <2>3. at'["main"] = "rTest" /\ i'["main"] = 0 /\ byte_cnt' = 0 /\ req' = req
    BY <1>7 DEF IssueRead, ReadInv, TypeOK, program
  <2>4. QED
    BY <2>1, <2>2, <2>3 DEF FillInStep
<1>8. CASE ReadWord
  <2> DEFINE w0 == i["main"]
             c0 == Slot("main")
  <2>1. /\ c0 \in Slots /\ req # NoRequest /\ req' = req /\ Slot("main")' = c0
        /\ cache \in [Slots -> SectorCache]
    BY <1>8, Serving DEF ReadWord, NextWord, Slot, program, ReadInv, TypeOK, FillInStep
  <2>2. \A w \in Words : cache'[c0].content[w]
            = IF w = w0 THEN Image(req.sector, w0) ELSE cache[c0].content[w]
    <3>1. cache[c0] \in SectorCache /\ w0 \in Words
      BY <1>8, <2>1, ReadWordEffect
    <3>2. cache'[c0] = [cache[c0] EXCEPT !.content[w0] = Image(req.sector, w0)]
      BY <1>8, <2>1, ReadWordEffect
    <3>3. QED
      BY <3>1, <3>2 DEF SectorCache
  <2>3. \A w \in Words : w < w0 => cache[c0].content[w] = Image(req.sector, w)
    BY <1>8, ReadWordEffect DEF ReadInv, FillInStep
  <2>4. \A w \in Words : w < w0 + 1 => cache'[c0].content[w] = Image(req.sector, w)
    <3>1. w0 \in Words /\ \A w \in Words : w < w0 + 1 => w < w0 \/ w = w0
      <4>1. w0 \in Words
        BY <1>8, ReadWordEffect
      <4> HIDE DEF w0
      <4>2. QED
        BY <4>1, Sizes DEF Words
    <3>2. QED
      BY <2>2, <2>3, <3>1
  <2>5. CASE w0 + 1 = WORDS
    <3>1. at'["main"] = "tag"
      BY <1>8, <2>5 DEF ReadWord, NextWord, ReadInv, TypeOK
    <3>2. \A w \in Words : w < w0 + 1
      BY <2>5, Sizes DEF Words
    <3>3. QED
      BY <2>1, <2>4, <3>1, <3>2 DEF FillInStep
  <2>6. CASE w0 + 1 # WORDS
    <3>1. at'["main"] = "rData" /\ i'["main"] = w0 + 1 /\ byte_cnt' = w0 + 1 /\ sector' = req.sector
      BY <1>8, <2>6, ReadWordEffect DEF ReadWord, NextWord, ReadInv, TypeOK
    <3>2. QED
      BY <2>1, <2>4, <3>1 DEF FillInStep
  <2>7. QED
    BY <2>5, <2>6
<1>9. CASE TimerTick \/ TakeInterrupt \/ IdeIntr \/ IdeWriteback
  BY <1>9 DEF TimerTick, TakeInterrupt, IdeIntr, IdeWriteback, Slot, ReadInv, TypeOK,
     FillInStep, kernel, program, device
<1>10. CASE Scan \/ EndOfScan
  BY <1>10 DEF Scan, EndOfScan, Slot, ReadInv, TypeOK, FillInStep, kernel, program, device
<1>11. QED
  BY <1>1, <1>2, <1>3, <1>4, <1>5, <1>6, <1>7, <1>8, <1>9, <1>10 DEF ReadSteps, DiskRead

-----------------------------------------------------------------------------
\* A slot keeps mirroring its sector, except the one being filled, which does
\* again when its tag is written.
LEMMA SlotsMirrorStep ==
  ASSUME HasWriter = FALSE, ReadInv, ReadSteps
  PROVE  SlotsMirrorDisk'
<1> DEFINE c0 == Slot("main")
<1>1. CASE Tag
  <2>1. /\ c0 \in Slots /\ cache[c0] \in SectorCache /\ c0 = Home(req.sector)
        /\ cache \in [Slots -> SectorCache]
    BY <1>1, Serving DEF Tag, Step, ReadInv, TypeOK
  <2>2. /\ cache'[c0].used /\ cache'[c0].sector = req.sector
        /\ cache'[c0].content = cache[c0].content
        /\ \A c \in Slots : c # c0 => cache'[c] = cache[c]
    BY <1>1, <2>1 DEF Tag, SectorCache
  <2>3. \A w \in Words : cache[c0].content[w] = Image(req.sector, w)
    BY <1>1 DEF Tag, Step, ReadInv, FillInStep
  <2>4. \A c \in Slots : c # c0 => ~Filling(c)
    BY DEF Filling
  <2>5. ASSUME NEW c \in Slots, cache'[c].used
        PROVE  Home(cache'[c].sector) = c /\ Mirrors(c)'
    <3>1. CASE c = c0
      BY <2>1, <2>2, <2>3, <3>1 DEF Mirrors
    <3>2. CASE c # c0
      BY <2>2, <2>4, <2>5, <3>2 DEF Mirrors, ReadInv, SlotsMirrorDisk
    <3>3. QED
      BY <3>1, <3>2
  <2>6. QED
    BY <2>5 DEF SlotsMirrorDisk, Home
<1>2. CASE Clean
  <2>1. c0 \in Slots /\ cache \in [Slots -> SectorCache]
    BY <1>2, Serving DEF Clean, Step, ReadInv, TypeOK
  <2>2. \A c \in Slots : /\ cache'[c].used = cache[c].used
                         /\ cache'[c].sector = cache[c].sector
                         /\ cache'[c].content = cache[c].content
    BY <1>2, <2>1 DEF Clean, SectorCache
  <2>3. \A c \in Slots : ~Filling(c)
    BY <1>2 DEF Clean, Step, Filling
  <2>4. QED
    BY <2>2, <2>3 DEF ReadInv, SlotsMirrorDisk, Mirrors, Home
<1>3. CASE ReadWord
  <2>1. /\ c0 \in Slots /\ cache \in [Slots -> SectorCache] /\ i["main"] \in Words
        /\ at["main"] = "rData" /\ at'["main"] \in {"rData", "tag"} /\ Slot("main")' = c0
    BY <1>3, Serving, ReadWordEffect DEF ReadWord, NextWord, Step, Slot, program, ReadInv,
       TypeOK, Actors
  <2>2. /\ cache'[c0].used = cache[c0].used /\ cache'[c0].sector = cache[c0].sector
        /\ \A c \in Slots : c # c0 => cache'[c] = cache[c]
    BY <1>3, <2>1, ReadWordEffect, ZenonT(40) DEF SectorCache
  <2>3. \A c \in Slots : Filling(c)' <=> c = c0
    BY <2>1 DEF Filling
  <2>4. \A c \in Slots : Filling(c) <=> c = c0
    BY <2>1 DEF Filling
  <2>5. QED
    BY <2>2, <2>3, <2>4 DEF ReadInv, SlotsMirrorDisk, Mirrors, Home
<1>4. ASSUME cache' = cache, \A c \in Slots : Filling(c) => Filling(c)'
      PROVE  SlotsMirrorDisk'
  BY <1>4 DEF ReadInv, SlotsMirrorDisk, Mirrors, Home
<1>5. ASSUME cache' = cache, at["main"] \notin {"rData", "tag"}
      PROVE  SlotsMirrorDisk'
  BY <1>4, <1>5 DEF Filling
<1>6. CASE Ask \/ Fetch \/ UseRead
  BY <1>5, <1>6 DEF Ask, Fetch, UseRead, Step, kernel
<1>7. CASE DiskRead /\ ~ReadWord
  BY <1>5, <1>7 DEF DiskRead, ClearIntr, WaitDisk, SelectSector, IssueRead, TestIntr,
     Step, kernel
<1>8. CASE TimerTick \/ TakeInterrupt \/ IdeIntr \/ IdeWriteback \/ Scan \/ EndOfScan
  <2>1. cache' = cache /\ at'["main"] = at["main"] /\ req' = req
    BY <1>8 DEF TimerTick, TakeInterrupt, IdeIntr, IdeWriteback, Scan, EndOfScan, Step, kernel,
       program, ReadInv, TypeOK, Actors
  <2>2. QED
    BY <1>4, <2>1 DEF Filling, Slot
<1>9. QED
  BY <1>1, <1>2, <1>3, <1>6, <1>7, <1>8 DEF ReadSteps

-----------------------------------------------------------------------------
\* The disk's interrupt is on its way from the command until the flag is set,
\* and the main program does not get to the test before that.
LEMMA AnswerComesStep ==
  ASSUME HasWriter = FALSE, ReadInv, ReadSteps
  PROVE  AnswerComes'
<1> USE DEF ReadInv, TypeOK, AnswerComes, Step, MainRuns, kernel, program, device, latch, Actors,
        IDE_VECTOR, TIMER_VECTOR, NoVector
<1>1. CASE Ask \/ Fetch \/ Tag \/ Clean \/ UseRead
  BY <1>1 DEF Ask, Fetch, Tag, Clean, UseRead
<1>2. CASE \/ ClearIntr("rClear", "rWait") \/ ClearIntr("rAck", "rData")
           \/ WaitDisk("main", "rWait", "rSelect")
           \/ SelectSector("main", "rSelect", "rIssue", req.sector)
  BY <1>2 DEF ClearIntr, WaitDisk, SelectSector
<1>3. CASE IssueRead
  BY <1>3 DEF IssueRead, Latch!Raise
<1>4. CASE TestIntr
  BY <1>4 DEF TestIntr
<1>5. CASE ReadWord
  BY <1>5 DEF ReadWord, NextWord
<1>6. CASE TimerTick
  BY <1>6 DEF TimerTick, Latch!Raise
<1>7. CASE TakeInterrupt
  BY <1>7 DEF TakeInterrupt, Latch!Take
<1>8. CASE IdeIntr
  BY <1>8 DEF IdeIntr, Latch!Dispatch
<1>9. CASE IdeWriteback
  BY <1>9 DEF IdeWriteback, Latch!Dispatch
<1>10. CASE Scan \/ EndOfScan
  BY <1>10 DEF Scan, EndOfScan
<1>11. QED
  BY <1>1, <1>2, <1>3, <1>4, <1>5, <1>6, <1>7, <1>8, <1>9, <1>10 DEF ReadSteps, DiskRead

-----------------------------------------------------------------------------
\* While nothing writes, ReadInv holds at every step.
THEOREM ReadInvariance ==
  ASSUME HasWriter = FALSE
  PROVE  Spec => []ReadInv
<1>1. Init => ReadInv
  BY ReadInit
<1>2. ReadInv /\ [Next]_vars => ReadInv'
  <2>1. CASE Next /\ ReadInv
    BY <2>1, OnlyReadSteps, TypeStep, NothingWritesStep, SlotsMirrorStep, FillInStepStep,
       AnswerComesStep
       DEF ReadInv
  <2>2. CASE UNCHANGED vars /\ ReadInv
    BY <2>2 DEF ReadInv, TypeOK, NothingWrites, WritebackCounts, SlotsMirrorDisk, FillInStep,
       AnswerComes, Mirrors, Filling, Slot, vars, kernel, program, device, latch
  <2>3. QED
    BY <2>1, <2>2
<1>3. QED
  BY <1>1, <1>2, PTL DEF Spec

\* While nothing writes, no assertion of NEMU's disk device fails.
THEOREM NoDeviceAssertion ==
  ASSUME HasWriter = FALSE
  PROVE  Spec => []DeviceAssertions
<1>1. ReadInv => DeviceAssertions
  BY DEF ReadInv, NothingWrites, DeviceAssertions
<1>2. QED
  BY <1>1, ReadInvariance, PTL

\* While nothing writes, wait_ide_intr never halts: the interrupt has been
\* handled before it looks.
THEOREM NeverSleeps ==
  ASSUME HasWriter = FALSE
  PROVE  Spec => []NeverHalts
<1>1. ReadInv => NeverHalts
  BY DEF ReadInv, AnswerComes, NeverHalts
<1>2. QED
  BY <1>1, ReadInvariance, PTL

-----------------------------------------------------------------------------
DiskImage == [s \in Sectors |-> [w \in Words |-> Image(s, w)]]

\* What the driver holds is the image, whatever is cached.
LEMMA HoldsTheImage ==
  ASSUME HasWriter = FALSE, ReadInv
  PROVE  Over(DiskImage) = DiskImage
<1>1. ASSUME NEW s \in Sectors, Cached(s)
      PROVE  cache[Home(s)].content = [w \in Words |-> Image(s, w)]
  <2>1. Home(s) \in Slots /\ cache[Home(s)] \in SectorCache
    BY HomeSlot DEF ReadInv, TypeOK
  <2>2. \A w \in Words : cache[Home(s)].content[w] = Image(s, w)
    BY <1>1, <2>1 DEF Cached, ReadInv, SlotsMirrorDisk, Mirrors
  <2>3. QED
    BY <2>1, <2>2 DEF SectorCache
<1>2. QED
  BY <1>1 DEF Over, DiskImage

\* While nothing writes, the driver with its cache, its interrupts and the
\* device implements a store of words, for any sizes.
THEOREM ReadsImplementStore ==
  ASSUME HasWriter = FALSE
  PROVE  Spec => ImplementsStore
<1>1. Init => Store!Init
  <2>1. SUFFICES ASSUME Init PROVE Store!Init
    OBVIOUS
  <2>2. ReadInv
    BY <2>1, ReadInit
  <2>3. Over(DiskImage) = DiskImage /\ reply \in Data
    BY <2>2, HoldsTheImage DEF ReadInv, TypeOK
  <2>4. Asked = NoRequest
    BY <2>1 DEF Init, Asked, Actors
  <2>5. QED
    BY <2>3, <2>4 DEF Store!Init, DiskImage
<1>2. ReadInv => Over(DiskImage) = DiskImage
  BY HoldsTheImage
<1>3. /\ ReadInv /\ Over(DiskImage) = DiskImage
      /\ (Over(DiskImage) = DiskImage)'
      /\ [Next]_vars
      => [Store!Next]_(Store!vars)
  <2> SUFFICES ASSUME ReadInv, Over(DiskImage) = DiskImage,
                      (Over(DiskImage) = DiskImage)', [Next]_vars
               PROVE  [Store!Next]_(Store!vars)
    OBVIOUS
  <2>1. Over(DiskImage)' = Over(DiskImage)
    BY DEF DiskImage, Image
  <2>2. Asked = req
    BY DEF Asked, ReadInv, NothingWrites, ReadPositions
  <2>3. ASSUME UNCHANGED <<req, reply>>, at'["main"] # "dirty"
        PROVE  UNCHANGED Store!vars
    BY <2>1, <2>2, <2>3 DEF Store!vars, Asked, DiskImage
  <2>4. CASE UNCHANGED vars
    BY <2>3, <2>4 DEF vars, program, ReadInv, NothingWrites, ReadPositions
  <2>5. CASE Ask
    <3>1. req = NoRequest /\ Asked' = req' /\ req' \in Request /\ reply' = reply
      BY <2>5 DEF Ask, Step, ReadInv, TypeOK, FillInStep, Asked, Actors
    <3>2. QED
      BY <2>1, <2>2, <3>1 DEF Store!Next, Store!Ask, DiskImage
  <2>6. CASE UseRead
    <3>1. /\ req.sector \in Sectors /\ req.word \in Words /\ req.op = "read" /\ req # NoRequest
          /\ Slot("main") \in Slots
      BY <2>6, Serving DEF UseRead, Step, ReadInv, FillInStep
    <3>2. cache[Slot("main")].content[req.word] = Image(req.sector, req.word)
      BY <2>6, <3>1 DEF UseRead, Step, ReadInv, FillInStep, SlotsMirrorDisk, Filling, Mirrors
    <3>3. reply' = Over(DiskImage)[req.sector][req.word]
      BY <2>6, <3>1, <3>2 DEF UseRead, DiskImage
    <3>4. Asked' = NoRequest
      BY <2>6 DEF UseRead, Asked
    <3>5. QED
      BY <2>1, <2>2, <3>1, <3>3, <3>4 DEF Store!Next, Store!Read, DiskImage
  <2>7. CASE ReadSteps /\ ~Ask /\ ~UseRead
    <3>1. UNCHANGED <<req, reply>>
      BY <2>7 DEF ReadSteps, DiskRead, Fetch, Tag, Clean, ClearIntr, WaitDisk, SelectSector,
         IssueRead, TestIntr, ReadWord, TimerTick, TakeInterrupt, IdeIntr, IdeWriteback,
         Scan, EndOfScan, program
    <3>2. at'["main"] # "dirty"
      BY <2>7, NothingWritesStep DEF NothingWrites, ReadPositions
    <3>3. QED
      BY <2>3, <3>1, <3>2
  <2>8. QED
    BY <2>4, <2>5, <2>6, <2>7, OnlyReadSteps
<1>4. QED
  BY <1>1, <1>2, <1>3, ReadInvariance, PTL DEF ImplementsStore, Spec, Store!Spec

-----------------------------------------------------------------------------
(***************************************************************************)
(* The driver with a writer.  WriterInv holds with any setting of          *)
(* HasWriter; its part WriterAlone needs that the timer is off.            *)
(***************************************************************************)

\* Who never handles an interrupt or runs the timer's handler.
AloneSteps ==
    \/ Ask \/ Fetch \/ Tag \/ Clean \/ UseRead \/ UseWrite \/ MarkDirty
    \/ DiskRead \/ DiskWrite("main", "rClear")
    \/ TakeInterrupt \/ IdeIntr

\* Without the timer only the main program and the disk's interrupt move.
LEMMA OnlyAloneSteps ==
  ASSUME ~timed, WriterAlone, Next
  PROVE  AloneSteps
<1>1. ~TimerTick /\ ~Aborted
  BY DEF TimerTick, Aborted, WriterAlone, DeviceAssertions
<1>2. ~IdeWriteback
  BY DEF IdeWriteback, WriterAlone, OnlyTheDisk, IDE_VECTOR, TIMER_VECTOR, NoVector
<1>3. ~Scan /\ ~WrittenBack /\ ~EndOfScan /\ ~DiskWrite("isr", "wClean")
  BY DEF Scan, WrittenBack, EndOfScan, DiskWrite, WaitDisk, SelectSector, IssueWrite, WriteWord,
     NextWord, Step, WriterAlone, OnlyTheDisk
<1>4. QED
  BY <1>1, <1>2, <1>3 DEF Next, Main, Handler, AloneSteps

\* While a request is served its sector and word are in range, and so is its
\* slot.
LEMMA AloneServing ==
  ASSUME WriterAlone, at["main"] # "idle"
  PROVE  /\ req \in Request /\ req.sector \in Sectors /\ req.word \in Words
         /\ req.op = "write" => req.data \in NewData
         /\ Slot("main") \in Slots /\ Slot("main") = Home(req.sector)
         /\ cache[Slot("main")] \in SectorCache
<1>1. req \in Request
  BY DEF WriterAlone, TypeOK
<1>2. req.sector \in Sectors /\ req.word \in Words /\ (req.op = "write" => req.data \in NewData)
  BY <1>1 DEF Request
<1>3. Slot("main") \in Slots /\ Slot("main") = Home(req.sector)
  BY <1>2, HomeSlot DEF Slot
<1>4. QED
  BY <1>1, <1>2, <1>3 DEF WriterAlone, TypeOK

\* The index of a transfer is that of a word, and starts over at the end.
LEMMA NextIndex == \A w \in Words : (IF w + 1 = WORDS THEN 0 ELSE w + 1) \in Words
  BY Sizes DEF Words

\* A word of a transfer that reads is the device's next one.
LEMMA AloneReadWord ==
  ASSUME WriterAlone, ReadWord
  PROVE  /\ at["main"] = "rData" /\ i["main"] \in Words
         /\ byte_cnt = i["main"] /\ sector = req.sector
         /\ aborted' = aborted /\ byte_cnt' = byte_cnt + 1 /\ status' = "ready"
         /\ select' = Garbled
         /\ cache' = [cache EXCEPT ![Slot("main")].content[i["main"]]
                                    = Image(req.sector, i["main"])]
         /\ at' = [at EXCEPT !["main"] = IF i["main"] + 1 = WORDS THEN "tag" ELSE "rData"]
         /\ i' = [i EXCEPT !["main"] = IF @ + 1 = WORDS THEN 0 ELSE @ + 1]
         /\ UNCHANGED <<has_ide_intr, counter, k, program, sector, ide_write, received, latch>>
<1>1. /\ at["main"] = "rData" /\ i["main"] \in Words /\ byte_cnt = i["main"]
      /\ sector = req.sector /\ ide_write = FALSE /\ aborted = FALSE /\ status = "ready"
  BY DEF ReadWord, NextWord, Step, WriterAlone, TypeOK, TransferOwnsDevice, DeviceAssertions,
     ReadyBetween, Actors
<1>2. ~(byte_cnt > WORDS)
  BY <1>1, Sizes DEF Words
<1>3. /\ byte_cnt' = byte_cnt + 1 /\ select' = Garbled /\ aborted' = aborted
      /\ status' = "ready"
  BY <1>1, <1>2 DEF ReadWord, MoveWord
<1>4. cache' = [cache EXCEPT ![Slot("main")].content[i["main"]] = Image(req.sector, i["main"])]
  BY <1>1, <1>3 DEF ReadWord
<1>5. QED
  BY <1>1, <1>3, <1>4 DEF ReadWord, NextWord, Step

\* A word of a transfer that writes goes to its place in the slot's sector.
LEMMA AloneWriteWord ==
  ASSUME WriterAlone, WriteWord("main", "rClear")
  PROVE  /\ at["main"] = "wData" /\ i["main"] \in Words
         /\ byte_cnt = i["main"] /\ sector = cache[Slot("main")].sector
         /\ aborted' = aborted /\ byte_cnt' = byte_cnt + 1 /\ select' = Garbled
         /\ status' = IF byte_cnt + 1 = WORDS THEN "ready" ELSE status
         /\ received' = [received EXCEPT ![cache[Slot("main")].sector][i["main"]]
                                          = cache[Slot("main")].content[i["main"]]]
         /\ at' = [at EXCEPT !["main"] = IF i["main"] + 1 = WORDS THEN "rClear" ELSE "wData"]
         /\ i' = [i EXCEPT !["main"] = IF @ + 1 = WORDS THEN 0 ELSE @ + 1]
         /\ UNCHANGED <<kernel, k, program, sector, ide_write, latch>>
<1>1. /\ at["main"] = "wData" /\ i["main"] \in Words /\ byte_cnt = i["main"]
      /\ sector = cache[Slot("main")].sector /\ ide_write = TRUE /\ aborted = FALSE
  BY DEF WriteWord, NextWord, Step, WriterAlone, TypeOK, TransferOwnsDevice, DeviceAssertions,
     Actors
<1>2. ~(byte_cnt > WORDS)
  BY <1>1, Sizes DEF Words
<1>3. /\ byte_cnt' = byte_cnt + 1 /\ select' = Garbled /\ aborted' = aborted
      /\ status' = IF byte_cnt + 1 = WORDS THEN "ready" ELSE status
  BY <1>1, <1>2 DEF WriteWord, MoveWord
<1>4. received' = [received EXCEPT ![cache[Slot("main")].sector][i["main"]]
                                   = cache[Slot("main")].content[i["main"]]]
  BY <1>1, <1>3 DEF WriteWord
<1>5. QED
  BY <1>1, <1>3, <1>4 DEF WriteWord, NextWord, Step

\* Every step of a lone writer keeps the types.
LEMMA AloneTypes ==
  ASSUME WriterAlone, AloneSteps
  PROVE  TypeOK'
<1> USE DEF WriterAlone, TypeOK, kernel, program, device, latch, Step, Actors, MainPositions,
        IsrPositions, ReadPositions, WritePositions
<1>1. CASE Ask
  BY <1>1 DEF Ask
<1>2. CASE Fetch
  BY <1>2 DEF Fetch
<1>3. CASE Tag \/ Clean \/ MarkDirty \/ UseWrite
  <2> DEFINE c == cache[Slot("main")]
  <2>1. at["main"] # "idle"
    BY <1>3 DEF Tag, Clean, MarkDirty, UseWrite
  <2>2. /\ Slot("main") \in Slots /\ req.sector \in Sectors /\ req.word \in Words
        /\ c \in SectorCache
    BY <2>1, AloneServing
  <2>3. /\ [c EXCEPT !.used = TRUE, !.sector = req.sector] \in SectorCache
        /\ [c EXCEPT !.dirty = FALSE] \in SectorCache
        /\ [c EXCEPT !.dirty = TRUE] \in SectorCache
    <3> HIDE DEF c
    <3> QED BY <2>2, Zenon DEF SectorCache
  <2>4. ASSUME UseWrite PROVE [c EXCEPT !.content[req.word] = req.data] \in SectorCache
    <3>1. req.data \in Data
      BY <2>1, <2>4, AloneServing DEF UseWrite, Data
    <3>2. QED
      BY <2>2, <3>1 DEF SectorCache
  <2>5. cache' \in [Slots -> SectorCache]
    BY <1>3, <2>2, <2>3, <2>4 DEF Tag, Clean, MarkDirty, UseWrite
  <2>6. QED
    BY <1>3, <2>5 DEF Tag, Clean, MarkDirty, UseWrite
<1>5. CASE UseRead
  <2>1. cache[Slot("main")] \in SectorCache /\ req.word \in Words
    BY <1>5, AloneServing DEF UseRead
  <2>2. cache[Slot("main")].content[req.word] \in Data
    BY <2>1 DEF SectorCache
  <2>3. QED
    BY <1>5, <2>2 DEF UseRead
<1>6. CASE ClearIntr("rClear", "rWait") \/ ClearIntr("rAck", "rData")
  BY <1>6 DEF ClearIntr
<1>7. CASE WaitDisk("main", "rWait", "rSelect") \/ WaitDisk("main", "wWait", "wSelect")
  BY <1>7 DEF WaitDisk
<1>8. CASE SelectSector("main", "rSelect", "rIssue", req.sector)
  BY <1>8, AloneServing DEF SelectSector
<1>9. CASE SelectSector("main", "wSelect", "wIssue", cache[Slot("main")].sector)
  <2>1. cache[Slot("main")].sector \in Sectors
    BY <1>9, AloneServing DEF SelectSector, SectorCache
  <2>2. QED
    BY <1>9, <2>1 DEF SelectSector
<1>10. CASE IssueRead \/ IssueWrite("main")
  <2>1. sector' \in Sectors
    BY <1>10 DEF IssueRead, IssueWrite, Command
  <2>2. i' \in [Actors -> Words] /\ 0 \in 0..(WORDS + 1)
    BY <1>10, Sizes DEF IssueRead, IssueWrite, Words
  <2>3. QED
    BY <1>10, <2>1, <2>2 DEF IssueRead, IssueWrite, Latch!Raise
<1>11. CASE TestIntr
  BY <1>11 DEF TestIntr
<1>12. CASE ReadWord
  <2>1. Slot("main") \in Slots /\ cache[Slot("main")] \in SectorCache /\ req.sector \in Sectors
    BY <1>12, AloneServing, AloneReadWord
  <2>2. Image(req.sector, i["main"]) \in Data
    BY <1>12, <2>1, AloneReadWord DEF Image, Data
  <2>3. [cache[Slot("main")] EXCEPT !.content[i["main"]] = Image(req.sector, i["main"])]
            \in SectorCache
    BY <2>1, <2>2 DEF SectorCache
  <2>4. cache' \in [Slots -> SectorCache]
    BY <1>12, <2>1, <2>3, AloneReadWord
  <2>5. i' \in [Actors -> Words]
    BY <1>12, NextIndex, AloneReadWord
  <2>6. byte_cnt' \in 0..(WORDS + 1)
    <3>1. byte_cnt \in Words /\ byte_cnt' = byte_cnt + 1
      BY <1>12, AloneReadWord
    <3>2. QED
      BY <3>1, Sizes DEF Words
  <2>7. QED
    BY <1>12, <2>4, <2>5, <2>6, AloneReadWord
<1>13. CASE WriteWord("main", "rClear")
  <2>1. Slot("main") \in Slots /\ cache[Slot("main")] \in SectorCache /\ i["main"] \in Words
    BY <1>13, AloneServing, AloneWriteWord
  <2>2. cache[Slot("main")].content[i["main"]] \in Data
    BY <2>1 DEF SectorCache
  <2>4. received' \in [Sectors -> [Words -> Data]]
    BY <1>13, <2>1, <2>2, AloneWriteWord, SMTT(60)
  <2>5. i' \in [Actors -> Words]
    BY <1>13, NextIndex, AloneWriteWord
  <2>6. byte_cnt' \in 0..(WORDS + 1)
    <3>1. byte_cnt \in Words /\ byte_cnt' = byte_cnt + 1
      BY <1>13, AloneWriteWord
    <3>2. QED
      BY <3>1, Sizes DEF Words
  <2>7. QED
    BY <1>13, <2>4, <2>5, <2>6, AloneWriteWord
<1>14. CASE TakeInterrupt
  BY <1>14, ZenonT(40) DEF TakeInterrupt, Latch!Take
<1>15. CASE IdeIntr
  BY <1>15 DEF IdeIntr, Latch!Dispatch
<1>16. QED
  BY <1>1, <1>2, <1>3, <1>5, <1>6, <1>7, <1>8, <1>9, <1>10, <1>11, <1>12, <1>13, <1>14, <1>15
     DEF AloneSteps, DiskRead, DiskWrite

-----------------------------------------------------------------------------
\* Without the timer no other interrupt comes, waitdisk() never spins, and only
\* slots in use are dirty.
LEMMA AloneKeeps ==
  ASSUME ~timed, WriterAlone, AloneSteps
  PROVE  /\ (at["main"] = "idle" <=> req = NoRequest)'
         /\ OnlyTheDisk' /\ ReadyBetween' /\ DeviceAssertions'
<1> USE DEF WriterAlone, TypeOK, kernel, program, device, latch, Step, Actors,
        OnlyTheDisk, ReadyBetween, DeviceAssertions, IDE_VECTOR, TIMER_VECTOR, NoVector
<1>1. CASE Ask
  BY <1>1 DEF Ask, Request, NoRequest
<1>2. CASE Fetch \/ Tag \/ Clean \/ UseRead \/ UseWrite \/ MarkDirty
  BY <1>2 DEF Fetch, Tag, Clean, UseRead, UseWrite, MarkDirty
<1>3. CASE \/ ClearIntr("rClear", "rWait") \/ ClearIntr("rAck", "rData") \/ TestIntr
           \/ WaitDisk("main", "rWait", "rSelect") \/ WaitDisk("main", "wWait", "wSelect")
  BY <1>3 DEF ClearIntr, WaitDisk, TestIntr
<1>4. CASE \/ SelectSector("main", "rSelect", "rIssue", req.sector)
           \/ SelectSector("main", "wSelect", "wIssue", cache[Slot("main")].sector)
  BY <1>4 DEF SelectSector
<1>5. CASE IssueRead \/ IssueWrite("main")
  BY <1>5 DEF IssueRead, IssueWrite, Latch!Raise
<1>6. CASE ReadWord
  BY <1>6, AloneReadWord
<1>7. CASE WriteWord("main", "rClear")
  BY <1>7, AloneWriteWord
<1>8. CASE TakeInterrupt
  BY <1>8 DEF TakeInterrupt, Latch!Take
<1>9. CASE IdeIntr
  BY <1>9 DEF IdeIntr, Latch!Dispatch
<1>10. QED
  BY <1>1, <1>2, <1>3, <1>4, <1>5, <1>6, <1>7, <1>8, <1>9 DEF AloneSteps, DiskRead, DiskWrite

\* The slots whose fields a step leaves alone: all, but for the content of the
\* one that is filled or written, and its marks.
LEMMA AloneCache ==
  ASSUME WriterAlone, AloneSteps, at["main"] # "idle"
  PROVE  /\ \A c \in Slots : c # Slot("main") => cache'[c] = cache[c]
         /\ Tag => /\ cache'[Slot("main")].used
                   /\ cache'[Slot("main")].dirty = cache[Slot("main")].dirty
         /\ Clean => /\ cache'[Slot("main")].used = cache[Slot("main")].used
                     /\ ~cache'[Slot("main")].dirty
         /\ MarkDirty => cache'[Slot("main")].used = cache[Slot("main")].used
         /\ UseWrite \/ ReadWord =>
                /\ cache'[Slot("main")].used = cache[Slot("main")].used
                /\ cache'[Slot("main")].dirty = cache[Slot("main")].dirty
                /\ cache'[Slot("main")].sector = cache[Slot("main")].sector
         /\ ~(Tag \/ Clean \/ MarkDirty \/ UseWrite \/ ReadWord) => cache' = cache
<1> DEFINE c0 == Slot("main")
<1>1. c0 \in Slots /\ cache \in [Slots -> SectorCache] /\ cache[c0] \in SectorCache
  BY AloneServing DEF WriterAlone, TypeOK
<1>2. CASE Tag
  BY <1>1, <1>2 DEF Tag, SectorCache, Clean, MarkDirty, UseWrite, ReadWord, NextWord, Step
<1>3. CASE Clean
  BY <1>1, <1>3 DEF Tag, SectorCache, Clean, MarkDirty, UseWrite, ReadWord, NextWord, Step
<1>4. CASE MarkDirty
  BY <1>1, <1>4 DEF Tag, SectorCache, Clean, MarkDirty, UseWrite, ReadWord, NextWord, Step
<1>5. CASE UseWrite
  BY <1>1, <1>5 DEF Tag, SectorCache, Clean, MarkDirty, UseWrite, ReadWord, NextWord, Step
<1>6. CASE ReadWord
  <2>1. /\ at["main"] = "rData"
        /\ cache' = [cache EXCEPT ![c0].content[i["main"]] = Image(req.sector, i["main"])]
    BY <1>6, AloneReadWord
  <2>2. ~Tag /\ ~Clean /\ ~MarkDirty /\ ~UseWrite
    BY <2>1 DEF Tag, Clean, MarkDirty, UseWrite, Step
  <2>3. QED
    BY <1>1, <2>1, <2>2, <1>6 DEF SectorCache
<1>7. CASE ~(Tag \/ Clean \/ MarkDirty \/ UseWrite \/ ReadWord)
  BY <1>7, AloneWriteWord DEF AloneSteps, DiskRead, DiskWrite, Ask, Fetch, UseRead, ClearIntr,
     WaitDisk, SelectSector, IssueRead, IssueWrite, TestIntr, TakeInterrupt, IdeIntr, kernel
<1>8. QED
  BY <1>2, <1>3, <1>4, <1>5, <1>6, <1>7

\* While a request is served, its slot is the same after a step.
LEMMA AloneSlot ==
  ASSUME WriterAlone, AloneSteps, at'["main"] # "idle"
  PROVE  Ask \/ (at["main"] # "idle" /\ req' = req /\ Slot("main")' = Slot("main"))
<1> USE DEF WriterAlone, TypeOK, Step, Actors, program, Slot
<1>1. CASE Fetch \/ Tag \/ Clean \/ UseRead \/ UseWrite \/ MarkDirty
  BY <1>1 DEF Fetch, Tag, Clean, UseRead, UseWrite, MarkDirty
<1>2. CASE DiskRead
  BY <1>2, AloneReadWord DEF DiskRead, ClearIntr, WaitDisk, SelectSector, IssueRead, TestIntr
<1>3. CASE DiskWrite("main", "rClear")
  BY <1>3, AloneWriteWord DEF DiskWrite, WaitDisk, SelectSector, IssueWrite
<1>4. CASE TakeInterrupt \/ IdeIntr
  BY <1>4 DEF TakeInterrupt, IdeIntr
<1>5. CASE Ask
  BY <1>5
<1>6. QED
  BY <1>1, <1>2, <1>3, <1>4, <1>5, Zenon DEF AloneSteps

\* Only a slot in use gets dirty.
LEMMA AloneDirtyIsUsed ==
  ASSUME WriterAlone, AloneSteps
  PROVE  DirtyIsUsed'
<1> USE DEF DirtyIsUsed, Used
<1>1. CASE at["main"] = "idle"
  <2>1. cache' = cache /\ at'["main"] \in {"idle", "fetch"}
    BY <1>1 DEF AloneSteps, DiskRead, DiskWrite, Ask, Fetch, Tag, Clean, UseRead, UseWrite,
       MarkDirty, ClearIntr, WaitDisk, SelectSector, IssueRead, IssueWrite, TestIntr, ReadWord,
       WriteWord, NextWord, TakeInterrupt, IdeIntr, Step, kernel, WriterAlone, TypeOK, Actors
  <2>2. QED
    BY <2>1 DEF WriterAlone
<1>2. CASE at["main"] # "idle"
  <2>1. Slot("main") \in Slots
    BY <1>2, AloneServing
  <2>2. DirtyIsUsed
    BY DEF WriterAlone
  <2>3. \A c \in Slots : cache'[c].dirty => cache'[c].used
    BY <1>2, <2>1, <2>2, AloneCache DEF MarkDirty, Step
  <2>4. ASSUME at'["main"] \in {"clean", "use", "dirty"}
        PROVE  cache'[Slot("main")].used
    <3>1. CASE Tag \/ Clean \/ UseWrite
      BY <1>2, <2>2, <3>1, AloneCache DEF Clean, UseWrite, Step
    <3>2. CASE Fetch
      BY <2>4, <3>2 DEF Fetch, Hits, Slot, Step, kernel, WriterAlone, TypeOK, Actors
    <3>3. CASE TakeInterrupt \/ IdeIntr
      BY <2>2, <2>4, <3>3 DEF TakeInterrupt, IdeIntr, kernel
    <3>4. CASE ~(Tag \/ Clean \/ UseWrite \/ Fetch \/ TakeInterrupt \/ IdeIntr)
      BY <2>4, <3>4, AloneReadWord, AloneWriteWord DEF AloneSteps, DiskRead, DiskWrite, Ask,
         UseRead, MarkDirty, ClearIntr, WaitDisk, SelectSector, IssueRead, IssueWrite, TestIntr,
         Step, WriterAlone, TypeOK, Actors
    <3>5. QED
      BY <3>1, <3>2, <3>3, <3>4
  <2>5. at'["main"] \in {"clean", "use", "dirty"} => Slot("main")' = Slot("main")
    BY <1>2, AloneSlot DEF Ask, Step
  <2>6. QED
    BY <2>3, <2>4, <2>5
<1>3. QED
  BY <1>1, <1>2

\* The device is on the actor's sector, command and word.
LEMMA AloneOwnsDevice ==
  ASSUME ~timed, WriterAlone, AloneSteps
  PROVE  TransferOwnsDevice'
<1> USE DEF WriterAlone, TypeOK, kernel, program, device, latch, Step, Actors,
        TransferOwnsDevice, OnlyTheDisk, Slot
<1>1. CASE Ask \/ Fetch \/ Tag \/ Clean \/ UseRead \/ UseWrite \/ MarkDirty
  BY <1>1 DEF Ask, Fetch, Tag, Clean, UseRead, UseWrite, MarkDirty
<1>2. CASE \/ ClearIntr("rClear", "rWait") \/ ClearIntr("rAck", "rData") \/ TestIntr
           \/ WaitDisk("main", "rWait", "rSelect") \/ WaitDisk("main", "wWait", "wSelect")
  BY <1>2 DEF ClearIntr, WaitDisk, TestIntr
<1>3. CASE \/ SelectSector("main", "rSelect", "rIssue", req.sector)
           \/ SelectSector("main", "wSelect", "wIssue", cache[Slot("main")].sector)
  BY <1>3 DEF SelectSector
<1>4. CASE IssueRead
  <2>1. select = req.sector /\ select # Garbled
    BY <1>4, AloneServing DEF IssueRead, Garbled, Sectors
  <2>2. QED
    BY <1>4, <2>1 DEF IssueRead, Command
<1>5. CASE IssueWrite("main")
  <2>1. select = cache[Slot("main")].sector /\ select # Garbled
    BY <1>5, AloneServing DEF IssueWrite, Garbled, Sectors, SectorCache
  <2>2. QED
    BY <1>5, <2>1 DEF IssueWrite, Command
<1>6. CASE ReadWord
  BY <1>6, AloneReadWord
<1>7. CASE WriteWord("main", "rClear")
  BY <1>7, AloneWriteWord
<1>8. CASE TakeInterrupt \/ IdeIntr
  BY <1>8 DEF TakeInterrupt, IdeIntr
<1>9. QED
  BY <1>1, <1>2, <1>3, <1>4, <1>5, <1>6, <1>7, <1>8 DEF AloneSteps, DiskRead, DiskWrite

\* What a transfer has sent stays sent, and a refill begins after the last word
\* or over a clean slot.
LEMMA AloneSentInStep ==
  ASSUME ~timed, WriterAlone, AloneSteps
  PROVE  SentInStep'
<1> DEFINE c0 == Slot("main")
           before == ReadPositions \ {"rData"}
<1>1. SUFFICES ASSUME at'["main"] \in {"wData"} \cup before
               PROVE  SentInStep'
  BY DEF SentInStep
<1>2. CASE Ask
  BY <1>1, <1>2 DEF Ask, Step, WriterAlone, TypeOK, Actors, ReadPositions
<1>3. CASE ~Ask
  <2>1. /\ at["main"] # "idle" /\ req' = req /\ Slot("main")' = c0
        /\ c0 \in Slots /\ cache[c0] \in SectorCache /\ i["main"] \in Words
    BY <1>1, <1>3, AloneSlot, AloneServing DEF ReadPositions, WriterAlone, TypeOK, Actors
  <2>2. ASSUME cache' = cache, received' = received, i' = i, at'["main"] = at["main"]
        PROVE  SentInStep'
    BY <2>1, <2>2 DEF WriterAlone, SentInStep
  <2>3. ASSUME cache' = cache, received' = received,
               at["main"] \in before, at'["main"] \in before
        PROVE  SentInStep'
    BY <2>1, <2>3 DEF WriterAlone, SentInStep, ReadPositions
  <2>4. CASE Fetch
    <3>1. ~cache[c0].dirty \/ at'["main"] \notin {"wData"} \cup before
      BY <2>1, <2>4 DEF Fetch, Evicts, Step, WriterAlone, TypeOK, DirtyIsUsed, Used, Actors,
         ReadPositions, Slot
    <3>2. at'["main"] # "wData" /\ cache' = cache
      BY <2>4 DEF Fetch, Step, WriterAlone, TypeOK, Actors, kernel
    <3>3. QED
      BY <1>1, <2>1, <3>1, <3>2 DEF SentInStep
  <2>5. CASE IssueWrite("main")
    <3>1. at'["main"] = "wData" /\ i'["main"] = 0
      BY <2>5 DEF IssueWrite, Step, WriterAlone, TypeOK, Actors
    <3>2. \A w \in Words : ~(w < 0)
      BY Sizes DEF Words
    <3>3. QED
      BY <3>1, <3>2 DEF SentInStep, ReadPositions
  <2>6. CASE WriteWord("main", "rClear")
    <3> DEFINE w0 == i["main"]
               s0 == cache[c0].sector
    <3>1. /\ at["main"] = "wData" /\ cache' = cache /\ s0 \in Sectors
          /\ received \in [Sectors -> [Words -> Data]] /\ cache[c0].content \in [Words -> Data]
          /\ received' = [received EXCEPT ![s0][w0] = cache[c0].content[w0]]
      BY <2>1, <2>6, AloneWriteWord DEF WriterAlone, TypeOK, SectorCache, kernel
    <3>2. \A w \in Words : w < w0 => received[s0][w] = cache[c0].content[w]
      BY <3>1 DEF WriterAlone, SentInStep
    <3>3. \A w \in Words : w < w0 + 1 => received'[s0][w] = cache[c0].content[w]
      <4>1. \A w \in Words : w < w0 + 1 => w < w0 \/ w = w0
        <5>1. w0 \in Words
          BY <2>1
        <5> HIDE DEF w0
        <5>2. QED
          BY <5>1, Sizes DEF Words
      <4>2. QED
        BY <2>1, <3>1, <3>2, <4>1
    <3>4. CASE w0 + 1 = WORDS
      <4>1. \A w \in Words : w < w0 + 1
        BY <3>4, Sizes DEF Words
      <4>2. received'[s0] = cache[c0].content
        <5>1. received'[s0] \in [Words -> Data]
          BY <2>1, <3>1
        <5>2. QED
          BY <3>1, <3>3, <4>1, <5>1
      <4>3. at'["main"] = "rClear"
        BY <2>1, <2>6, <3>4, AloneWriteWord DEF WriterAlone, TypeOK, Actors
      <4>4. QED
        BY <2>1, <3>1, <4>2, <4>3 DEF SentInStep
    <3>5. CASE w0 + 1 # WORDS
      <4>1. at'["main"] = "wData" /\ i'["main"] = w0 + 1
        BY <2>1, <2>6, <3>5, AloneWriteWord DEF WriterAlone, TypeOK, Actors
      <4>2. QED
        BY <2>1, <3>1, <3>3, <4>1 DEF SentInStep, ReadPositions
    <3>6. QED
      BY <3>4, <3>5
  <2>7. CASE DiskRead
    BY <1>1, <2>3, <2>7, AloneReadWord DEF DiskRead, ClearIntr, WaitDisk, SelectSector, IssueRead,
       TestIntr, Step, WriterAlone, TypeOK, Actors, ReadPositions, kernel, device
  <2>8. CASE TakeInterrupt \/ IdeIntr
    BY <2>2, <2>8 DEF TakeInterrupt, IdeIntr, kernel, device
  <2>9. CASE ~(Fetch \/ IssueWrite("main") \/ WriteWord("main", "rClear") \/ DiskRead
                \/ TakeInterrupt \/ IdeIntr)
    BY <1>1, <1>3, <2>9 DEF AloneSteps, DiskWrite, Tag, Clean, UseRead, UseWrite, MarkDirty,
       WaitDisk, SelectSector, Step, WriterAlone, TypeOK, Actors, ReadPositions
  <2>10. QED
    BY <2>4, <2>5, <2>6, <2>7, <2>8, <2>9
<1>4. QED
  BY <1>2, <1>3

-----------------------------------------------------------------------------
\* With or without the timer, whatever the handlers do: no step makes the
\* program look before the disk has answered.
LEMMA WriterAnswer ==
  ASSUME at \in [Actors -> MainPositions \cup IsrPositions], has_ide_intr \in BOOLEAN,
         AnswerComes, Next
  PROVE  /\ AnswerComes' /\ has_ide_intr' \in BOOLEAN
         /\ at' \in [Actors -> MainPositions \cup IsrPositions]
<1> USE DEF AnswerComes, Step, MainRuns, kernel, program, device, latch, Actors,
        IDE_VECTOR, TIMER_VECTOR, NoVector, MainPositions, IsrPositions, ReadPositions,
        WritePositions
<1>1. CASE Ask \/ Fetch \/ Tag \/ Clean \/ UseRead \/ UseWrite \/ MarkDirty
  BY <1>1 DEF Ask, Fetch, Tag, Clean, UseRead, UseWrite, MarkDirty
<1>2. CASE ClearIntr("rClear", "rWait") \/ ClearIntr("rAck", "rData")
  <2>1. \/ at' = [at EXCEPT !["main"] = "rWait"]
        \/ at' = [at EXCEPT !["main"] = "rData"]
    BY <1>2 DEF ClearIntr
  <2>2. has_ide_intr' = FALSE /\ halted' = halted
    BY <1>2 DEF ClearIntr
  <2>3. at' \in [Actors -> MainPositions \cup IsrPositions] /\ at'["main"] # "rTest"
    BY <2>1
  <2>4. has_ide_intr' \in BOOLEAN
    BY <2>2, Zenon
  <2>5. AnswerComes'
    BY <2>2, <2>3
  <2>6. QED
    BY <2>3, <2>4, <2>5, Zenon
<1>14. CASE \/ WaitDisk("main", "rWait", "rSelect")
            \/ SelectSector("main", "rSelect", "rIssue", req.sector)
  BY <1>14 DEF WaitDisk, SelectSector
<1>3. CASE IssueRead
  BY <1>3 DEF IssueRead, Latch!Raise
<1>4. CASE TestIntr
  <2>1. has_ide_intr
    BY <1>4 DEF TestIntr
  <2>2. at' = [at EXCEPT !["main"] = "rAck"] /\ halted' = FALSE /\ has_ide_intr' = has_ide_intr
    BY <1>4, <2>1 DEF TestIntr
  <2>3. QED
    BY <2>2
<1>5. CASE ReadWord
  BY <1>5 DEF ReadWord, NextWord
<1>6. ASSUME NEW a \in Actors, NEW q \in {"rClear", "wClean"}, DiskWrite(a, q)
      PROVE  /\ AnswerComes' /\ has_ide_intr' \in BOOLEAN
             /\ at' \in [Actors -> MainPositions \cup IsrPositions]
  <2>1. PICK p \in WritePositions \cup {q} : at' = [at EXCEPT ![a] = p]
    <3>1. CASE WaitDisk(a, "wWait", "wSelect")
      BY <3>1 DEF WaitDisk
    <3>2. CASE SelectSector(a, "wSelect", "wIssue", cache[Slot(a)].sector) \/ IssueWrite(a)
      BY <3>2 DEF SelectSector, IssueWrite
    <3>3. CASE WriteWord(a, q)
      BY <3>3 DEF WriteWord, NextWord
    <3>4. QED
      BY <1>6, <3>1, <3>2, <3>3 DEF DiskWrite
  <2>2. UNCHANGED <<has_ide_intr, halted, pending, taken>>
    BY <1>6 DEF DiskWrite, WaitDisk, SelectSector, IssueWrite, WriteWord
  <2>3. at'["main"] = "rTest" => at["main"] = "rTest"
    BY <2>1
  <2>4. at' \in [Actors -> MainPositions \cup IsrPositions]
    BY <2>1
  <2>5. QED
    BY <2>2, <2>3, <2>4
<1>7. CASE TimerTick
  BY <1>7 DEF TimerTick, Latch!Raise
<1>8. CASE TakeInterrupt
  BY <1>8 DEF TakeInterrupt, Latch!Take
<1>9. CASE IdeIntr
  BY <1>9 DEF IdeIntr, Latch!Dispatch
<1>10. CASE IdeWriteback
  BY <1>10 DEF IdeWriteback, Latch!Dispatch
<1>11. CASE Scan \/ WrittenBack \/ EndOfScan
  BY <1>11 DEF Scan, WrittenBack, EndOfScan
<1>12. CASE Aborted
  BY <1>12 DEF Aborted, vars
<1>13. QED
  BY <1>1, <1>2, <1>3, <1>4, <1>5, <1>6, <1>7, <1>8, <1>9, <1>10, <1>11, <1>12,
     <1>14 DEF Next, Main, Handler, DiskRead

\* At the start no slot is dirty and the program has asked for nothing.
LEMMA WriterInit ==
  ASSUME Init
  PROVE  WriterInv
<1>1. TypeOK
  <2>1. 0 \in Sectors /\ 0 \in Words /\ 0 \in 0..NR_SEC_CACHE /\ 0 \in 0..WRITEBACK
        /\ 0 \in 0..(WORDS + 1)
    BY Sizes DEF Sectors, Words
  <2>2. \A s \in Sectors, w \in Words : Image(s, w) \in Data
    BY DEF Image, Data
  <2>3. cache \in [Slots -> SectorCache]
    BY <2>1, <2>2 DEF Init, SectorCache
  <2>4. received \in [Sectors -> [Words -> Data]] /\ reply \in Data
    BY <2>1, <2>2 DEF Init
  <2>5. at \in [Actors -> MainPositions \cup IsrPositions] /\ i \in [Actors -> Words]
    BY <2>1 DEF Init, Actors, MainPositions, IsrPositions
  <2>6. QED
    BY <2>1, <2>3, <2>4, <2>5 DEF Init, Latch!Init, TypeOK, Actors, MainPositions, IsrPositions
<1>2. at["main"] = "idle" /\ at["isr"] = "none"
  BY DEF Init, Actors
<1>3. WriterAlone
  BY <1>1, <1>2, Zenon DEF Init, Latch!Init, WriterAlone, OnlyTheDisk, ReadyBetween, DirtyIsUsed,
     SentInStep, DeviceAssertions, TransferOwnsDevice, ReadPositions, NoVector, Actors
<1>4. QED
  BY <1>1, <1>2, <1>3 DEF Init, WriterInv, AnswerComes, TypeOK

\* WriterInv holds at every step, with and without a writer or a timer.
THEOREM WriterInvariance == Spec => []WriterInv
<1>1. Init => WriterInv
  BY WriterInit
<1>2. WriterInv /\ [Next]_vars => WriterInv'
  <2>1. CASE WriterInv /\ Next
    <3>1. /\ at' \in [Actors -> MainPositions \cup IsrPositions]
          /\ AnswerComes' /\ has_ide_intr' \in BOOLEAN
      BY <2>1, WriterAnswer DEF WriterInv
    <3>2. ASSUME ~timed'
          PROVE  WriterAlone'
      <4>1. ~timed
        BY <2>1, <3>2 DEF Next, Main, Handler, Ask, Fetch, Tag, Clean, UseRead, UseWrite,
           MarkDirty, DiskRead, DiskWrite, ClearIntr, WaitDisk, SelectSector, IssueRead,
           IssueWrite, TestIntr, ReadWord, WriteWord, TakeInterrupt, IdeIntr, IdeWriteback,
           Scan, WrittenBack, EndOfScan, TimerTick, Aborted, vars, latch
      <4>2. WriterAlone /\ AloneSteps
        BY <2>1, <4>1, OnlyAloneSteps DEF WriterInv
      <4>3. QED
        BY <4>1, <4>2, AloneTypes, AloneKeeps, AloneDirtyIsUsed, AloneSentInStep,
           AloneOwnsDevice DEF WriterAlone
    <3>3. QED
      BY <3>1, <3>2 DEF WriterInv
  <2>2. CASE WriterInv /\ UNCHANGED vars
    BY <2>2 DEF WriterInv, AnswerComes, WriterAlone, TypeOK, OnlyTheDisk, ReadyBetween,
       DirtyIsUsed, Used, SentInStep, DeviceAssertions, TransferOwnsDevice, Slot, vars, kernel,
       program, device, latch
  <2>3. QED
    BY <2>1, <2>2
<1>3. QED
  BY <1>1, <1>2, PTL DEF Spec

\* Without the timer's writeback commands and transfers find the device on
\* their own sector and word, also when slots are evicted.
THEOREM WriterKeepsToItsSector == Spec => [](~timed => TransferOwnsDevice)
<1>1. WriterInv => (~timed => TransferOwnsDevice)
  BY DEF WriterInv, WriterAlone
<1>2. QED
  BY <1>1, WriterInvariance, PTL

\* A dirty slot is refilled only after its content went to the device.
THEOREM NoDirtyWordIsLost == Spec => FillsOverSentOnly
<1>1. WriterInv /\ [Next]_vars => [~timed => FillOverSent]_vars
  BY DEF WriterInv, WriterAlone, SentInStep, FillOverSent, ReadPositions
<1>2. QED
  BY <1>1, WriterInvariance, PTL DEF FillsOverSentOnly, Spec

\* wait_ide_intr never sleeps through its interrupt, whoever writes and whatever
\* the timer's handler does.
THEOREM WriterNeverSleeps == Spec => []NeverHalts
<1>1. WriterInv => NeverHalts
  BY DEF WriterInv, AnswerComes, NeverHalts
<1>2. QED
  BY <1>1, WriterInvariance, PTL
=============================================================================
