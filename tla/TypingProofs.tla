----------------------------- MODULE TypingProofs -----------------------------
(***************************************************************************)
(* Proofs about the keys and the letters of Typing, for any letters, any   *)
(* pool and screen, any number of key events in a poll and any lag of the  *)
(* main loop.                                                              *)
(***************************************************************************)
EXTENDS Typing, FiniteSetTheorems, TLAPS

-----------------------------------------------------------------------------
\* The strokes of a poll are counted; the one that is left in the buffer is one.
LEMMA StrokesAreNat ==
  ASSUME NEW n \in Nat, NEW events, DOMAIN events = 1..n, NEW k
  PROVE  /\ Strokes(events, k) \in Nat
         /\ n \in 1..n /\ events[n] = <<"down", k>> => Strokes(events, k) >= 1
  <1> DEFINE S == {j \in DOMAIN events : events[j] = <<"down", k>>}
  <1>1. IsFiniteSet(1..n) /\ S \subseteq 1..n
    BY FS_Interval
  <1>2. IsFiniteSet(S)
    BY <1>1, FS_Subset
  <1>3. Cardinality(S) \in Nat /\ (Cardinality(S) = 0 <=> S = {})
    BY <1>2, FS_CardinalityType, FS_EmptySet
  <1>4. n \in 1..n /\ events[n] = <<"down", k>> => S # {}
    OBVIOUS
  <1> HIDE DEF S
  <1>5. n \in 1..n /\ events[n] = <<"down", k>> => Cardinality(S) >= 1
    BY <1>3, <1>4
  <1>6. QED
    BY <1>3, <1>5 DEF Strokes, S

LEMMA MarksUnread ==
  ASSUME NEW k
  PROVE  /\ Marks(k) \in {0, 1} /\ Unread(k) \in {0, 1}
         /\ Marks(k)' \in {0, 1} /\ Unread(k)' \in {0, 1}
  BY DEF Marks, Unread

LEMMA KeysInit == TyInit => KeysInv
  <1> SUFFICES ASSUME TyInit PROVE KeysInv
    OBVIOUS
  <1>1. KeyTypes /\ AwakeForInterrupts
    <2>1. letter_pressed \in [Letters -> BOOLEAN] /\ credit \in [Letters -> Int]
      BY DEF TyInit
    <2>2. {IF_, handling} \subseteq BOOLEAN /\ AwakeForInterrupts
      BY DEF TyInit, AwakeForInterrupts
    <2>3. QED
      BY <2>1, <2>2 DEF KeyTypes
  <1>2. ASSUME NEW k \in Letters PROVE Marks(k) = 0 /\ Unread(k) = 0 /\ credit[k] = 0
    BY DEF TyInit, Marks, Unread
  <1>3. QED
    BY <1>1, <1>2 DEF KeysInv, StrokesCounted

-----------------------------------------------------------------------------
LEMMA PollStep == ASSUME KeysInv, Poll PROVE KeysInv'
  <1>0. PICK n \in 1..MaxEvents : \E events \in [1..n -> Scan] :
          /\ scan_code_buf' = events[n] /\ pending' = Raised("keyboard")
          /\ credit' = [k \in Letters |-> credit[k] + Strokes(events, k)]
          /\ UNCHANGED <<IF_, handling, letter_pressed, pc>>
    BY DEF Poll
  <1>1. PICK events \in [1..n -> Scan] :
          /\ scan_code_buf' = events[n] /\ pending' = Raised("keyboard")
          /\ credit' = [k \in Letters |-> credit[k] + Strokes(events, k)]
          /\ UNCHANGED <<IF_, handling, letter_pressed, pc>>
    BY <1>0
  <1>2. n \in Nat /\ n \in 1..n /\ DOMAIN events = 1..n
    BY Game
  <1>3. KeyTypes' /\ AwakeForInterrupts'
    <2>1. \A k \in Letters : Strokes(events, k) \in Nat
      BY <1>2, StrokesAreNat
    <2>2. QED
      BY <1>1, <2>1 DEF KeysInv, KeyTypes, AwakeForInterrupts
  <1>4. ASSUME NEW k \in Letters
        PROVE  IF IF_' \/ handling' THEN credit'[k] >= Marks(k)' /\ credit'[k] >= Unread(k)'
               ELSE credit'[k] >= Marks(k)' + Unread(k)'
    <2>1. Strokes(events, k) \in Nat /\ (Unread(k)' = 1 => Strokes(events, k) >= 1)
      BY <1>1, <1>2, StrokesAreNat DEF Unread
    <2>2. credit'[k] = credit[k] + Strokes(events, k) /\ credit[k] \in Int
      BY <1>1 DEF KeysInv, KeyTypes
    <2>3. Marks(k)' = Marks(k)
      BY <1>1 DEF Marks
    <2>4. CASE IF_ \/ handling
      BY <1>1, <2>1, <2>2, <2>3, <2>4, MarksUnread DEF KeysInv, StrokesCounted
    <2>5. CASE ~(IF_ \/ handling)
      BY <1>1, <2>1, <2>2, <2>3, <2>5, MarksUnread DEF KeysInv, StrokesCounted
    <2>6. QED
      BY <2>4, <2>5
  <1>5. QED
    BY <1>3, <1>4 DEF KeysInv, StrokesCounted

\* Steps that mark nothing, whether or not they take a request.
LEMMA CalmStep ==
  ASSUME KeysInv, KeyTypes', AwakeForInterrupts', UNCHANGED credit,
         \A k \in Letters : Marks(k)' <= Marks(k) /\ Unread(k)' <= Unread(k),
         (IF_' = IF_ /\ handling' = handling) \/ handling' = TRUE
  PROVE  KeysInv'
  <1>1. ASSUME NEW k \in Letters
        PROVE  IF IF_' \/ handling' THEN credit'[k] >= Marks(k)' /\ credit'[k] >= Unread(k)'
               ELSE credit'[k] >= Marks(k)' + Unread(k)'
    <2>1. /\ credit'[k] = credit[k] /\ credit[k] \in Int
          /\ Marks(k)' <= Marks(k) /\ Unread(k)' <= Unread(k)
      BY DEF KeysInv, KeyTypes
    <2>2. CASE IF_ \/ handling
      <3>1. credit[k] >= Marks(k) /\ credit[k] >= Unread(k)
        BY <2>2 DEF KeysInv, StrokesCounted
      <3>2. IF_' \/ handling'
        BY <2>2
      <3>3. QED
        BY <2>1, <3>1, <3>2, MarksUnread
    <2>3. CASE ~(IF_ \/ handling)
      <3>1. credit[k] >= Marks(k) + Unread(k)
        BY <2>3 DEF KeysInv, StrokesCounted
      <3>2. QED
        BY <2>1, <3>1, MarksUnread
    <2>4. QED
      BY <2>2, <2>3
  <1>2. QED
    BY <1>1 DEF KeysInv, StrokesCounted

LEMMA TickStep == ASSUME KeysInv, TimerTick \/ timer_event PROVE KeysInv'
  <1>1. /\ UNCHANGED <<credit, letter_pressed, scan_code_buf, IF_, handling>>
        /\ pending' = "keyboard" => pending = "keyboard"
    BY DEF TimerTick, timer_event, Raised
  <1>2. pc = "keys" => pc' = "keys"
    BY DEF TimerTick, timer_event, Woken
  <1>3. KeyTypes' /\ AwakeForInterrupts'
    BY <1>1, <1>2 DEF KeysInv, KeyTypes, AwakeForInterrupts
  <1>4. \A k \in Letters : Marks(k)' <= Marks(k) /\ Unread(k)' <= Unread(k)
    BY <1>1 DEF Marks, Unread
  <1>5. QED
    BY <1>1, <1>3, <1>4, CalmStep

LEMMA EnterStep == ASSUME KeysInv, EnterKeyboard PROVE KeysInv'
  <1>1. /\ UNCHANGED <<credit, letter_pressed, scan_code_buf, pc>>
        /\ pending = "keyboard" /\ handling' = TRUE /\ IF_' = FALSE
    BY DEF EnterKeyboard
  <1>2. KeyTypes' /\ AwakeForInterrupts'
    BY <1>1 DEF KeysInv, KeyTypes, AwakeForInterrupts
  <1>3. \A k \in Letters : Marks(k)' <= Marks(k) /\ Unread(k)' <= Unread(k)
    BY <1>1 DEF Marks, Unread
  <1>4. QED
    BY <1>1, <1>2, <1>3, CalmStep

\* The handler marks what it reads: one stroke is then marked and perhaps to be
\* read again, but interrupts are on and nothing is hit in between.
LEMMA HandlerStep == ASSUME KeysInv, keyboard_event PROVE KeysInv'
  <1>1. /\ handling /\ handling' = FALSE /\ IF_' = TRUE
        /\ UNCHANGED <<credit, scan_code_buf, pending>>
        /\ letter_pressed' = [k \in Letters |->
                scan_code_buf = <<"down", k>> \/ letter_pressed[k]]
    BY DEF keyboard_event, deviceVars
  <1>2. KeyTypes' /\ AwakeForInterrupts'
    BY <1>1 DEF KeysInv, KeyTypes, AwakeForInterrupts
  <1>3. ASSUME NEW k \in Letters PROVE credit'[k] >= Marks(k)' /\ credit'[k] >= Unread(k)'
    <2>1. credit[k] \in Int /\ credit[k] >= Marks(k) /\ credit[k] >= Unread(k)
      BY <1>1 DEF KeysInv, KeyTypes, StrokesCounted
    <2>2. Unread(k)' <= Unread(k) /\ (Marks(k)' = Marks(k) \/ Marks(k)' = Unread(k))
      <3>1. Unread(k)' <= Unread(k)
        BY <1>1 DEF Unread
      <3>2. CASE scan_code_buf = <<"down", k>>
        <4>1. letter_pressed'[k]
          BY <1>1, <3>2
        <4>2. QED
          BY <1>1, <3>1, <3>2, <4>1 DEF Marks, Unread
      <3>3. CASE scan_code_buf # <<"down", k>>
        <4>1. letter_pressed'[k] <=> letter_pressed[k]
          BY <1>1, <3>3
        <4>2. QED
          BY <3>1, <4>1 DEF Marks
      <3>4. QED
        BY <3>2, <3>3
    <2>3. QED
      BY <1>1, <2>1, <2>2, MarksUnread
  <1>4. QED
    BY <1>1, <1>2, <1>3 DEF KeysInv, StrokesCounted

\* A hit takes the mark away: with interrupts on, nothing was to be read.
LEMMA HitStep == ASSUME KeysInv, update_keypress PROVE KeysInv'
  <1>1. /\ pc = "keys" /\ ~handling /\ (IF_ => pending = "none")
        /\ UNCHANGED <<scan_code_buf, pending, handling>>
    BY DEF update_keypress, Runs, deviceVars
  <1>2. CASE Targets = {}
    <2>1. IF_' = TRUE /\ UNCHANGED <<letter_pressed, credit>>
      BY <1>2 DEF update_keypress, InterruptsAfterKeys, Lowest
    <2>2. KeyTypes' /\ AwakeForInterrupts'
      BY <1>1, <2>1 DEF KeysInv, KeyTypes, AwakeForInterrupts
    <2>3. ASSUME NEW k \in Letters PROVE credit'[k] >= Marks(k)' /\ credit'[k] >= Unread(k)'
      <3>1. credit'[k] = credit[k] /\ credit[k] \in Int /\ Marks(k)' = Marks(k)
            /\ Unread(k)' = Unread(k)
        BY <1>1, <2>1 DEF KeysInv, KeyTypes, Marks, Unread
      <3>2. \/ credit[k] >= Marks(k) + Unread(k)
            \/ credit[k] >= Marks(k) /\ credit[k] >= Unread(k)
        <4>1. CASE IF_ \/ handling
          BY <4>1 DEF KeysInv, StrokesCounted
        <4>2. CASE ~(IF_ \/ handling)
          BY <4>2 DEF KeysInv, StrokesCounted
        <4>3. QED
          BY <4>1, <4>2
      <3>3. QED
        BY <3>1, <3>2, MarksUnread
    <2>4. QED
      BY <2>1, <2>2, <2>3 DEF KeysInv, StrokesCounted
  <1>3. CASE Targets # {}
    <2>0. PICK c \in Lowest :
          /\ letter_pressed' = release_key(list.fly[c].text)
          /\ credit' = [credit EXCEPT ![list.fly[c].text] = @ - 1] /\ pc' = pc
      BY <1>3 DEF update_keypress
    <2> DEFINE h == list.fly[c].text
    <2>1. /\ IF_' = FALSE /\ pc' = pc
          /\ letter_pressed' = [letter_pressed EXCEPT ![h] = FALSE]
          /\ credit' = [credit EXCEPT ![h] = @ - 1]
      BY <1>3, <2>0 DEF update_keypress, InterruptsAfterKeys, release_key
    <2>3. letter_pressed[h]
      BY DEF Lowest, Targets
    <2> HIDE DEF h
    <2>4. KeyTypes' /\ AwakeForInterrupts'
      <3>1. letter_pressed' \in [Letters -> BOOLEAN] /\ credit' \in [Letters -> Int]
        <4>1. letter_pressed \in [Letters -> BOOLEAN] /\ credit \in [Letters -> Int]
          BY DEF KeysInv, KeyTypes
        <4>2. letter_pressed' \in [Letters -> BOOLEAN]
          BY <2>1, <4>1
        <4>3. credit' \in [Letters -> Int]
          <5>1. \A l \in Letters : credit[l] - 1 \in Int
            BY <4>1
          <5>2. credit' = [l \in Letters |-> IF l = h THEN credit[l] - 1 ELSE credit[l]]
            BY <2>1, <4>1
          <5>3. QED
            BY <4>1, <5>1, <5>2
        <4>4. QED
          BY <4>2, <4>3
      <3>2. {IF_', handling'} \subseteq BOOLEAN
        BY <1>1, <2>1 DEF KeysInv, KeyTypes
      <3>3. pc' = "keys"
        BY <1>1, <2>1
      <3>4. QED
        BY <3>1, <3>2, <3>3 DEF KeyTypes, AwakeForInterrupts
    <2>5. ASSUME NEW k \in Letters PROVE credit'[k] >= Marks(k)' + Unread(k)'
      <3>1. credit[k] \in Int /\ Unread(k)' = Unread(k)
        BY <1>1 DEF KeysInv, KeyTypes, Unread
      <3>2. credit[k] >= Marks(k) + Unread(k)
        <4>1. CASE IF_
          <5>1. Unread(k) = 0
            BY <1>1, <4>1 DEF Unread
          <5>2. credit[k] >= Marks(k)
            BY <4>1 DEF KeysInv, StrokesCounted
          <5>3. QED
            BY <3>1, <5>1, <5>2, MarksUnread
        <4>2. CASE ~IF_
          BY <1>1, <4>2 DEF KeysInv, StrokesCounted
        <4>3. QED
          BY <4>1, <4>2
      <3>3. CASE k = h
        <4>1. Marks(k) = 1 /\ Marks(k)' = 0 /\ credit'[k] = credit[k] - 1
          BY <2>1, <2>3, <3>3 DEF Marks, KeysInv, KeyTypes
        <4>2. QED
          BY <3>1, <3>2, <4>1, MarksUnread
      <3>4. CASE k # h
        <4>1. Marks(k)' = Marks(k) /\ credit'[k] = credit[k]
          BY <2>1, <3>4 DEF Marks, KeysInv, KeyTypes
        <4>2. QED
          BY <3>1, <3>2, <4>1
      <3>5. QED
        BY <3>3, <3>4
    <2>6. QED
      BY <1>1, <2>1, <2>4, <2>5 DEF KeysInv, StrokesCounted
  <1>4. QED
    BY <1>2, <1>3

\* The rest of the main loop hits nothing; a new letter takes its mark away.
LEMMA LoopStep ==
  ASSUME KeysInv, wait_intr \/ Compare \/ BeginFrame \/ MoveLetter \/ EndFrame \/ Redrawn
  PROVE  KeysInv'
  <1>1. /\ UNCHANGED <<credit, scan_code_buf, pending, IF_, handling>>
        /\ pc # "keys" /\ ~handling
    BY DEF wait_intr, Compare, BeginFrame, MoveLetter, EndFrame, Redrawn, deviceVars, Runs
  <1>2. letter_pressed' = letter_pressed
        \/ \E k \in Letters : letter_pressed' = [letter_pressed EXCEPT ![k] = FALSE]
    BY DEF wait_intr, Compare, BeginFrame, MoveLetter, EndFrame, Redrawn, release_key
  <1>3. KeyTypes'
    BY <1>1, <1>2 DEF KeysInv, KeyTypes
  <1>4. IF_ /\ AwakeForInterrupts'
    BY <1>1 DEF KeysInv, KeyTypes, AwakeForInterrupts
  <1>5. \A k \in Letters : Marks(k)' <= Marks(k) /\ Unread(k)' <= Unread(k)
    <2>1. \A k \in Letters : letter_pressed'[k] => letter_pressed[k]
      BY <1>2 DEF KeysInv, KeyTypes
    <2>2. QED
      BY <1>1, <2>1 DEF Marks, Unread
  <1>6. QED
    BY <1>1, <1>3, <1>4, <1>5, CalmStep

LEMMA KeysStep == KeysInv /\ [TyNext]_tyVars => KeysInv'
  <1> SUFFICES ASSUME KeysInv, [TyNext]_tyVars PROVE KeysInv'
    OBVIOUS
  <1>1. CASE TimerTick \/ timer_event
    BY <1>1, TickStep
  <1>2. CASE Poll
    BY <1>2, PollStep
  <1>3. CASE EnterKeyboard
    BY <1>3, EnterStep
  <1>4. CASE keyboard_event
    BY <1>4, HandlerStep
  <1>5. CASE update_keypress
    BY <1>5, HitStep
  <1>6. CASE wait_intr \/ Compare \/ BeginFrame \/ MoveLetter \/ EndFrame \/ Redrawn
    BY <1>6, LoopStep
  <1>7. CASE UNCHANGED tyVars
    BY <1>7 DEF tyVars, deviceVars, KeysInv, KeyTypes, AwakeForInterrupts, StrokesCounted,
                Marks, Unread
  <1>8. QED
    BY <1>1, <1>2, <1>3, <1>4, <1>5, <1>6, <1>7 DEF TyNext, Handlers, MainLoop

-----------------------------------------------------------------------------
\* Strokes that count are marked or about to be read, and interrupts are off in
\* a handler and between two hits only (keyboard.c, game.c:36-100).
THEOREM KeysInvariance == TySpec => []KeysInv
  <1>1. QED
    BY KeysInit, KeysStep, PTL DEF TySpec

\* A key stroke hits one letter at most, however polls, interrupts and hits are
\* interleaved and however often its scan code is read.
THEOREM OneHitAStroke == TySpec => []OneStrokeOneHit
  <1>1. KeysInv => OneStrokeOneHit
    <2> SUFFICES ASSUME KeysInv, NEW k \in Letters PROVE credit[k] >= 0
      BY DEF OneStrokeOneHit
    <2>1. credit[k] \in Int
      BY DEF KeysInv, KeyTypes
    <2>2. credit[k] >= Marks(k) \/ credit[k] >= Marks(k) + Unread(k)
      BY DEF KeysInv, StrokesCounted
    <2>3. QED
      BY <2>1, <2>2, MarksUnread
  <1>2. QED
    BY <1>1, KeysInvariance, PTL

-----------------------------------------------------------------------------
(***************************************************************************)
(* The letters on the screen.  Their cells have an order, which a new      *)
(* letter enters at the head and a letter that leaves quits anywhere; a    *)
(* chain of the list is a stretch of that order.  The ages of the letters  *)
(* are bounded from below by their places in it and from above by their    *)
(* heights, so there are never more of them than one lifetime holds.       *)
(***************************************************************************)

\* A set of numbers has a least one, by which places in the order are found.
LEMMA Least ==
  ASSUME NEW S \in SUBSET Nat, S # {}
  PROVE  \E x \in S : \A y \in S : x <= y
  <1>1. PICK x \in S : \A y \in S : ~(<<y, x>> \in OpToRel(<, Nat))
    <2>1. IsWellFoundedOn(OpToRel(<, Nat), Nat)
      BY NatLessThanWellFounded
    <2> DEFINE R == OpToRel(<, Nat)
    <2> HIDE DEF R
    <2>2. IsWellFoundedOn(R, Nat)
      BY <2>1 DEF R
    <2>3. \E x \in S : \A y \in S : ~(<<y, x>> \in R)
      BY <2>2, WFMin
    <2>4. QED
      BY <2>3 DEF R
  <1>2. \A y \in S : ~(y < x)
    BY <1>1 DEF OpToRel
  <1>3. QED
    BY <1>2

LEMMA Bounds ==
  /\ POOL \in Nat \ {0} /\ PERIOD \in Nat \ {0} /\ LOW \in Nat \ {0} /\ RISE \in Nat \ {0}
  /\ MaxLag \in Nat \ {0} /\ NULL \notin Cells /\ Idle.text \in Letters
  /\ \A i : i \in Cells <=> i \in Nat /\ 1 <= i /\ i <= POOL
  <1>1. {POOL, PERIOD, LOW, RISE, MaxLag, MaxEvents} \subseteq Nat \ {0} /\ \E k : k \in Letters
    BY Game
  <1>2. Idle.text \in Letters
    BY <1>1, Zenon DEF Idle
  <1>3. QED
    BY <1>1, <1>2 DEF Cells, NULL

Links == [Cells -> Cells \cup {NULL}]

\* The chain from the a-th cell on is the rest of the order, as far as the links go.
LEMMA ChainIs ==
  ASSUME NEW p \in [Cells -> Cells], NEW nx \in Links, NEW a \in Cells, NEW b \in 0..POOL,
         \A i \in a..b : nx[p[i]] = IF i = b THEN NULL ELSE p[i + 1]
  PROVE  \A d : d \in Chain(nx, IF a > b THEN NULL ELSE p[a]) <=> \E i \in a..b : d = p[i]
  <1> DEFINE U == {p[i] : i \in a..b}
             c == IF a > b THEN NULL ELSE p[a]
  <1>0. a..b \subseteq Cells /\ a \in Nat /\ b \in Nat
    BY Bounds
  <1>1. U \in SUBSET Cells
    BY <1>0
  <1>2. c \in U \cup {NULL} /\ \A e \in U : nx[e] \in U \cup {NULL}
    <2>1. c \in U \cup {NULL}
      BY <1>0
    <2>2. ASSUME NEW i \in a..b PROVE nx[p[i]] \in U \cup {NULL}
      <3>1. CASE i = b
        BY <3>1
      <3>2. CASE i # b
        <4>1. i + 1 \in a..b /\ nx[p[i]] = p[i + 1]
          BY <1>0, <3>2
        <4>2. QED
          BY <4>1
      <3>3. QED
        BY <3>1, <3>2
    <2>3. QED
      BY <2>1, <2>2
  <1>3. ASSUME NEW S \in SUBSET Cells, c \in S \cup {NULL},
               \A e \in S : nx[e] \in S \cup {NULL}
        PROVE  \A i \in a..b : p[i] \in S
    <2> DEFINE B == {i \in a..b : p[i] \notin S}
    <2> SUFFICES ASSUME B # {} PROVE FALSE
      OBVIOUS
    <2>1. B \in SUBSET Nat
      BY <1>0
    <2>2. PICK i \in B : \A j \in B : i <= j
      BY <2>1, Least
    <2>3. i \in a..b /\ p[i] \notin S
      OBVIOUS
    <2>4. p[i] \in Cells /\ p[i] # NULL
      BY <1>0, <2>3, Bounds
    <2>5. i # a
      BY <1>0, <1>3, <2>3, <2>4
    <2>6. i - 1 \in a..b /\ i - 1 # b /\ (i - 1) + 1 = i
      BY <1>0, <2>3, <2>5
    <2>7. p[i - 1] \in S
      BY <1>0, <2>2, <2>3, <2>6
    <2>8. nx[p[i - 1]] = p[i]
      BY <2>6
    <2>9. QED
      BY <1>3, <2>3, <2>4, <2>7, <2>8
  <1> HIDE DEF U, c
  <1>4. Chain(nx, c) \subseteq U
    BY <1>1, <1>2 DEF Chain
  <1>5. U \subseteq Chain(nx, c)
    BY <1>1, <1>3 DEF Chain, U
  <1>6. QED
    BY <1>4, <1>5 DEF U, c

ListState == [next : Links, prev : Links, head : Cells \cup {NULL}, free : Cells \cup {NULL},
              fly : [Cells -> [x : 0..LOW, v : {0, 1, -RISE}, text : Letters]]]

LEMMA LinkedIsSound ==
  ASSUME NEW st \in ListState, NEW p \in [Cells -> Cells], NEW m \in 0..(POOL - 1), Linked(st, p, m)
  PROVE  /\ Chain(st.next, st.head) = {p[i] : i \in 1..m}
         /\ \A c \in Chain(st.next, st.head) : st.prev[c] = NULL <=> c = st.head
         /\ \A c \in Chain(st.next, st.head) : st.next[c] # NULL => st.prev[st.next[c]] = c
         /\ st.free # NULL =>
              /\ Chain(st.next, st.head) \cap Chain(st.next, st.free) = {}
              /\ Chain(st.next, st.head) \cup Chain(st.next, st.free) = Cells
  <1>0. /\ st.next \in Links /\ m \in Nat /\ m \in 0..POOL /\ 1 \in Cells /\ POOL \in Nat
        /\ 1..m \subseteq Cells /\ m + 1 \in Cells /\ POOL \in 0..POOL /\ \A i \in Cells : i \in Nat
    BY Bounds DEF ListState
  <1>1. Chain(st.next, st.head) = {p[i] : i \in 1..m}
    <2>1. st.head = IF 1 > m THEN NULL ELSE p[1]
      BY <1>0 DEF Linked
    <2>2. Chain(st.next, IF 1 > m THEN NULL ELSE p[1]) = {p[i] : i \in 1..m}
      <3>1. \A i \in 1..m : st.next[p[i]] = IF i = m THEN NULL ELSE p[i + 1]
        BY DEF Linked
      <3>2. QED
        <4>1. \A d : d \in Chain(st.next, IF 1 > m THEN NULL ELSE p[1]) <=> \E i \in 1..m : d = p[i]
          BY <1>0, <3>1, ChainIs
        <4>2. QED
          BY <4>1
    <2>3. QED
      BY <2>1, <2>2
  <1>2. ASSUME NEW i \in 1..m
        PROVE  /\ st.prev[p[i]] = NULL <=> p[i] = st.head
               /\ st.next[p[i]] # NULL => st.prev[st.next[p[i]]] = p[i]
    <2>1. i \in Cells /\ i \in Nat /\ p[i] \in Cells /\ st.head = p[1]
      BY <1>0 DEF Linked
    <2>2. st.prev[p[i]] = IF i = 1 THEN NULL ELSE p[i - 1]
      BY DEF Linked
    <2>3. CASE i = 1
      <3>1. st.prev[p[i]] = NULL /\ p[i] = st.head
        BY <2>1, <2>2, <2>3
      <3>2. st.next[p[i]] # NULL => st.prev[st.next[p[i]]] = p[i]
        <4>1. SUFFICES ASSUME st.next[p[i]] # NULL PROVE st.prev[st.next[p[i]]] = p[i]
          OBVIOUS
        <4>2. i # m /\ st.next[p[i]] = p[i + 1]
          BY <4>1 DEF Linked
        <4>3. i + 1 \in 1..m /\ i + 1 # 1 /\ (i + 1) - 1 = i
          BY <1>0, <2>1, <4>2
        <4>4. st.prev[p[i + 1]] = p[i]
          BY <4>3 DEF Linked
        <4>5. QED
          BY <4>2, <4>4
      <3>3. QED
        BY <3>1, <3>2
    <2>4. CASE i # 1
      <3>1. st.prev[p[i]] # NULL /\ p[i] # st.head
        <4>1. i - 1 \in Cells
          BY <1>0, <2>1, <2>4, Bounds
        <4>2. p[i - 1] \in Cells /\ p[i] # p[1]
          BY <1>0, <2>1, <2>4, <4>1 DEF Linked
        <4>3. QED
          BY <2>1, <2>2, <2>4, <4>2, Bounds
      <3>2. st.next[p[i]] # NULL => st.prev[st.next[p[i]]] = p[i]
        <4>1. SUFFICES ASSUME st.next[p[i]] # NULL PROVE st.prev[st.next[p[i]]] = p[i]
          OBVIOUS
        <4>2. i # m /\ st.next[p[i]] = p[i + 1]
          BY <4>1 DEF Linked
        <4>3. i + 1 \in 1..m /\ i + 1 # 1 /\ (i + 1) - 1 = i
          BY <1>0, <2>1, <4>2
        <4>4. st.prev[p[i + 1]] = p[i]
          BY <4>3 DEF Linked
        <4>5. QED
          BY <4>2, <4>4
      <3>3. QED
        BY <3>1, <3>2
    <2>5. QED
      BY <2>3, <2>4
  <1>3. ASSUME st.free # NULL
        PROVE  /\ Chain(st.next, st.head) \cap Chain(st.next, st.free) = {}
               /\ Chain(st.next, st.head) \cup Chain(st.next, st.free) = Cells
    <2>1. Chain(st.next, st.free) = {p[i] : i \in (m + 1)..POOL}
      <3>1. st.free = IF m + 1 > POOL THEN NULL ELSE p[m + 1]
        BY <1>0, <1>3, Bounds DEF Linked
      <3>2. Chain(st.next, IF m + 1 > POOL THEN NULL ELSE p[m + 1]) = {p[i] : i \in (m + 1)..POOL}
        <4>1. \A i \in (m + 1)..POOL : st.next[p[i]] = IF i = POOL THEN NULL ELSE p[i + 1]
          BY <1>3 DEF Linked
        <4>2. QED
          <5>1. \A d : d \in Chain(st.next, IF m + 1 > POOL THEN NULL ELSE p[m + 1])
                         <=> \E i \in (m + 1)..POOL : d = p[i]
            BY <1>0, <4>1, ChainIs
          <5>2. QED
            BY <5>1
      <3>3. QED
        BY <3>1, <3>2
    <2>2. ASSUME NEW i \in 1..m, NEW j \in (m + 1)..POOL PROVE p[i] # p[j]
      <3>1. i \in Cells /\ j \in Cells /\ i # j
        BY <1>0, Bounds
      <3>2. QED
        BY <3>1 DEF Linked
    <2>3. ASSUME NEW c \in Cells PROVE c \in {p[i] : i \in 1..m} \cup {p[i] : i \in (m + 1)..POOL}
      <3>1. PICK i \in Cells : p[i] = c
        BY DEF Linked
      <3>2. i \in 1..m \/ i \in (m + 1)..POOL
        BY <1>0, Bounds
      <3>3. QED
        BY <3>1, <3>2
    <2>4. (m + 1)..POOL \subseteq Cells
      BY <1>0, Bounds
    <2>5. QED
      BY <1>0, <1>1, <2>1, <2>2, <2>3, <2>4
  <1>4. QED
    BY <1>1, <1>2, <1>3

\* The pool is linked when it is first used.
LEMMA PooledIs ==
  ASSUME NEW st \in ListState, NEW p \in [Cells -> Cells], NEW m \in 0..(POOL - 1), Linked(st, p, m)
  PROVE  /\ Pooled(st) \in ListState /\ Pooled(st).free # NULL
         /\ Pooled(st).fly = st.fly /\ Pooled(st).head = st.head
         /\ \E q \in [Cells -> Cells] : /\ Linked(Pooled(st), q, m)
                                        /\ \A i \in 1..m : q[i] = p[i]
  <1>1. CASE st.free # NULL
    BY <1>1 DEF Pooled
  <1>2. CASE st.free = NULL
    <2> DEFINE q == [i \in Cells |-> i]
               nx == [c \in Cells |-> IF c < POOL THEN c + 1 ELSE NULL]
    <2>1. m = 0 /\ st.head = NULL
      BY <1>2 DEF Linked
    <2>2. Pooled(st) = [st EXCEPT !.next = nx, !.free = 1]
      BY <1>2 DEF Pooled
    <2>3. nx \in Links /\ 1 \in Cells /\ POOL \in Nat
      BY Bounds DEF Links
    <2>4. /\ Pooled(st) \in ListState /\ Pooled(st).free = 1 /\ Pooled(st).next = nx
          /\ Pooled(st).fly = st.fly /\ Pooled(st).head = st.head
      BY <2>2, <2>3 DEF ListState
    <2>5. /\ \A c \in Cells : \E i \in Cells : q[i] = c
          /\ \A i, j \in Cells : q[i] = q[j] => i = j
      OBVIOUS
    <2>6. q[0 + 1] = 1 /\ \A i \in 1..POOL : nx[q[i]] = IF i = POOL THEN NULL ELSE q[i + 1]
      BY <2>3, Bounds
    <2>7. Linked(Pooled(st), q, m)
      <3> HIDE DEF q, nx
      <3>1. Pooled(st).free # NULL
        BY <2>4, Bounds
      <3>2. \A i \in 1..m : FALSE
        BY <2>1
      <3>3. \A i \in (m + 1)..POOL : Pooled(st).next[q[i]] = IF i = POOL THEN NULL ELSE q[i + 1]
        BY <2>1, <2>4, <2>6
      <3>4. QED
        BY <2>1, <2>4, <2>5, <2>6, <3>1, <3>2, <3>3 DEF Linked
    <2>8. q \in [Cells -> Cells] /\ \A i \in 1..m : q[i] = p[i]
      BY <2>1
    <2>9. QED
      BY <2>4, <2>7, <2>8, Bounds
  <1>3. QED
    BY <1>1, <1>2

\* A new letter takes the first free cell and comes before the others.
Fronted(q, m) == [i \in Cells |-> IF i = 1 THEN q[m + 1] ELSE IF i <= m + 1 THEN q[i - 1] ELSE q[i]]

LEMMA CreatedIs ==
  ASSUME NEW st \in ListState, NEW q \in [Cells -> Cells], NEW m \in 0..(POOL - 1), Linked(st, q, m),
         st.free # NULL, st.next[st.free] # NULL, NEW k \in Letters, NEW new,
         new = [next |-> [st.next EXCEPT ![st.free] = st.head],
                prev |-> [d \in Cells |->
                    IF d = st.free THEN NULL ELSE IF d = st.head THEN st.free ELSE st.prev[d]],
                head |-> st.free, free |-> st.next[st.free],
                fly  |-> [st.fly EXCEPT ![st.free] = [x |-> 0, v |-> 1, text |-> k]]]
  PROVE  /\ new \in ListState /\ m + 1 \in 0..(POOL - 1) /\ Fronted(q, m) \in [Cells -> Cells]
         /\ Linked(new, Fronted(q, m), m + 1)
  <1> DEFINE r == Fronted(q, m)
             c == st.free
  <1>0. /\ m \in Nat /\ m + 1 \in Cells /\ POOL \in Nat /\ c = q[m + 1] /\ c \in Cells
        /\ 1 \in Cells /\ 1..m \subseteq Cells /\ st.next \in Links /\ st.prev \in Links
        /\ st.head \in Cells \cup {NULL} /\ \A i \in Cells : i \in 1..POOL
    <2>1. /\ m \in Nat /\ m + 1 \in Cells /\ POOL \in Nat /\ 1 \in Cells
          /\ 1..m \subseteq Cells /\ \A i \in Cells : i \in 1..POOL
      BY Bounds
    <2>2. st.next \in Links /\ st.prev \in Links /\ st.head \in Cells \cup {NULL}
      BY DEF ListState
    <2>3. c = q[m + 1]
      BY DEF Linked
    <2>4. QED
      BY <2>1, <2>2, <2>3
  <1>1. m + 1 # POOL /\ st.next[c] = q[m + 2] /\ m + 2 \in Cells
    <2>1. m + 1 \in (m + 1)..POOL /\ (m + 1) + 1 = m + 2
      BY <1>0, Bounds
    <2>2. st.next[q[m + 1]] = IF m + 1 = POOL THEN NULL ELSE q[m + 2]
      BY <2>1 DEF Linked
    <2>3. QED
      BY <1>0, <2>2, Bounds
  <1>2. new \in ListState
    <2>1. [st.next EXCEPT ![c] = st.head] \in Links
      BY <1>0 DEF Links
    <2>2. [d \in Cells |-> IF d = c THEN NULL ELSE IF d = st.head THEN c ELSE st.prev[d]] \in Links
      BY <1>0 DEF Links
    <2>3. [st.fly EXCEPT ![c] = [x |-> 0, v |-> 1, text |-> k]]
            \in [Cells -> [x : 0..LOW, v : {0, 1, -RISE}, text : Letters]]
      BY <1>0, Bounds DEF ListState
    <2>4. c \in Cells /\ st.next[c] \in Cells \cup {NULL}
      BY <1>0 DEF Links
    <2> HIDE DEF c
    <2>5. QED
      BY <2>1, <2>2, <2>3, <2>4 DEF ListState, c
  <1>3. r \in [Cells -> Cells]
    BY <1>0, Bounds DEF Fronted
  <1>4. \A i \in Cells : r[i] = IF i = 1 THEN c ELSE IF i <= m + 1 THEN q[i - 1] ELSE q[i]
    BY <1>0 DEF Fronted
  <1> HIDE DEF r
  <1>5. \A d \in Cells : \E i \in Cells : r[i] = d
    <2> TAKE d \in Cells
    <2>1. PICK i \in Cells : q[i] = d
      BY DEF Linked
    <2>2. CASE i = m + 1
      BY <1>0, <1>4, <2>1, <2>2
    <2>3. CASE i < m + 1
      <3>1. i + 1 \in Cells /\ (i + 1) - 1 = i /\ i + 1 # 1 /\ i + 1 <= m + 1
        BY <1>0, <2>3, Bounds
      <3>2. QED
        BY <1>4, <2>1, <3>1
    <2>4. CASE i > m + 1
      <3>1. i # 1 /\ ~(i <= m + 1)
        BY <1>0, <2>4
      <3>2. QED
        BY <1>4, <2>1, <3>1
    <2>5. QED
      BY <1>0, <2>2, <2>3, <2>4
  <1>6. \A i, j \in Cells : r[i] = r[j] => i = j
    <2> DEFINE w(i) == IF i = 1 THEN m + 1 ELSE IF i <= m + 1 THEN i - 1 ELSE i
    <2>1. \A i \in Cells : w(i) \in Cells /\ r[i] = q[w(i)]
      BY <1>0, <1>4, Bounds
    <2>2. \A i, j \in Cells : w(i) = w(j) => i = j
      BY <1>0
    <2> HIDE DEF w
    <2>3. QED
      BY <2>1, <2>2 DEF Linked
  <1>7. ASSUME NEW i \in 1..(m + 1)
        PROVE  /\ new.prev[r[i]] = IF i = 1 THEN NULL ELSE r[i - 1]
               /\ new.next[r[i]] = IF i = m + 1 THEN NULL ELSE r[i + 1]
    <2>0. i \in Cells /\ m + 1 \in Cells
      BY <1>0, <1>1, Bounds
    <2>1. CASE i = 1
      <3>1. new.prev[r[i]] = NULL /\ new.next[r[i]] = st.head
        BY <1>0, <1>4, <2>0, <2>1 DEF Links
      <3>2. m = 0 => st.head = NULL
        BY DEF Linked
      <3>3. m # 0 => st.head = q[1] /\ 2 \in Cells /\ r[2] = q[1]
        BY <1>0, <1>1, <1>4, Bounds DEF Linked
      <3>4. QED
        BY <1>0, <2>1, <3>1, <3>2, <3>3
    <2>2. CASE i # 1
      <3>1. i - 1 \in 1..m /\ i - 1 \in Cells /\ r[i] = q[i - 1] /\ m # 0 /\ st.head = q[1]
        BY <1>0, <1>4, <2>0, <2>2, Bounds DEF Linked
      <3>2. r[i] # c
        BY <1>0, <3>1 DEF Linked
      <3>3. r[i] \in Cells /\ new.prev[r[i]] = (IF r[i] = st.head THEN c ELSE st.prev[r[i]])
            /\ new.next[r[i]] = st.next[r[i]]
        BY <1>0, <3>1, <3>2 DEF Links
      <3>4. st.prev[r[i]] = IF i - 1 = 1 THEN NULL ELSE q[(i - 1) - 1]
        BY <3>1 DEF Linked
      <3>5. st.next[r[i]] = IF i - 1 = m THEN NULL ELSE q[(i - 1) + 1]
        BY <3>1 DEF Linked
      <3>6. r[i] = st.head <=> i = 2
        BY <1>0, <2>0, <3>1 DEF Linked
      <3>7. new.prev[r[i]] = r[i - 1]
        <4>1. CASE i = 2
          BY <1>0, <1>4, <3>3, <3>6, <4>1
        <4>2. CASE i # 2
          BY <1>0, <1>4, <3>1, <3>3, <3>4, <3>6, <4>2
        <4>3. QED
          BY <4>1, <4>2
      <3>8. new.next[r[i]] = IF i = m + 1 THEN NULL ELSE r[i + 1]
        BY <1>0, <1>4, <2>0, <2>2, <3>3, <3>5, Bounds
      <3>9. QED
        BY <2>2, <3>7, <3>8
    <2>3. QED
      BY <2>1, <2>2
  <1>8. ASSUME NEW i \in (m + 2)..POOL
        PROVE  new.next[r[i]] = IF i = POOL THEN NULL ELSE r[i + 1]
    <2>1. i \in Cells /\ i \in (m + 1)..POOL /\ r[i] = q[i] /\ i # m + 1
      BY <1>0, <1>1, <1>4, Bounds
    <2>2. r[i] # c
      BY <1>0, <2>1 DEF Linked
    <2>3. new.next[r[i]] = st.next[q[i]]
      BY <1>0, <2>1, <2>2 DEF Links
    <2>4. st.next[q[i]] = IF i = POOL THEN NULL ELSE q[i + 1]
      BY <1>0, <2>1, Bounds DEF Linked
    <2>5. i # POOL => i + 1 \in Cells /\ r[i + 1] = q[i + 1]
      BY <1>0, <1>4, <2>1, Bounds
    <2>6. QED
      BY <2>3, <2>4, <2>5
  <1>9. new.head = r[1] /\ new.free = r[m + 2] /\ new.free # NULL
    BY <1>0, <1>1, <1>4, Bounds
  <1>10. Linked(new, r, m + 1)
    <2>1. m + 1 # 0 /\ (m + 1) + 1 = m + 2
      BY <1>0
    <2> HIDE DEF c
    <2>2. QED
      BY <1>5, <1>6, <1>7, <1>8, <1>9, <2>1 DEF Linked
  <1>11. QED
    BY <1>0, <1>1, <1>2, <1>3, <1>10, Bounds DEF r

\* A letter that leaves is the first free cell, and the letters behind it move up.
Taken(p, m, k) ==
    [i \in Cells |-> IF i = m THEN p[k] ELSE IF k <= i /\ i < m THEN p[i + 1] ELSE p[i]]

LEMMA RemovedIs ==
  ASSUME NEW st \in ListState, NEW p \in [Cells -> Cells], NEW m \in 0..(POOL - 1), Linked(st, p, m),
         NEW k \in 1..m
  PROVE  /\ Remove(st, p[k]) \in ListState /\ m - 1 \in 0..(POOL - 1)
         /\ Taken(p, m, k) \in [Cells -> Cells]
         /\ Linked(Remove(st, p[k]), Taken(p, m, k), m - 1)
  <1> DEFINE q == Taken(p, m, k)
             c == p[k]
             new == Remove(st, c)
  <1>0. /\ m \in Nat /\ m \in Cells /\ k \in Nat /\ k \in Cells /\ POOL \in Nat /\ m < POOL
        /\ m + 1 \in Cells /\ c \in Cells /\ 1 \in Cells /\ 1 <= k /\ k <= m
        /\ \A i \in 1..m : i \in Cells
    BY Bounds
  <1>1. /\ st.next \in Links /\ st.prev \in Links /\ st.head = p[1]
        /\ st.free = p[m + 1] /\ st.free \in Cells
    <2>1. st.next \in Links /\ st.prev \in Links
      BY DEF ListState
    <2>2. st.free # NULL /\ st.head = p[1]
      BY <1>0 DEF Linked
    <2>3. st.free = p[m + 1]
      BY <2>2 DEF Linked
    <2>4. QED
      BY <1>0, <2>1, <2>2, <2>3
  <1>2. /\ new.next = [d \in Cells |-> IF d = c THEN st.free
                               ELSE IF d = st.prev[c] THEN st.next[c] ELSE st.next[d]]
        /\ new.prev = [d \in Cells |-> IF d = c THEN NULL
                               ELSE IF d = st.next[c] THEN st.prev[c] ELSE st.prev[d]]
        /\ new.head = (IF st.head = c THEN st.next[c] ELSE st.head) /\ new.free = c
        /\ new.fly = [st.fly EXCEPT ![c] = Idle]
    BY DEF Remove
  <1>3. new \in ListState
    <2>1. new.next \in Links /\ new.prev \in Links
      <3>1. /\ st.next[c] \in Cells \cup {NULL} /\ st.prev[c] \in Cells \cup {NULL}
            /\ \A d \in Cells : st.next[d] \in Cells \cup {NULL} /\ st.prev[d] \in Cells \cup {NULL}
        BY <1>0, <1>1 DEF Links
      <3> HIDE DEF c, new
      <3>2. QED
        BY <1>0, <1>1, <1>2, <3>1 DEF Links
    <2>2. new.head \in Cells \cup {NULL} /\ new.free \in Cells
      BY <1>0, <1>1, <1>2, ZenonT(60) DEF Links
    <2>3. new.fly \in [Cells -> [x : 0..LOW, v : {0, 1, -RISE}, text : Letters]]
      <3>1. Idle \in [x : 0..LOW, v : {0, 1, -RISE}, text : Letters]
        <4>1. Idle.text \in Letters /\ 0 \in 0..LOW
          BY Bounds
        <4>2. QED
          BY <4>1 DEF Idle
      <3>2. QED
        BY <1>0, <1>2, <3>1 DEF ListState
    <2>4. new = [next |-> new.next, prev |-> new.prev, head |-> new.head, free |-> new.free,
                 fly |-> new.fly]
      BY DEF Remove
    <2> HIDE DEF new
    <2>5. QED
      BY <2>1, <2>2, <2>3, <2>4 DEF ListState
  <1>4. q \in [Cells -> Cells]
    <2>1. \A i \in Cells : k <= i /\ i < m => i + 1 \in Cells
      BY <1>0, Bounds
    <2>2. QED
      BY <1>0, <2>1 DEF Taken
  <1>5. \A i \in Cells : q[i] = IF i = m THEN c ELSE IF k <= i /\ i < m THEN p[i + 1] ELSE p[i]
    BY DEF Taken
  <1>6. /\ \A i \in Cells : i < k => q[i] = p[i]
        /\ \A i \in Cells : k <= i /\ i < m => q[i] = p[i + 1]
        /\ \A i \in Cells : i > m => q[i] = p[i]
        /\ q[m] = c
    BY <1>0, <1>5, Bounds
  <1>7. \A i, j \in Cells : p[i] = p[j] <=> i = j
    BY DEF Linked
  <1>8. /\ st.prev[c] = IF k = 1 THEN NULL ELSE p[k - 1]
        /\ st.next[c] = IF k = m THEN NULL ELSE p[k + 1]
    BY DEF Linked
  <1>9. /\ k # 1 => k - 1 \in Cells /\ p[k - 1] \in Cells
        /\ k # m => k + 1 \in Cells /\ p[k + 1] \in Cells
    BY <1>0, Bounds
  <1> HIDE DEF q, new, c
  <1>10. \A d \in Cells : \E i \in Cells : q[i] = d
    <2> TAKE d \in Cells
    <2>1. PICK i \in Cells : p[i] = d
      BY DEF Linked
    <2>2. CASE i = k
      BY <1>0, <1>6, <2>1, <2>2 DEF c
    <2>3. CASE k < i /\ i <= m
      <3>1. i - 1 \in Cells /\ k <= i - 1 /\ i - 1 < m /\ (i - 1) + 1 = i
        BY <1>0, <2>3, Bounds
      <3>2. q[i - 1] = p[i]
        BY <1>6, <3>1
      <3>3. QED
        BY <2>1, <3>1, <3>2
    <2>4. CASE i < k \/ i > m
      BY <1>6, <2>1, <2>4
    <2>5. i \in Nat
      BY Bounds
    <2>6. QED
      BY <1>0, <2>2, <2>3, <2>4, <2>5
  <1>11. \A i, j \in Cells : q[i] = q[j] => i = j
    <2> DEFINE w(i) == IF i = m THEN k ELSE IF k <= i /\ i < m THEN i + 1 ELSE i
    <2>1. \A i \in Cells : w(i) \in Cells /\ q[i] = p[w(i)]
      BY <1>0, <1>5, Bounds DEF c
    <2>2. \A i, j \in Cells : w(i) = w(j) => i = j
      BY <1>0, Bounds
    <2> HIDE DEF w
    <2>3. QED
      BY <1>7, <2>1, <2>2
  <1>12. ASSUME NEW i \in 1..(m - 1)
         PROVE  /\ new.prev[q[i]] = IF i = 1 THEN NULL ELSE q[i - 1]
                /\ new.next[q[i]] = IF i = m - 1 THEN NULL ELSE q[i + 1]
    <2>0. /\ i \in Cells /\ i + 1 \in Cells /\ i \in Nat /\ i < m /\ 1 <= i
          /\ i # 1 => i - 1 \in Cells
      BY <1>0, Bounds
    <2>1. CASE i < k
      <3>1. q[i] = p[i] /\ p[i] \in Cells /\ p[i] # c /\ (k # m => p[i] # p[k + 1])
            /\ (i # 1 => q[i - 1] = p[i - 1])
        BY <1>0, <1>6, <1>7, <1>9, <2>0, <2>1 DEF c
      <3>2. new.prev[p[i]] = st.prev[p[i]]
        BY <1>2, <1>8, <3>1, Bounds
      <3>3. /\ st.prev[p[i]] = IF i = 1 THEN NULL ELSE p[i - 1]
            /\ st.next[p[i]] = p[i + 1]
        BY <1>0, <2>0 DEF Linked
      <3>4. CASE i + 1 < k
        <4>1. q[i + 1] = p[i + 1] /\ i # m - 1 /\ (k # 1 => p[i] # p[k - 1])
          BY <1>0, <1>6, <1>7, <1>9, <2>0, <3>4
        <4>2. new.next[p[i]] = st.next[p[i]]
          BY <1>2, <1>8, <3>1, <4>1, Bounds
        <4>3. QED
          BY <3>1, <3>2, <3>3, <4>1, <4>2
      <3>5. CASE i + 1 = k
        <4>1. k # 1 /\ p[i] = p[k - 1]
          BY <2>0, <3>5
        <4>2. new.next[p[i]] = st.next[c]
          BY <1>2, <1>8, <3>1, <4>1
        <4>3. k = m <=> i = m - 1
          BY <1>0, <2>0, <3>5
        <4>4. k # m => q[i + 1] = p[k + 1]
          BY <1>0, <1>6, <2>0, <3>5
        <4>5. QED
          BY <1>8, <3>1, <3>2, <3>3, <4>2, <4>3, <4>4
      <3>6. QED
        BY <1>0, <2>0, <2>1, <3>4, <3>5
    <2>2. CASE k <= i
      <3>1. k # m /\ q[i] = p[i + 1] /\ p[i + 1] \in Cells /\ p[i + 1] # c
            /\ (k # 1 => p[i + 1] # p[k - 1])
        BY <1>0, <1>6, <1>7, <1>9, <2>0, <2>2 DEF c
      <3>2. new.next[p[i + 1]] = st.next[p[i + 1]]
        BY <1>2, <1>8, <3>1, Bounds
      <3>3. i + 1 \in 1..m /\ (i + 1 = m <=> i = m - 1)
        BY <1>0, <2>0
      <3>4. /\ st.next[p[i + 1]] = IF i + 1 = m THEN NULL ELSE p[(i + 1) + 1]
            /\ st.prev[p[i + 1]] = p[i]
        BY <1>0, <2>0, <3>3 DEF Linked
      <3>5. new.next[q[i]] = IF i = m - 1 THEN NULL ELSE q[i + 1]
        <4>1. i # m - 1 => q[i + 1] = p[(i + 1) + 1]
          BY <1>0, <1>6, <2>0, <2>2
        <4>2. QED
          BY <3>1, <3>2, <3>3, <3>4, <4>1
      <3>6. new.prev[q[i]] = IF i = 1 THEN NULL ELSE q[i - 1]
        <4>1. CASE i = k
          <5>1. new.prev[q[i]] = st.prev[c]
            BY <1>2, <1>8, <3>1, <4>1
          <5>2. i # 1 => q[i - 1] = p[k - 1]
            BY <1>0, <1>6, <2>0, <4>1
          <5>3. QED
            BY <1>8, <4>1, <5>1, <5>2
        <4>2. CASE i # k
          <5>1. p[i + 1] # p[k + 1] /\ i # 1 /\ q[i - 1] = p[(i - 1) + 1] /\ (i - 1) + 1 = i
            BY <1>0, <1>6, <1>7, <1>9, <2>0, <2>2, <3>1, <4>2
          <5>2. new.prev[q[i]] = st.prev[p[i + 1]]
            BY <1>2, <1>8, <3>1, <5>1
          <5>3. QED
            BY <3>4, <5>1, <5>2
        <4>3. QED
          BY <4>1, <4>2
      <3>7. QED
        BY <3>5, <3>6
    <2>3. QED
      BY <1>0, <2>0, <2>1, <2>2
  <1>13. ASSUME NEW i \in m..POOL
         PROVE  new.next[q[i]] = IF i = POOL THEN NULL ELSE q[i + 1]
    <2>0. i \in Cells /\ i \in Nat /\ m <= i
      BY <1>0, Bounds
    <2>1. CASE i = m
      <3>1. new.next[q[i]] = p[m + 1] /\ m # POOL /\ q[m + 1] = p[m + 1]
        BY <1>0, <1>1, <1>2, <1>6, <2>1 DEF c
      <3>2. QED
        BY <2>1, <3>1
    <2>2. CASE i # m
      <3>1. q[i] = p[i] /\ p[i] \in Cells /\ p[i] # c /\ (k # 1 => p[i] # p[k - 1])
            /\ i \in (m + 1)..POOL
        BY <1>0, <1>6, <1>7, <1>9, <2>0, <2>2 DEF c
      <3>2. new.next[p[i]] = st.next[p[i]]
        BY <1>2, <1>8, <3>1, Bounds
      <3>3. st.next[p[i]] = IF i = POOL THEN NULL ELSE p[i + 1]
        BY <1>1, <3>1, Bounds DEF Linked
      <3>4. i # POOL => i + 1 \in Cells /\ q[i + 1] = p[i + 1]
        BY <1>0, <1>6, <2>0, <3>1, Bounds
      <3>5. QED
        BY <3>1, <3>2, <3>3, <3>4
    <2>3. QED
      BY <2>1, <2>2
  <1>14. new.head = IF m - 1 = 0 THEN NULL ELSE q[1]
    <2>1. CASE k = 1
      <3>1. new.head = st.next[c]
        BY <1>1, <1>2, <2>1 DEF c
      <3>2. m - 1 = 0 <=> k = m
        BY <1>0, <2>1
      <3>3. k # m => q[1] = p[k + 1]
        BY <1>0, <1>6, <2>1
      <3>4. QED
        BY <1>8, <3>1, <3>2, <3>3
    <2>2. CASE k # 1
      <3>1. p[1] # c /\ m - 1 # 0 /\ q[1] = p[1]
        BY <1>0, <1>6, <1>7, <2>2 DEF c
      <3>2. QED
        BY <1>1, <1>2, <3>1
    <2>3. QED
      BY <2>1, <2>2
  <1>15. Linked(new, q, m - 1)
    <2>1. new.free = q[(m - 1) + 1] /\ new.free # NULL /\ (m - 1) + 1 = m
      BY <1>0, <1>2, <1>6, Bounds DEF c
    <2>2. QED
      BY <1>10, <1>11, <1>12, <1>13, <1>14, <2>1 DEF Linked
  <1>16. QED
    BY <1>0, <1>3, <1>4, <1>15, Bounds DEF q, new, c

-----------------------------------------------------------------------------
\* The ages of the letters.

\* Products with the constants.
LEMMA Times ==
  ASSUME NEW a \in Int, NEW b \in Int
  PROVE  /\ RISE * a \in Int /\ RISE * (a + 1) = RISE * a + RISE /\ a * PERIOD \in Int
         /\ (a + 1) * PERIOD = a * PERIOD + PERIOD
         /\ a <= b => RISE * a <= RISE * b
  <1>1. RISE \in Nat /\ PERIOD \in Nat
    BY Bounds
  <1>2. a <= b => RISE * a <= RISE * b
    <2>1. SUFFICES ASSUME a <= b PROVE RISE * a <= RISE * b
      OBVIOUS
    <2>2. b - a \in Nat /\ b = a + (b - a)
      BY <2>1
    <2>3. RISE * (b - a) \in Nat
      BY <1>1, <2>2
    <2>4. RISE * b = RISE * a + RISE * (b - a)
      BY <1>1
    <2>5. RISE * a \in Int
      BY <1>1
    <2>6. QED
      BY <2>3, <2>4, <2>5
  <1>3. QED
    BY <1>1, <1>2

Held ==
    /\ list \in ListState /\ it \in Cells \cup {NULL} /\ phase \in 0..(PERIOD - 1)
    /\ LettersAged

\* What an index of a letter is.
LEMMA Places ==
  ASSUME NEW m \in 0..(POOL - 1), NEW i \in 1..m
  PROVE  i \in Cells /\ i \in Nat /\ i - 1 \in Nat /\ i >= 1 /\ m \in Nat /\ m + 1 \in Cells
  BY Bounds

LEMMA SinceType == ASSUME phase \in 0..(PERIOD - 1) PROVE Since \in Nat
  BY Bounds DEF Since

\* The letter at p[i] in the terms of its place and its way.
LEMMA AgeType ==
  ASSUME list \in ListState, NEW c \in Cells
  PROVE  /\ Age(c) \in Int /\ list.fly[c].x \in 0..LOW /\ list.fly[c].v \in {0, 1, -RISE}
         /\ list.fly[c].text \in Letters
         /\ Age(c) <= RISE * LOW + LOW
  <1>1. /\ list.fly[c].x \in 0..LOW /\ list.fly[c].v \in {0, 1, -RISE}
        /\ list.fly[c].text \in Letters
    BY DEF ListState
  <1>2. /\ LOW \in Nat /\ RISE * LOW \in Int /\ RISE * list.fly[c].x \in Int
        /\ RISE * list.fly[c].x <= RISE * LOW
    <2>1. LOW \in Int /\ list.fly[c].x \in Int /\ list.fly[c].x <= LOW
      BY <1>1, Bounds
    <2>2. QED
      BY <2>1, Times, Bounds
  <1>3. QED
    BY <1>1, <1>2 DEF Age

LEMMA AgeTypeNext == ASSUME list' \in ListState, NEW c \in Cells PROVE Age(c)' \in Int
  <1>1. list'.fly[c].x \in Int /\ LOW \in Int
    BY Bounds DEF ListState
  <1>2. RISE * LOW \in Int /\ RISE * list'.fly[c].x \in Int
    BY <1>1, Times
  <1>3. QED
    BY <1>1, <1>2 DEF Age

LEMMA SameLetters ==
  ASSUME Held, UNCHANGED <<list, it, phase>>, pc' = "move" <=> pc = "move"
  PROVE  Held'
  <1>1. PICK p \in [Cells -> Cells], m \in 0..(POOL - 1) : \E k \in 1..(m + 1) :
            /\ Linked(list, p, m) /\ Aged(p, m, k)
            /\ it = IF k > m THEN NULL ELSE p[k]
            /\ pc # "move" => k = m + 1
    BY DEF Held, LettersAged
  <1>2. PICK k \in 1..(m + 1) :
            /\ Linked(list, p, m) /\ Aged(p, m, k)
            /\ it = IF k > m THEN NULL ELSE p[k]
            /\ pc # "move" => k = m + 1
    BY <1>1
  <1>3. Linked(list', p, m)
    BY <1>2
  <1>4. Aged(p, m, k)'
    <2>1. Since' = Since /\ \A c : Age(c)' = Age(c)
      BY DEF Since, Age
    <2>2. QED
      BY <1>2, <2>1 DEF Aged
  <1>5. LettersAged'
    BY <1>2, <1>3, <1>4 DEF LettersAged
  <1>6. QED
    BY <1>5 DEF Held

LEMMA HitHolds == ASSUME Held, update_keypress PROVE Held'
  <1>1. pc = "keys" /\ pc' # "move" /\ UNCHANGED <<it, phase>>
    BY DEF update_keypress, clockVars, Lowest
  <1>2. CASE list' = list
    BY <1>1, <1>2, SameLetters
  <1>3. CASE list' # list
    <2>1. PICK c \in Lowest : list' = [list EXCEPT !.fly[c].v = -RISE]
      BY <1>3 DEF update_keypress
    <2>2. c \in Cells /\ list.fly[c].v > 0
      BY DEF Lowest, Targets, Falling, Chain
    <2>3. list.fly[c].v = 1 /\ list.fly[c].x \in 0..LOW /\ RISE \in Nat \ {0} /\ LOW \in Nat
      BY <2>2, AgeType, Bounds DEF Held
    <2>4. /\ list'.next = list.next /\ list'.prev = list.prev /\ list'.head = list.head
          /\ list'.free = list.free
          /\ \A d \in Cells : d # c => list'.fly[d] = list.fly[d]
          /\ list'.fly[c].x = list.fly[c].x /\ list'.fly[c].v = -RISE
      BY <2>1, <2>2 DEF Held, ListState
    <2>5. list' \in ListState
      <3>1. [list.fly[c] EXCEPT !.v = -RISE] \in [x : 0..LOW, v : {0, 1, -RISE}, text : Letters]
        BY <2>2 DEF Held, ListState
      <3>2. list'.fly = [list.fly EXCEPT ![c] = [list.fly[c] EXCEPT !.v = -RISE]]
        BY <2>1 DEF Held, ListState
      <3>3. list'.fly \in [Cells -> [x : 0..LOW, v : {0, 1, -RISE}, text : Letters]]
        BY <2>2, <3>1, <3>2 DEF Held, ListState
      <3>4. list' = [list EXCEPT !.fly = list'.fly]
        BY <2>1, <3>2 DEF Held, ListState
      <3>5. QED
        BY <3>3, <3>4 DEF Held, ListState
    <2>6. ASSUME NEW d \in Cells PROVE Age(d) <= Age(d)' /\ (list.fly[d].v # 0 => list'.fly[d].v # 0)
      <3>1. CASE d = c
        <4>1. Age(d) = RISE * list.fly[c].x /\ Age(d)' = RISE * LOW + LOW - list.fly[c].x
          BY <2>3, <2>4, <3>1 DEF Age
        <4>2. RISE * list.fly[c].x <= RISE * LOW /\ RISE * list.fly[c].x \in Int /\ RISE * LOW \in Int
          BY <2>3, Times
        <4>3. QED
          BY <2>3, <2>4, <3>1, <4>1, <4>2
      <3>2. CASE d # c
        <4>1. Age(d)' = Age(d) /\ Age(d) \in Int
          BY <2>4, <3>2, AgeType DEF Age, Held
        <4>2. QED
          BY <2>4, <3>2, <4>1
      <3>3. QED
        BY <3>1, <3>2
    <2>7. PICK p \in [Cells -> Cells], m \in 0..(POOL - 1) : \E k \in 1..(m + 1) :
            /\ Linked(list, p, m) /\ Aged(p, m, k)
            /\ it = IF k > m THEN NULL ELSE p[k]
            /\ pc # "move" => k = m + 1
      BY DEF Held, LettersAged
    <2>8. PICK k \in 1..(m + 1) :
            /\ Linked(list, p, m) /\ Aged(p, m, k)
            /\ it = IF k > m THEN NULL ELSE p[k]
            /\ pc # "move" => k = m + 1
      BY <2>7
    <2>9. Linked(list', p, m)
      BY <2>4, <2>8 DEF Linked
    <2>10. Aged(p, m, k)'
      <3>1. Since' = Since /\ Since \in Nat
        BY <1>1, SinceType DEF Since, Held
      <3>2. ASSUME NEW i \in 1..m
            PROVE  /\ list'.fly[p[i]].v # 0
                   /\ RISE * ((i - 1) * PERIOD + Since' + 0) <= Age(p[i])'
        <4>1. /\ list.fly[p[i]].v # 0
              /\ RISE * ((i - 1) * PERIOD + Since + 0) <= Age(p[i])
          BY <1>1, <2>8 DEF Aged
        <4>2. p[i] \in Cells /\ (i - 1) * PERIOD + Since + 0 \in Int
          <5>1. i - 1 \in Int /\ i \in Cells
            BY Places
          <5>2. (i - 1) * PERIOD \in Int
            BY <5>1, Times
          <5>3. QED
            BY <3>1, <5>1, <5>2
        <4>3. Age(p[i]) \in Int /\ Age(p[i])' \in Int /\ RISE * ((i - 1) * PERIOD + Since + 0) \in Int
          <5>1. Age(p[i])' \in Int
            BY <2>5, <4>2, AgeTypeNext
          <5>2. QED
            BY <4>2, <5>1, AgeType, Times DEF Held
        <4>4. QED
          BY <2>6, <3>1, <4>1, <4>2, <4>3
      <3>3. QED
        BY <1>1, <3>2 DEF Aged
    <2>11. LettersAged'
      BY <1>1, <2>8, <2>9, <2>10 DEF LettersAged
    <2>12. QED
      BY <1>1, <2>5, <2>11 DEF Held
  <1>4. QED
    BY <1>2, <1>3

LEMMA TermType ==
  ASSUME NEW m \in 0..(POOL - 1), NEW i \in 1..m, NEW s \in Nat
  PROVE  (i - 1) * PERIOD + s \in Int /\ RISE * ((i - 1) * PERIOD + s) \in Int
  <1>1. (i - 1) * PERIOD \in Int
    BY Places, Times
  <1>2. (i - 1) * PERIOD + s \in Int
    BY <1>1
  <1>3. QED
    BY <1>2, Times

\* How LettersAged is taken apart.
LEMMA AgedParts ==
  ASSUME Held
  PROVE  \E p \in [Cells -> Cells], m \in 0..(POOL - 1) : \E k \in 1..(m + 1) :
            /\ Linked(list, p, m) /\ Aged(p, m, k)
            /\ it = IF k > m THEN NULL ELSE p[k]
            /\ it = NULL => k = m + 1
            /\ pc # "move" => it = NULL
  <1>1. PICK p \in [Cells -> Cells], m \in 0..(POOL - 1) : \E k \in 1..(m + 1) :
            /\ Linked(list, p, m) /\ Aged(p, m, k)
            /\ it = IF k > m THEN NULL ELSE p[k]
            /\ pc # "move" => k = m + 1
    BY DEF Held, LettersAged
  <1>2. PICK k \in 1..(m + 1) :
            /\ Linked(list, p, m) /\ Aged(p, m, k)
            /\ it = IF k > m THEN NULL ELSE p[k]
            /\ pc # "move" => k = m + 1
    BY <1>1
  <1>3. k <= m => p[k] \in Cells /\ p[k] # NULL
    BY Places, Bounds
  <1>4. it = NULL => k = m + 1
    BY <1>2, <1>3
  <1>5. pc # "move" => it = NULL
    BY <1>2
  <1>6. QED
    BY <1>2, <1>4, <1>5

LEMMA EndHolds == ASSUME Held, EndFrame PROVE Held'
  <1>1. /\ pc = "move" /\ pc' = "frame" /\ it = NULL /\ UNCHANGED <<list, it>>
        /\ phase' = (phase + 1) % PERIOD
    BY DEF EndFrame
  <1>2. phase' \in 0..(PERIOD - 1) /\ Since' = Since + 1
    <2>1. phase \in Nat /\ phase + 1 <= PERIOD /\ PERIOD \in Nat \ {0}
      BY Bounds DEF Held
    <2>2. CASE phase + 1 = PERIOD
      <3>1. phase' = 0
        BY <1>1, <2>1, <2>2
      <3>2. QED
        BY <1>1, <2>1, <2>2, <3>1 DEF Since
    <2>3. CASE phase + 1 < PERIOD
      <3>1. phase' = phase + 1
        BY <1>1, <2>1, <2>3
      <3>2. QED
        BY <1>1, <2>1, <2>3, <3>1 DEF Since
    <2>4. QED
      BY <2>1, <2>2, <2>3
  <1>3. PICK p \in [Cells -> Cells], m \in 0..(POOL - 1) : \E k \in 1..(m + 1) :
            /\ Linked(list, p, m) /\ Aged(p, m, k)
            /\ it = IF k > m THEN NULL ELSE p[k]
            /\ it = NULL => k = m + 1
            /\ pc # "move" => it = NULL
    BY AgedParts
  <1>4. Linked(list, p, m) /\ Aged(p, m, m + 1) /\ m + 1 \in 1..(m + 1) /\ m \in Nat
    BY <1>1, <1>3
  <1>5. Aged(p, m, m + 1)'
    <2>1. ASSUME NEW i \in 1..m
          PROVE  /\ list.fly[p[i]].v # 0 /\ RISE * ((i - 1) * PERIOD + Since' + 0) <= Age(p[i])
      <3>1. /\ list.fly[p[i]].v # 0 /\ RISE * ((i - 1) * PERIOD + Since + 1) <= Age(p[i])
        BY <1>1, <1>4 DEF Aged
      <3>2. (i - 1) * PERIOD \in Int /\ Since \in Nat
        BY Places, Times, SinceType DEF Held
      <3>3. (i - 1) * PERIOD + Since' + 0 = (i - 1) * PERIOD + Since + 1
        BY <1>2, <3>2
      <3>4. QED
        BY <3>1, <3>3
    <2>2. ASSUME NEW i \in 1..m PROVE Age(p[i])' = Age(p[i])
      BY <1>1 DEF Age
    <2>3. QED
      BY <1>1, <2>1, <2>2 DEF Aged
  <1>6. LettersAged'
    <2>1. it' = IF m + 1 > m THEN NULL ELSE p[m + 1]
      BY <1>1, <1>4
    <2>2. Linked(list', p, m)
      BY <1>1, <1>4
    <2>3. QED
      BY <1>4, <1>5, <2>1, <2>2 DEF LettersAged
  <1>7. QED
    BY <1>1, <1>2, <1>6 DEF Held

\* A frame without a new letter.
LEMMA PassBegins ==
  ASSUME Held, pc = "frame", phase # 0, pc' = "move", it' = list.head, UNCHANGED <<list, phase>>
  PROVE  Held'
  <1>1. PICK p \in [Cells -> Cells], m \in 0..(POOL - 1) : \E k \in 1..(m + 1) :
            /\ Linked(list, p, m) /\ Aged(p, m, k)
            /\ it = IF k > m THEN NULL ELSE p[k]
            /\ it = NULL => k = m + 1
            /\ pc # "move" => it = NULL
    BY AgedParts
  <1>2. Linked(list, p, m) /\ m \in Nat /\ 1 \in 1..(m + 1)
        /\ \A i \in 1..m : /\ list.fly[p[i]].v # 0
                           /\ RISE * ((i - 1) * PERIOD + Since + 0) <= Age(p[i])
    BY <1>1 DEF Aged
  <1>3. it' = IF 1 > m THEN NULL ELSE p[1]
    BY <1>2 DEF Linked
  <1>4. Aged(p, m, 1)'
    <2>1. Since' = Since
      BY DEF Since
    <2>2. ASSUME NEW i \in 1..m PROVE Age(p[i])' = Age(p[i])
      BY DEF Age
    <2>3. \A i \in 1..m : ~(i < 1)
      OBVIOUS
    <2>4. QED
      BY <1>2, <2>1, <2>2, <2>3 DEF Aged
  <1>5. LettersAged'
    <2>1. Linked(list', p, m)
      BY <1>2
    <2>2. QED
      BY <1>2, <1>3, <1>4, <2>1 DEF LettersAged
  <1>6. QED
    BY <1>2, <1>5 DEF Held, ListState

\* A frame with a new letter, for which the pool has a cell.
LEMMA LetterIsNew ==
  ASSUME Held, pc = "frame", phase = 0, ~Exhausted(list), NEW l \in Letters,
         list' = create_new_letter(list, l), it' = list'.head, pc' = "move", phase' = phase
  PROVE  Held'
  <1>1. PICK p \in [Cells -> Cells], m \in 0..(POOL - 1) : \E k \in 1..(m + 1) :
            /\ Linked(list, p, m) /\ Aged(p, m, k)
            /\ it = IF k > m THEN NULL ELSE p[k]
            /\ it = NULL => k = m + 1
            /\ pc # "move" => it = NULL
    BY AgedParts
  <1>2. Linked(list, p, m) /\ m \in Nat /\ 1 \in 1..((m + 1) + 1) /\ list \in ListState
        /\ \A i \in 1..m : /\ list.fly[p[i]].v # 0
                           /\ RISE * ((i - 1) * PERIOD + Since + 0) <= Age(p[i])
    BY <1>1 DEF Aged, Held
  <1> DEFINE st == Pooled(list)
             c == st.free
  <1>3. /\ st \in ListState /\ c # NULL /\ st.fly = list.fly /\ st.next[c] # NULL
        /\ \E q \in [Cells -> Cells] : Linked(st, q, m) /\ \A i \in 1..m : q[i] = p[i]
    BY <1>2, PooledIs DEF Exhausted
  <1>4. PICK q \in [Cells -> Cells] : Linked(st, q, m) /\ \A i \in 1..m : q[i] = p[i]
    BY <1>3
  <1>5. list' = [next |-> [st.next EXCEPT ![st.free] = st.head],
                prev |-> [d \in Cells |->
                    IF d = st.free THEN NULL ELSE IF d = st.head THEN st.free ELSE st.prev[d]],
                head |-> st.free, free |-> st.next[st.free],
                fly  |-> [st.fly EXCEPT ![st.free] = [x |-> 0, v |-> 1, text |-> l]]]
    BY DEF create_new_letter
  <1> HIDE DEF st
  <1> DEFINE r == Fronted(q, m)
  <1>6. /\ list' \in ListState /\ m + 1 \in 0..(POOL - 1) /\ r \in [Cells -> Cells]
        /\ Linked(list', r, m + 1)
    BY <1>3, <1>4, <1>5, CreatedIs
  <1>7. c \in Cells /\ c = q[m + 1] /\ m + 1 \in Cells
    <2>1. m + 1 \in Cells
      BY <1>2, Bounds
    <2>2. c = q[m + 1]
      BY <1>3, <1>4 DEF Linked
    <2>3. QED
      BY <2>1, <2>2
  <1>8. list'.fly[c] = [x |-> 0, v |-> 1, text |-> l]
        /\ \A d \in Cells : d # c => list'.fly[d] = list.fly[d]
    BY <1>3, <1>5, <1>7 DEF ListState
  <1>9. r[1] = c /\ \A i \in 2..(m + 1) : r[i] = p[i - 1] /\ p[i - 1] \in Cells /\ p[i - 1] # c
    <2>1. r[1] = c
      BY <1>7, Bounds DEF Fronted
    <2>2. ASSUME NEW i \in 2..(m + 1) PROVE r[i] = p[i - 1] /\ p[i - 1] \in Cells /\ p[i - 1] # c
      <3>1. i \in Cells /\ i - 1 \in 1..m /\ i - 1 \in Cells /\ i - 1 # m + 1
        BY <1>2, <1>6, Bounds
      <3>2. r[i] = q[i - 1] /\ q[i - 1] = p[i - 1]
        BY <1>2, <1>4, <3>1 DEF Fronted
      <3>3. q[i - 1] # q[m + 1]
        BY <1>4, <1>7, <3>1 DEF Linked
      <3>4. QED
        BY <1>7, <3>1, <3>2, <3>3
    <2>3. QED
      BY <2>1, <2>2
  <1> HIDE DEF r, c
  <1>10. Since = PERIOD /\ Since' = 0 /\ PERIOD \in Nat
    BY Bounds DEF Since
  <1>11. Aged(r, m + 1, 1)'
    <2>1. ASSUME NEW i \in 1..(m + 1)
          PROVE  /\ list'.fly[r[i]].v # 0 /\ RISE * ((i - 1) * PERIOD + 0 + 0) <= Age(r[i])'
      <3>1. CASE i = 1
        <4>1. (i - 1) * PERIOD + 0 + 0 = 0 /\ RISE * 0 = 0
          BY <1>10, <3>1, Bounds
        <4>2. list'.fly[r[i]].v = 1 /\ list'.fly[r[i]].x = 0
          BY <1>8, <1>9, <3>1
        <4>3. Age(r[i])' = RISE * 0
          BY <4>2 DEF Age
        <4>4. QED
          BY <4>1, <4>2, <4>3
      <3>2. CASE i # 1
        <4>1. i - 1 \in 1..m /\ r[i] = p[i - 1] /\ i \in 2..(m + 1) /\ (i - 1) - 1 \in Int
          BY <1>2, <1>9, <3>2
        <4>2. list'.fly[r[i]] = list.fly[p[i - 1]]
          BY <1>8, <1>9, <4>1
        <4>3. Age(r[i])' = Age(p[i - 1])
          BY <4>2 DEF Age
        <4>4. /\ list.fly[p[i - 1]].v # 0
              /\ RISE * (((i - 1) - 1) * PERIOD + Since + 0) <= Age(p[i - 1])
          BY <1>2, <4>1
        <4>5. ((i - 1) - 1) * PERIOD + Since + 0 = (i - 1) * PERIOD + 0 + 0
          <5>1. (((i - 1) - 1) + 1) * PERIOD = ((i - 1) - 1) * PERIOD + PERIOD
                /\ ((i - 1) - 1) * PERIOD \in Int
            BY <4>1, Times
          <5>2. ((i - 1) - 1) + 1 = i - 1
            OBVIOUS
          <5>3. QED
            BY <1>10, <5>1, <5>2
        <4>6. QED
          BY <4>2, <4>3, <4>4, <4>5
      <3>3. QED
        BY <3>1, <3>2
    <2>2. \A i \in 1..(m + 1) : ~(i < 1)
      BY <1>2
    <2>3. QED
      BY <1>10, <2>1, <2>2 DEF Aged
  <1>12. it' = IF 1 > m + 1 THEN NULL ELSE r[1]
    BY <1>2, <1>5, <1>9 DEF c
  <1>13. LettersAged'
    <2> DEFINE n == m + 1
    <2>1. 1 \in 1..(n + 1) /\ n \in 0..(POOL - 1) /\ Linked(list', r, n) /\ Aged(r, n, 1)'
          /\ it' = IF 1 > n THEN NULL ELSE r[1]
      BY <1>2, <1>6, <1>11, <1>12
    <2> HIDE DEF n
    <2>2. QED
      BY <1>6, <2>1 DEF LettersAged
  <1>14. QED
    BY <1>6, <1>9, <1>12, <1>13, <1>7, <1>2 DEF Held

LEMMA BeginHolds == ASSUME Held, BeginFrame PROVE Held'
  <1>1. pc = "frame" /\ phase' = phase
    BY DEF BeginFrame, clockVars
  <1>2. CASE phase # 0
    BY <1>1, <1>2, PassBegins DEF BeginFrame
  <1>3. CASE phase = 0 /\ Exhausted(list)
    <2>1. pc' = "assert" /\ UNCHANGED <<list, it, phase>>
      BY <1>1, <1>3 DEF BeginFrame
    <2>2. QED
      BY <1>1, <2>1, SameLetters
  <1>4. CASE phase = 0 /\ ~Exhausted(list)
    <2>1. PICK l \in Letters :
            list' = create_new_letter(list, l) /\ pc' = "move" /\ it' = list'.head
      BY <1>4 DEF BeginFrame
    <2>2. QED
      BY <1>1, <1>4, <2>1, LetterIsNew
  <1>5. QED
    BY <1>2, <1>3, <1>4

\* The letter the pass is at moves: it is a frame older, if it stays.
LEMMA MoveHolds == ASSUME Held, MoveLetter PROVE Held'
  <1>1. /\ pc = "move" /\ pc' = "move" /\ it # NULL /\ list' = Moved(list, it)
        /\ it' = list.next[it] /\ phase' = phase
    BY DEF MoveLetter, clockVars
  <1>2. PICK p \in [Cells -> Cells], m \in 0..(POOL - 1) : \E k \in 1..(m + 1) :
            /\ Linked(list, p, m) /\ Aged(p, m, k)
            /\ it = IF k > m THEN NULL ELSE p[k]
            /\ it = NULL => k = m + 1
            /\ pc # "move" => it = NULL
    BY AgedParts
  <1>3. PICK k \in 1..(m + 1) :
            /\ Linked(list, p, m) /\ Aged(p, m, k)
            /\ it = IF k > m THEN NULL ELSE p[k]
    BY <1>2
  <1>4. k \in 1..m /\ k \in Cells /\ k \in Nat /\ m \in Nat /\ it = p[k] /\ it \in Cells /\ m >= 1
    <2>1. k \in 1..m
      BY <1>1, <1>3
    <2>2. QED
      BY <1>3, <2>1, Places
  <1>5. it' = IF k = m THEN NULL ELSE p[k + 1]
    BY <1>1, <1>3, <1>4 DEF Linked
  <1>6. \A i \in 1..m : /\ list.fly[p[i]].v # 0 /\ p[i] \in Cells
                        /\ (i - 1) * PERIOD \in Int
                        /\ i < k => RISE * ((i - 1) * PERIOD + Since + 1) <= Age(p[i])
                        /\ i >= k => RISE * ((i - 1) * PERIOD + Since + 0) <= Age(p[i])
    <2> TAKE i \in 1..m
    <2>1. i \in Cells /\ i - 1 \in Int /\ i \in Nat
      BY Places
    <2>2. (i - 1) * PERIOD \in Int
      BY <2>1, Times
    <2>3. i < k => RISE * ((i - 1) * PERIOD + Since + 1) <= Age(p[i])
      BY <1>1, <1>3 DEF Aged
    <2>4. i >= k => RISE * ((i - 1) * PERIOD + Since + 0) <= Age(p[i])
      BY <1>1, <1>3, <1>4, <2>1 DEF Aged
    <2>5. QED
      BY <1>3, <2>1, <2>2, <2>3, <2>4 DEF Aged
  <1>7. Since' = Since /\ Since \in Nat /\ list \in ListState /\ RISE \in Nat /\ LOW \in Nat
    BY <1>1, SinceType, Bounds DEF Since, Held
  <1> DEFINE x == list.fly[it].x + list.fly[it].v
  <1>8. CASE x < 0 \/ x > LOW
    <2> DEFINE q == Taken(p, m, k)
               n == m - 1
    <2>1. list' = Remove(list, p[k])
      BY <1>1, <1>4, <1>8 DEF Moved
    <2>2. /\ list' \in ListState /\ n \in 0..(POOL - 1) /\ q \in [Cells -> Cells]
          /\ Linked(list', q, n)
      BY <1>3, <1>4, <1>7, <2>1, RemovedIs
    <2>3. \A d \in Cells : d # it => list'.fly[d] = list.fly[d]
      BY <1>4, <1>7, <2>1 DEF Remove, ListState
    <2>4. ASSUME NEW i \in 1..n
          PROVE  /\ i \in 1..m /\ i + 1 \in 1..m
                 /\ q[i] = IF k <= i THEN p[i + 1] ELSE p[i]
                 /\ (k <= i => p[i + 1] # it) /\ (i < k => p[i] # it)
      <3>1. i \in 1..m /\ i + 1 \in 1..m /\ i \in Cells /\ i + 1 \in Cells /\ i # m /\ i < m
        BY <1>4, Bounds
      <3>2. q[i] = IF k <= i THEN p[i + 1] ELSE p[i]
        BY <3>1 DEF Taken
      <3>3. (k <= i => p[i + 1] # it) /\ (i < k => p[i] # it)
        <4>1. \A j \in Cells : j # k => p[j] # p[k]
          BY <1>3, <1>4 DEF Linked
        <4>2. QED
          BY <1>4, <3>1, <4>1
      <3>4. QED
        BY <3>1, <3>2, <3>3
    <2> HIDE DEF q
    <2>5. Aged(q, n, k)'
      <3>1. ASSUME NEW i \in 1..n
            PROVE  /\ list'.fly[q[i]].v # 0
                   /\ RISE * ((i - 1) * PERIOD + Since' + (IF i < k THEN 1 ELSE 0)) <= Age(q[i])'
        <4>0. i \in Nat /\ i \in 1..m /\ i + 1 \in 1..m
          BY <2>4
        <4>1. CASE i < k
          <5>1. q[i] = p[i] /\ list'.fly[q[i]] = list.fly[p[i]]
            <6>1. ~(k <= i) /\ p[i] \in Cells
              BY <1>4, <1>6, <4>0, <4>1
            <6>2. q[i] = p[i] /\ p[i] # it
              BY <2>4, <4>1, <6>1
            <6>3. QED
              BY <2>3, <6>1, <6>2
          <5>2. Age(q[i])' = Age(p[i])
            BY <5>1 DEF Age
          <5>3. QED
            BY <1>6, <1>7, <4>0, <4>1, <5>1, <5>2
        <4>2. CASE k <= i
          <5>1. q[i] = p[i + 1] /\ list'.fly[q[i]] = list.fly[p[i + 1]]
            BY <1>6, <2>3, <2>4, <4>0, <4>2
          <5>2. Age(q[i])' = Age(p[i + 1]) /\ Age(p[i + 1]) \in Int
            BY <1>6, <1>7, <4>0, <5>1, AgeType DEF Age
          <5>3. /\ list.fly[p[i + 1]].v # 0
                /\ RISE * (((i + 1) - 1) * PERIOD + Since + 0) <= Age(p[i + 1])
            BY <1>4, <1>6, <4>0, <4>2
          <5> DEFINE a == (i - 1) * PERIOD + Since + 0
                     b == ((i + 1) - 1) * PERIOD + Since + 0
          <5>4. a \in Int /\ b \in Int /\ a <= b
            <6>1. ((i - 1) + 1) * PERIOD = (i - 1) * PERIOD + PERIOD /\ (i - 1) * PERIOD \in Int
              <7>1. i - 1 \in Int
                BY <4>0
              <7>2. QED
                BY <7>1, Times
            <6>2. (i + 1) - 1 = (i - 1) + 1 /\ PERIOD \in Nat
              BY <4>0, Bounds
            <6>3. QED
              BY <1>7, <6>1, <6>2
          <5> HIDE DEF a, b
          <5>5. RISE * a <= RISE * b /\ RISE * a \in Int /\ RISE * b \in Int
            BY <5>4, Times
          <5>6. RISE * b <= Age(p[i + 1])
            BY <5>3 DEF b
          <5>7. RISE * a <= Age(q[i])'
            BY <5>2, <5>5, <5>6
          <5>8. ~(i < k)
            BY <1>4, <4>0, <4>2
          <5>9. QED
            BY <1>7, <5>1, <5>3, <5>7, <5>8 DEF a
        <4>3. QED
          BY <1>4, <4>0, <4>1, <4>2
      <3>2. QED
        BY <1>1, <3>1 DEF Aged
    <2>6. it' = (IF k > n THEN NULL ELSE q[k]) /\ k \in 1..(n + 1)
      <3>1. k # m => k \in 1..n
        BY <1>4
      <3>2. k # m => q[k] = p[k + 1]
        BY <1>4, <2>4, <3>1
      <3>3. k > n <=> k = m
        BY <1>4
      <3>4. QED
        BY <1>4, <1>5, <3>2, <3>3
    <2> HIDE DEF n
    <2>7. LettersAged'
      BY <1>1, <2>2, <2>5, <2>6 DEF LettersAged
    <2>8. it' \in Cells \cup {NULL}
      BY <1>1, <1>4, <1>7 DEF ListState, Links
    <2>9. QED
      BY <1>1, <2>2, <2>7, <2>8 DEF Held
  <1>9. CASE ~(x < 0 \/ x > LOW)
    <2>1. list' = [list EXCEPT !.fly[it].x = x]
      BY <1>1, <1>9 DEF Moved
    <2>2. list.fly[it].x \in 0..LOW /\ list.fly[it].v \in {1, -RISE} /\ list.fly[it].v # 0
      BY <1>4, <1>6, <1>7, AgeType
    <2>3. x \in 0..LOW
      BY <1>7, <1>9, <2>2
    <2>4. /\ list'.next = list.next /\ list'.prev = list.prev /\ list'.head = list.head
          /\ list'.free = list.free
          /\ list'.fly = [list.fly EXCEPT ![it] = [list.fly[it] EXCEPT !.x = x]]
          /\ list' = [list EXCEPT !.fly = list'.fly]
      BY <1>7, <2>1 DEF ListState
    <2> HIDE DEF x
    <2>5. list' \in ListState
      <3>1. [list.fly[it] EXCEPT !.x = x] \in [x : 0..LOW, v : {0, 1, -RISE}, text : Letters]
        BY <1>4, <1>7, <2>3 DEF ListState
      <3>2. list'.fly \in [Cells -> [x : 0..LOW, v : {0, 1, -RISE}, text : Letters]]
        BY <1>7, <2>4, <3>1, ZenonT(60) DEF ListState
      <3>3. QED
        BY <1>7, <2>4, <3>2 DEF ListState
    <2>6. /\ \A d \in Cells : d # it => list'.fly[d] = list.fly[d]
          /\ list'.fly[it].x = x /\ list'.fly[it].v = list.fly[it].v
      BY <1>4, <1>7, <2>4 DEF ListState
    <2>7. Age(p[k])' = Age(p[k]) + RISE
      <3> DEFINE y == list.fly[p[k]].x
      <3>1. list'.fly[p[k]].x = x /\ list'.fly[p[k]].v = list.fly[p[k]].v /\ y \in Int
            /\ x = y + list.fly[p[k]].v
        BY <1>4, <1>7, <2>2, <2>6 DEF x
      <3>2. RISE * LOW \in Int /\ RISE * (y + 1) = RISE * y + RISE
        BY <1>7, <3>1, Times
      <3> HIDE DEF y
      <3>3. CASE list.fly[p[k]].v = 1
        <4>1. x = y + 1 /\ list.fly[p[k]].v > 0 /\ list'.fly[p[k]].v > 0
          BY <3>1, <3>3
        <4>2. Age(p[k]) = RISE * y
          BY <4>1 DEF Age, y
        <4>3. Age(p[k])' = RISE * (y + 1)
          BY <3>1, <4>1 DEF Age
        <4>4. QED
          BY <3>2, <4>2, <4>3
      <3>4. CASE list.fly[p[k]].v = -RISE
        <4>1. x = y - RISE /\ ~(list.fly[p[k]].v > 0) /\ ~(list'.fly[p[k]].v > 0)
          BY <1>7, <3>1, <3>4
        <4>2. Age(p[k]) = RISE * LOW + LOW - y
          BY <4>1 DEF Age, y
        <4>3. Age(p[k])' = RISE * LOW + LOW - (y - RISE)
          BY <3>1, <4>1 DEF Age
        <4>4. QED
          BY <1>7, <3>1, <3>2, <4>2, <4>3
      <3>5. QED
        BY <1>4, <2>2, <3>3, <3>4
    <2>8. Linked(list', p, m)
      BY <1>3, <2>4 DEF Linked
    <2>9. Aged(p, m, k + 1)'
      <3>1. ASSUME NEW i \in 1..m
            PROVE  /\ list'.fly[p[i]].v # 0
                   /\ RISE * ((i - 1) * PERIOD + Since' + (IF i < k + 1 THEN 1 ELSE 0)) <= Age(p[i])'
        <4>0. i \in Nat /\ i \in Cells /\ p[i] \in Cells
          BY Places
        <4>1. CASE i # k
          <5>1. p[i] # it
            BY <1>3, <1>4, <4>0, <4>1 DEF Linked
          <5>2. list'.fly[p[i]] = list.fly[p[i]]
            BY <2>6, <4>0, <5>1
          <5>3. Age(p[i])' = Age(p[i])
            BY <5>2 DEF Age
          <5>4. i < k <=> i < k + 1
            BY <1>4, <4>0, <4>1
          <5>5. QED
            BY <1>4, <1>6, <1>7, <4>0, <5>2, <5>3, <5>4
        <4>2. CASE i = k
          <5> DEFINE a == (i - 1) * PERIOD + Since + 0
          <5>1. a \in Int /\ (i - 1) * PERIOD + Since' + 1 = a + 1
            BY <1>6, <1>7, <4>0, Bounds
          <5>2. RISE * a <= Age(p[i]) /\ list.fly[p[i]].v # 0
            BY <1>4, <1>6, <4>0, <4>2
          <5>3. p[i] = it /\ Age(p[i])' = Age(p[i]) + RISE /\ Age(p[i]) \in Int
            BY <1>4, <1>7, <2>7, <4>0, <4>2, AgeType
          <5> HIDE DEF a
          <5>4. RISE * (a + 1) = RISE * a + RISE /\ RISE * a \in Int
            BY <5>1, Times
          <5>5. RISE * (a + 1) <= Age(p[i])'
            BY <1>7, <5>2, <5>3, <5>4
          <5>6. i < k + 1
            BY <1>4, <4>2
          <5>7. QED
            BY <2>6, <5>1, <5>2, <5>3, <5>5, <5>6
        <4>3. QED
          BY <4>1, <4>2
      <3>2. QED
        BY <1>1, <3>1 DEF Aged
    <2>10. it' = (IF k + 1 > m THEN NULL ELSE p[k + 1]) /\ k + 1 \in 1..(m + 1)
      BY <1>4, <1>5
    <2>11. LettersAged'
      BY <1>1, <2>8, <2>9, <2>10 DEF LettersAged
    <2>12. it' \in Cells \cup {NULL}
      BY <1>1, <1>4, <1>7 DEF ListState, Links
    <2>13. QED
      BY <1>1, <2>5, <2>11, <2>12 DEF Held
  <1>10. QED
    BY <1>8, <1>9

-----------------------------------------------------------------------------
\* The clocks, and the steps together.

Rest ==
    /\ scan_code_buf \in Scan /\ pending \in {"none", "timer", "keyboard"}
    /\ IF_ \in BOOLEAN /\ handling \in BOOLEAN
    /\ letter_pressed \in [Letters -> BOOLEAN]
    /\ pc \in {"loop", "hlt", "compare", "keys", "frame", "move", "assert"}
    /\ behind \in 0..(MaxLag + 1) /\ todo \in 0..behind /\ presses \in 0..MaxPresses

LEMMA LettersParts == LettersInv <=> Rest /\ LagBounded /\ Held
  BY DEF LettersInv, TyTypeOK, Rest, Held, ListState, Links

LEMMA ClockStep ==
  ASSUME Rest, LagBounded, KeysInv, KeysInv', TyNext
  PROVE  Rest' /\ LagBounded'
  <1>0. /\ MaxLag \in Nat \ {0} /\ MaxPresses \in Nat /\ behind \in Nat /\ todo \in Nat
        /\ todo <= behind /\ behind <= MaxLag + 1
    BY Bounds, Game DEF Rest
  <1>1. letter_pressed' \in [Letters -> BOOLEAN] /\ IF_' \in BOOLEAN /\ handling' \in BOOLEAN
    BY DEF KeysInv, KeyTypes
  <1>2. CASE TimerTick
    <2>1. /\ behind < MaxLag \/ pc = "hlt"
          /\ pending' \in {pending, "timer"} /\ (pending' = "timer" => TRUE)
          /\ UNCHANGED <<scan_code_buf, pc, behind, todo, presses>>
      BY <1>2 DEF TimerTick, Raised, clockVars
    <2>2. QED
      BY <1>0, <1>1, <2>1 DEF Rest, LagBounded
  <1>3. CASE Poll
    <2>1. PICK n \in 1..MaxEvents : \E events \in [1..n -> Scan] :
            /\ presses + n <= MaxPresses /\ scan_code_buf' = events[n]
            /\ pending' = "keyboard" /\ presses' = presses + n
            /\ UNCHANGED <<pc, behind, todo>>
      BY <1>3 DEF Poll, Raised, clockVars
    <2>2. n \in Nat /\ n \in 1..n
      BY Game
    <2>3. scan_code_buf' \in Scan /\ pending' = "keyboard" /\ presses' \in 0..MaxPresses
          /\ UNCHANGED <<pc, behind, todo>>
      BY <1>0, <2>1, <2>2 DEF Rest
    <2>4. QED
      BY <1>0, <1>1, <2>3 DEF Rest, LagBounded
  <1>4. CASE timer_event
    <2>1. /\ pending = "timer" /\ pending' = "none" /\ behind' = behind + 1
          /\ pc' = (IF pc = "hlt" THEN "compare" ELSE pc)
          /\ UNCHANGED <<scan_code_buf, todo, presses>>
      BY <1>4 DEF timer_event, Woken
    <2>2. QED
      BY <1>0, <1>1, <2>1 DEF Rest, LagBounded
  <1>5. CASE EnterKeyboard
    <2>1. pending' = "none" /\ UNCHANGED <<scan_code_buf, pc, behind, todo, presses>>
      BY <1>5 DEF EnterKeyboard, clockVars
    <2>2. QED
      BY <1>0, <1>1, <2>1 DEF Rest, LagBounded
  <1>6. CASE keyboard_event
    <2>1. /\ pc' = (IF pc = "hlt" THEN "compare" ELSE pc)
          /\ UNCHANGED <<scan_code_buf, pending, behind, todo, presses>>
      BY <1>6 DEF keyboard_event, Woken, deviceVars, clockVars
    <2>2. QED
      BY <1>0, <1>1, <2>1 DEF Rest, LagBounded
  <1>7. CASE wait_intr
    <2>1. /\ pc = "loop" /\ pc' = "hlt"
          /\ UNCHANGED <<scan_code_buf, pending, behind, todo, presses>>
      BY <1>7 DEF wait_intr, deviceVars, clockVars
    <2>2. QED
      BY <1>0, <1>1, <2>1 DEF Rest, LagBounded
  <1>8. CASE Compare
    <2>1. /\ pc = "compare" /\ UNCHANGED <<scan_code_buf, pending, behind, presses>>
          /\ \/ behind = 0 /\ pc' = "loop" /\ todo' = todo
             \/ pc' = "keys" /\ todo' = behind /\ behind # 0
          /\ pending # "timer"
      <3>1. IF_
        BY <1>8 DEF Compare, Runs, KeysInv, AwakeForInterrupts
      <3>2. QED
        BY <1>0, <1>8, <3>1 DEF Compare, Runs, deviceVars
    <2>2. QED
      BY <1>0, <1>1, <2>1 DEF Rest, LagBounded
  <1>9. CASE update_keypress
    <2>1. /\ pc = "keys" /\ pc' \in {"keys", "frame"}
          /\ UNCHANGED <<scan_code_buf, pending, behind, todo, presses>>
      BY <1>9 DEF update_keypress, deviceVars, clockVars
    <2>2. QED
      BY <1>0, <1>1, <2>1 DEF Rest, LagBounded
  <1>10. CASE BeginFrame
    <2>1. /\ pc = "frame" /\ pc' \in {"move", "assert"} /\ todo > 0
          /\ UNCHANGED <<scan_code_buf, pending, behind, todo, presses>>
      BY <1>10 DEF BeginFrame, deviceVars, clockVars
    <2>2. QED
      BY <1>0, <1>1, <2>1 DEF Rest, LagBounded
  <1>11. CASE MoveLetter
    <2>1. UNCHANGED <<scan_code_buf, pending, behind, todo, presses, pc>>
      BY <1>11 DEF MoveLetter, deviceVars, clockVars
    <2>2. QED
      BY <1>0, <1>1, <2>1 DEF Rest, LagBounded
  <1>12. CASE EndFrame
    <2>1. /\ pc = "move" /\ pc' = "frame" /\ behind' = behind - 1 /\ todo' = todo - 1
          /\ UNCHANGED <<scan_code_buf, pending, presses>> /\ todo > 0
      BY <1>12 DEF EndFrame, deviceVars, LagBounded
    <2>2. QED
      BY <1>0, <1>1, <2>1 DEF Rest, LagBounded
  <1>13. CASE Redrawn
    <2>1. /\ pc = "frame" /\ pc' = "loop" /\ todo = 0
          /\ UNCHANGED <<scan_code_buf, pending, behind, todo, presses>>
      BY <1>13 DEF Redrawn, deviceVars, clockVars
    <2>2. QED
      BY <1>0, <1>1, <2>1 DEF Rest, LagBounded
  <1>14. QED
    BY <1>2, <1>3, <1>4, <1>5, <1>6, <1>7, <1>8, <1>9, <1>10, <1>11, <1>12, <1>13
       DEF TyNext, Handlers, MainLoop

LEMMA HeldStep == ASSUME Held, TyNext PROVE Held'
  <1>1. CASE TimerTick \/ Poll \/ Handlers \/ wait_intr \/ Compare \/ Redrawn
    <2>1. UNCHANGED <<list, it, phase>>
      BY <1>1 DEF TimerTick, Poll, Handlers, timer_event, EnterKeyboard, keyboard_event,
                  wait_intr, Compare, Redrawn, clockVars
    <2>2. pc' = "move" <=> pc = "move"
      BY <1>1 DEF TimerTick, Poll, Handlers, timer_event, EnterKeyboard, keyboard_event,
                  wait_intr, Compare, Redrawn, Woken
    <2>3. QED
      BY <2>1, <2>2, SameLetters
  <1>2. CASE update_keypress \/ BeginFrame \/ MoveLetter \/ EndFrame
    BY <1>2, HitHolds, BeginHolds, MoveHolds, EndHolds
  <1>3. QED
    BY <1>1, <1>2 DEF TyNext, MainLoop

LEMMA LettersInit == TyInit => LettersInv
  <1> SUFFICES ASSUME TyInit PROVE LettersInv
    OBVIOUS
  <1>1. Rest
    <2>1. MaxLag \in Nat /\ MaxPresses \in Nat /\ Idle.text \in Letters
      BY Bounds, Game
    <2>2. QED
      <3>1. <<"up", Idle.text>> \in Scan
        BY <2>1 DEF Scan
      <3>2. letter_pressed \in [Letters -> BOOLEAN]
        BY DEF TyInit
      <3>3. scan_code_buf \in Scan /\ IF_ \in BOOLEAN /\ handling \in BOOLEAN
        BY <3>1, Zenon DEF TyInit
      <3>4. behind \in 0..(MaxLag + 1) /\ todo \in 0..behind /\ presses \in 0..MaxPresses
        BY <2>1 DEF TyInit
      <3>5. QED
        BY <3>2, <3>3, <3>4 DEF TyInit, Rest
  <1>2. LagBounded
    BY Bounds DEF TyInit, LagBounded
  <1>3. list \in ListState /\ it \in Cells \cup {NULL} /\ phase \in 0..(PERIOD - 1)
    <2>1. Idle \in [x : 0..LOW, v : {0, 1, -RISE}, text : Letters]
      <3>1. Idle.text \in Letters /\ 0 \in 0..LOW
        BY Bounds
      <3>2. QED
        BY <3>1 DEF Idle
    <2>2. list = Empty /\ it = NULL /\ phase = 0
      BY DEF TyInit
    <2>3. Empty \in ListState
      BY <2>1 DEF Empty, ListState, Links
    <2>4. QED
      BY <2>2, <2>3, Bounds
  <1>4. LettersAged
    <2> DEFINE p == [i \in Cells |-> i]
    <2>1. p \in [Cells -> Cells] /\ 0 \in 0..(POOL - 1) /\ 1 \in 1..(0 + 1)
      BY Bounds
    <2>2. Linked(list, p, 0) /\ it = NULL
      BY DEF TyInit, Empty, Linked
    <2>3. Aged(p, 0, 1)
      BY DEF Aged
    <2> HIDE DEF p
    <2> DEFINE n == 0
    <2>4. n \in 0..(POOL - 1) /\ 1 \in 1..(n + 1) /\ Linked(list, p, n) /\ Aged(p, n, 1)
          /\ it = (IF 1 > n THEN NULL ELSE p[1]) /\ 1 = n + 1
      BY <2>1, <2>2, <2>3
    <2> HIDE DEF n
    <2>5. QED
      BY <2>1, <2>4 DEF LettersAged
  <1>5. QED
    BY <1>1, <1>2, <1>3, <1>4, LettersParts DEF Held

LEMMA LettersStep == LettersInv /\ KeysInv /\ KeysInv' /\ [TyNext]_tyVars => LettersInv'
  <1> SUFFICES ASSUME LettersInv, KeysInv, KeysInv', [TyNext]_tyVars PROVE LettersInv'
    OBVIOUS
  <1>0. Rest /\ LagBounded /\ Held
    BY LettersParts
  <1>1. CASE TyNext
    <2>1. Rest' /\ LagBounded' /\ Held'
      BY <1>0, <1>1, ClockStep, HeldStep
    <2>2. QED
      BY <2>1, LettersParts, PTL
  <1>2. CASE UNCHANGED tyVars
    <2>1. Rest' /\ LagBounded'
      BY <1>0, <1>2 DEF tyVars, deviceVars, clockVars, Rest, LagBounded
    <2>2. UNCHANGED <<list, it, phase, pc>>
      BY <1>2 DEF tyVars, clockVars
    <2>3. Held'
      BY <1>0, <2>2, SameLetters
    <2>4. QED
      BY <2>1, <2>3, LettersParts, PTL
  <1>3. QED
    BY <1>1, <1>2

\* The letters in their order, with their ages, and the bound on how far the loop is
\* behind (game.c:44-99, effect.c:31-73, linklist.h:50-100).
THEOREM LettersInvariance == TySpec => []LettersInv
  <1>1. QED
    BY LettersInit, LettersStep, KeysInvariance, PTL DEF TySpec

\* The links agree in both directions and every cell is a letter's or free, whatever
\* letters are hit, leave and arrive, for a pool of any size.
THEOREM LinksAreSound == TySpec => []ListIsSound
  <1>1. LettersInv => ListIsSound
    <2> SUFFICES ASSUME LettersInv PROVE ListIsSound
      OBVIOUS
    <2>1. Held /\ TyTypeOK
      BY LettersParts DEF LettersInv
    <2>2. PICK p \in [Cells -> Cells], m \in 0..(POOL - 1) : Linked(list, p, m)
      BY <2>1, AgedParts
    <2>3. list \in ListState
      BY <2>1 DEF Held
    <2>4. QED
      BY <2>1, <2>2, <2>3, LinkedIsSound DEF ListIsSound
  <1>2. QED
    BY <1>1, LettersInvariance, PTL

\* When there is a cell more than letters can start in the frames a letter is there
\* at most, the pool lasts: fly_new()'s assertion holds, and now never passes tick.
PoolSuffices == RISE * ((POOL - 1) * PERIOD) > RISE * LOW + LOW

LEMMA NeverExhausted ==
  ASSUME PoolSuffices, Held, pc = "frame", phase = 0
  PROVE  ~Exhausted(list)
  <1> SUFFICES ASSUME Exhausted(list) PROVE FALSE
    OBVIOUS
  <1>1. PICK p \in [Cells -> Cells], m \in 0..(POOL - 1) : \E k \in 1..(m + 1) :
            /\ Linked(list, p, m) /\ Aged(p, m, k)
            /\ it = IF k > m THEN NULL ELSE p[k]
            /\ it = NULL => k = m + 1
            /\ pc # "move" => it = NULL
    BY AgedParts
  <1>2. Linked(list, p, m) /\ m \in Nat /\ list \in ListState /\ m + 1 \in Cells
        /\ \A i \in 1..m : RISE * ((i - 1) * PERIOD + Since + 0) <= Age(p[i])
    BY <1>1, Bounds DEF Aged, Held
  <1> DEFINE st == Pooled(list)
  <1>3. /\ st.free # NULL /\ st.next[st.free] = NULL
        /\ \E q \in [Cells -> Cells] : Linked(st, q, m)
    BY <1>2, PooledIs DEF Exhausted
  <1>4. PICK q \in [Cells -> Cells] : Linked(st, q, m)
    BY <1>3
  <1> HIDE DEF st
  <1>5. m + 1 = POOL
    <2>1. m + 1 \in (m + 1)..POOL /\ st.free = q[m + 1]
      BY <1>2, <1>3, <1>4, Bounds DEF Linked
    <2>2. st.next[q[m + 1]] = IF m + 1 = POOL THEN NULL ELSE q[(m + 1) + 1]
      BY <1>3, <1>4, <2>1 DEF Linked
    <2>3. m + 1 # POOL => (m + 1) + 1 \in Cells
      BY <1>2, Bounds
    <2>4. QED
      BY <1>3, <2>1, <2>2, <2>3, Bounds
  <1>6. RISE * (m * PERIOD) <= RISE * LOW + LOW
    <2>0. /\ RISE \in Nat /\ LOW \in Nat /\ PERIOD \in Nat
          /\ RISE * LOW \in Int /\ RISE * LOW >= 0
      BY Bounds
    <2>1. CASE m = 0
      BY <2>0, <2>1
    <2>2. CASE m # 0
      <3>1. m \in 1..m
        BY <1>2, <2>2
      <3>2. RISE * ((m - 1) * PERIOD + Since + 0) <= Age(p[m]) /\ p[m] \in Cells
        BY <1>2, <3>1, Places
      <3>3. Since = PERIOD
        BY DEF Since
      <3>4. (m - 1) * PERIOD + Since + 0 = m * PERIOD
        <4>1. ((m - 1) + 1) * PERIOD = (m - 1) * PERIOD + PERIOD /\ (m - 1) * PERIOD \in Int
          <5>1. m - 1 \in Int
            BY <1>2
          <5>2. QED
            BY <5>1, Times
        <4>2. QED
          BY <1>2, <2>0, <3>3, <4>1
      <3>5. Age(p[m]) <= RISE * LOW + LOW /\ Age(p[m]) \in Int
        BY <1>2, <3>2, AgeType
      <3>6. RISE * (m * PERIOD) \in Int
        BY <1>2, <2>0
      <3>7. QED
        BY <2>0, <3>2, <3>4, <3>5, <3>6
    <2>3. QED
      BY <2>1, <2>2
  <1>7. POOL - 1 = m
    BY <1>2, <1>5
  <1>8. QED
    <2>1. RISE * (m * PERIOD) \in Int /\ RISE * LOW + LOW \in Int
      BY <1>2, Bounds
    <2>2. QED
      BY <1>6, <1>7, <2>1 DEF PoolSuffices

\* With such a pool no assertion of the game fails, however late the player hits.
THEOREM PoolIsLargeEnough == ASSUME PoolSuffices PROVE TySpec => []GameGoesOn
  <1>1. TyInit => GameGoesOn
    BY DEF TyInit, GameGoesOn
  <1>2. GameGoesOn /\ LettersInv /\ [TyNext]_tyVars => GameGoesOn'
    <2> SUFFICES ASSUME GameGoesOn, LettersInv, [TyNext]_tyVars PROVE GameGoesOn'
      OBVIOUS
    <2>1. Held /\ behind \in Nat /\ MaxLag \in Nat
      BY LettersParts, Bounds DEF Rest
    <2>2. CASE BeginFrame
      <3>1. phase = 0 => ~Exhausted(list)
        BY <2>1, <2>2, NeverExhausted DEF BeginFrame
      <3>2. QED
        BY <2>2, <3>1 DEF BeginFrame, GameGoesOn
    <2>3. CASE Compare
      BY <2>1, <2>3 DEF Compare, GameGoesOn
    <2>4. CASE TimerTick \/ Poll \/ Handlers \/ wait_intr
      BY <2>4 DEF GameGoesOn, TimerTick, Poll, Handlers, timer_event, EnterKeyboard,
                  keyboard_event, Woken, wait_intr
    <2>5. CASE update_keypress \/ MoveLetter \/ EndFrame \/ Redrawn \/ UNCHANGED tyVars
      BY <2>5 DEF GameGoesOn, update_keypress, MoveLetter, EndFrame, Redrawn, tyVars
    <2>6. QED
      BY <2>2, <2>3, <2>4, <2>5 DEF TyNext, MainLoop
  <1>3. QED
    BY <1>1, <1>2, LettersInvariance, PTL DEF TySpec
=============================================================================
