-------------------------------- MODULE Typing --------------------------------
(***************************************************************************)
(* The typing game (game/src/typing) with the devices that drive it: SDL   *)
(* events reach NEMU's one-byte scan code buffer when it polls, the        *)
(* interrupt controller latches one request at a time, the handlers count  *)
(* the ticks and mark the keys, and the main loop shoots letters down and  *)
(* catches up with the ticks.                                              *)
(*                                                                         *)
(* NEMU polls its devices and takes a pending interrupt after every        *)
(* instruction, so the program goes on only when none is pending or        *)
(* interrupts are off.  A step of the main loop is a stretch of code that  *)
(* shares at most one variable with the handlers.  Heights are in units of *)
(* a fall, and the clocks now, tick and target are kept as differences.    *)
(***************************************************************************)
EXTENDS Integers, FiniteSets, Sequences

CONSTANTS
    Letters,
    POOL,           \* cells of fly_pool
    PERIOD,         \* frames between two letters: HZ / CHARACTER_PER_SECOND
    LOW,            \* the lowest place on the screen
    RISE,           \* how far a letter that was hit moves in a frame
    MaxLag,         \* bound: ticks the main loop is behind while it runs
    MaxPresses,     \* bound on the key events of a behaviour
    MaxEvents       \* bound on the events of one poll

ASSUME Game ==
    /\ {POOL, PERIOD, LOW, RISE, MaxLag, MaxEvents} \subseteq Nat \ {0}
    /\ MaxPresses \in Nat /\ Letters # {}

Cells == 1..POOL
NULL  == 0
Scan  == {"down", "up"} \X Letters

VARIABLES
    scan_code_buf,  \* NEMU: the last key event
    pending,        \* NEMU: the request latched, or "none"
    IF_,            \* the interrupt flag
    handling,       \* keyboard_event() has been entered
    letter_pressed, \* [Letters -> BOOLEAN]
    pc,             \* of main_loop()
    behind,         \* tick - now
    todo,           \* target - now
    phase,          \* now % PERIOD
    list,           \* the letters: see Empty
    it,             \* the letter update_letter_pos() is at
    credit,         \* history: per letter, strokes that have hit nothing yet
    presses         \* number of key events

deviceVars == <<scan_code_buf, pending>>
clockVars == <<behind, todo, phase>>
tyVars == <<deviceVars, IF_, handling, letter_pressed, pc, clockVars, list, it, credit, presses>>

\* The pool's cells with their links, the two heads, and per cell what falls:
\* its height, speed and letter.
Idle == [x |-> 0, v |-> 0, text |-> CHOOSE k \in Letters : TRUE]

Empty == [next |-> [c \in Cells |-> NULL], prev |-> [c \in Cells |-> NULL],
          head |-> NULL, free |-> NULL, fly |-> [c \in Cells |-> Idle]]

TyInit ==
    /\ scan_code_buf = <<"up", Idle.text>> /\ pending = "none" /\ IF_ = TRUE /\ handling = FALSE
    /\ letter_pressed = [k \in Letters |-> FALSE]
    /\ pc = "loop" /\ behind = 0 /\ todo = 0 /\ phase = 0
    /\ list = Empty /\ it = NULL
    /\ credit = [k \in Letters |-> 0] /\ presses = 0

-----------------------------------------------------------------------------
\* The devices.

\* i8259_raise_intr(): one request is latched, and only the keyboard's, whose
\* number is higher, replaces another: that tick is lost.
Raised(irq) == IF pending = "none" \/ irq = "keyboard" THEN irq ELSE pending

\* do_timer(), within the bound.
TimerTick ==
    /\ behind < MaxLag \/ pc = "hlt"
    /\ pending' = Raised("timer")
    /\ UNCHANGED <<scan_code_buf, IF_, handling, letter_pressed, pc, clockVars, list, it,
                   credit, presses>>

Strokes(events, k) == Cardinality({j \in DOMAIN events : events[j] = <<"down", k>>})

\* do_keyboard(): every event of the queue goes through the one buffer and
\* raises the one request.
Poll ==
    \E n \in 1..MaxEvents : \E events \in [1..n -> Scan] :
        /\ presses + n <= MaxPresses
        /\ scan_code_buf' = events[n]
        /\ pending' = Raised("keyboard")
        /\ presses' = presses + n
        /\ credit' = [k \in Letters |-> credit[k] + Strokes(events, k)]
        /\ UNCHANGED <<IF_, handling, letter_pressed, pc, clockVars, list, it>>

-----------------------------------------------------------------------------
\* The handlers; an interrupt ends the hlt it finds, and only that one.

Woken == IF pc = "hlt" THEN "compare" ELSE pc

timer_event ==
    /\ IF_ /\ ~handling /\ pending = "timer"
    /\ pending' = "none"
    /\ behind' = behind + 1
    /\ pc' = Woken
    /\ UNCHANGED <<scan_code_buf, IF_, handling, letter_pressed, todo, phase, list, it,
                   credit, presses>>

EnterKeyboard ==
    /\ IF_ /\ ~handling /\ pending = "keyboard"
    /\ pending' = "none"
    /\ handling' = TRUE /\ IF_' = FALSE
    /\ UNCHANGED <<scan_code_buf, letter_pressed, pc, clockVars, list, it, credit, presses>>

\* in_byte() reads the buffer, which a poll may have changed since.
keyboard_event ==
    /\ handling
    /\ letter_pressed' = [k \in Letters |->
            scan_code_buf = <<"down", k>> \/ letter_pressed[k]]
    /\ handling' = FALSE /\ IF_' = TRUE
    /\ pc' = Woken
    /\ UNCHANGED <<deviceVars, clockVars, list, it, credit, presses>>

\* An instruction of the program: do_intr() takes what is latched first.
Runs == ~handling /\ (IF_ => pending = "none")

-----------------------------------------------------------------------------
\* The list of the letters on the screen and the pool (adt/linklist.h).

\* The cells of the chain that starts at c: those in every set that has c in it
\* and that the links do not lead out of.
Chain(nx, c) ==
    {d \in Cells : \A S \in SUBSET Cells :
        c \in S \cup {NULL} /\ (\A e \in S : nx[e] \in S \cup {NULL}) => d \in S}

\* fly_new() links the pool on its first call, and keeps the last cell.
Pooled(st) ==
    IF st.free # NULL THEN st
    ELSE [st EXCEPT !.next = [c \in Cells |-> IF c < POOL THEN c + 1 ELSE NULL], !.free = 1]

Exhausted(st) == Pooled(st).next[Pooled(st).free] = NULL

\* create_new_letter(): a cell becomes the new head.
create_new_letter(st, k) ==
    LET p == Pooled(st)
        c == p.free
    IN [next |-> [p.next EXCEPT ![c] = p.head],
        prev |-> [d \in Cells |->
                    IF d = c THEN NULL ELSE IF d = p.head THEN c ELSE p.prev[d]],
        head |-> c, free |-> p.next[c],
        fly  |-> [p.fly EXCEPT ![c] = [x |-> 0, v |-> 1, text |-> k]]]

\* Faulty variants: the cell behind is not linked back; the cell is not freed.
RemoveForward(st, c) ==
    [next |-> [d \in Cells |-> IF d = c THEN st.free
                               ELSE IF d = st.prev[c] THEN st.next[c] ELSE st.next[d]],
     prev |-> [st.prev EXCEPT ![c] = NULL],
     head |-> IF st.head = c THEN st.next[c] ELSE st.head, free |-> c,
     fly  |-> [st.fly EXCEPT ![c] = Idle]]

RemoveAndKeep(st, c) ==
    [next |-> [d \in Cells |-> IF d = c THEN NULL
                               ELSE IF d = st.prev[c] THEN st.next[c] ELSE st.next[d]],
     prev |-> [d \in Cells |-> IF d = c THEN NULL
                               ELSE IF d = st.next[c] THEN st.prev[c] ELSE st.prev[d]],
     head |-> IF st.head = c THEN st.next[c] ELSE st.head, free |-> st.free,
     fly  |-> [st.fly EXCEPT ![c] = Idle]]

\* fly_remove() and fly_free(): what a free cell holds besides its link is
\* never read, and is left out.
Remove(st, c) ==
    [next |-> [d \in Cells |-> IF d = c THEN st.free
                               ELSE IF d = st.prev[c] THEN st.next[c] ELSE st.next[d]],
     prev |-> [d \in Cells |-> IF d = c THEN NULL
                               ELSE IF d = st.next[c] THEN st.prev[c] ELSE st.prev[d]],
     head |-> IF st.head = c THEN st.next[c] ELSE st.head, free |-> c,
     fly  |-> [st.fly EXCEPT ![c] = Idle]]

Moved(st, c) ==
    LET x == st.fly[c].x + st.fly[c].v
    IN IF x < 0 \/ x > LOW THEN Remove(st, c) ELSE [st EXCEPT !.fly[c].x = x]

-----------------------------------------------------------------------------
\* main_loop()

wait_intr ==
    /\ pc = "loop" /\ Runs
    /\ pc' = "hlt"
    /\ UNCHANGED <<deviceVars, IF_, handling, letter_pressed, clockVars, list, it, credit, presses>>

\* With interrupts off: is there anything to catch up with?
Compare ==
    /\ pc = "compare" /\ Runs
    /\ IF behind = 0 THEN pc' = "loop" /\ UNCHANGED todo
       ELSE IF behind < 0 THEN pc' = "assert" /\ UNCHANGED todo
       ELSE pc' = "keys" /\ todo' = behind
    /\ UNCHANGED <<deviceVars, IF_, handling, letter_pressed, behind, phase, list, it,
                   credit, presses>>

Falling == {c \in Chain(list.next, list.head) : list.fly[c].v > 0}

Targets == {c \in Falling : letter_pressed[list.fly[c].text]}

\* The lowest of the letters whose keys are pressed.
Lowest == {c \in Targets : \A d \in Targets : list.fly[d].x <= list.fly[c].x}

\* Faulty variant: the key stays pressed.
KeyKept(k) == letter_pressed

release_key(k) == [letter_pressed EXCEPT ![k] = FALSE]

\* Faulty variant: the function returns with interrupts off in any case.
InterruptsKeptOff == FALSE

InterruptsAfterKeys == Targets = {}

\* Faulty variant: the letter that was found is left as it is.
find_keypress ==
    /\ pc = "keys" /\ Runs
    /\ IF_' = InterruptsAfterKeys
    /\ pc' = IF Targets = {} THEN "frame" ELSE "keys"
    /\ UNCHANGED <<deviceVars, handling, letter_pressed, clockVars, list, it, credit, presses>>

\* update_keypress() returns with interrupts off when it has hit a letter, and
\* is called again; they go on when it finds none.
update_keypress ==
    /\ pc = "keys" /\ Runs
    /\ IF_' = InterruptsAfterKeys
    /\ \/ /\ Targets = {} /\ pc' = "frame"
          /\ UNCHANGED <<letter_pressed, list, credit>>
       \/ \E c \in Lowest : LET k == list.fly[c].text IN
            /\ letter_pressed' = release_key(k)
            /\ list' = [list EXCEPT !.fly[c].v = -RISE]
            /\ credit' = [credit EXCEPT ![k] = @ - 1]
            /\ UNCHANGED pc
    /\ UNCHANGED <<deviceVars, handling, clockVars, it, presses>>

\* A frame of the game begins, perhaps with a new letter, for which an earlier
\* stroke does not count.
BeginFrame ==
    /\ pc = "frame" /\ Runs /\ todo > 0
    /\ IF phase # 0 THEN pc' = "move" /\ it' = list.head /\ UNCHANGED <<letter_pressed, list>>
       ELSE IF Exhausted(list)
       THEN pc' = "assert" /\ UNCHANGED <<letter_pressed, list, it>>
       ELSE \E k \in Letters :
            /\ list' = create_new_letter(list, k)
            /\ letter_pressed' = release_key(k)
            /\ pc' = "move" /\ it' = list'.head
    /\ UNCHANGED <<deviceVars, IF_, handling, clockVars, credit, presses>>

\* update_letter_pos() moves one letter after the other; a letter that leaves
\* the screen leaves the list.
MoveLetter ==
    /\ pc = "move" /\ Runs /\ it # NULL
    /\ list' = Moved(list, it)
    /\ it' = list.next[it]
    /\ UNCHANGED <<deviceVars, IF_, handling, letter_pressed, pc, clockVars, credit, presses>>

EndFrame ==
    /\ pc = "move" /\ Runs /\ it = NULL
    /\ pc' = "frame"
    /\ behind' = behind - 1 /\ todo' = todo - 1
    /\ phase' = (phase + 1) % PERIOD
    /\ UNCHANGED <<deviceVars, IF_, handling, letter_pressed, list, it, credit, presses>>

\* The screen is redrawn, and the loop starts over.
Redrawn ==
    /\ pc = "frame" /\ Runs /\ todo = 0
    /\ pc' = "loop"
    /\ UNCHANGED <<deviceVars, IF_, handling, letter_pressed, clockVars, list, it, credit, presses>>

Handlers == timer_event \/ EnterKeyboard \/ keyboard_event
MainLoop == wait_intr \/ Compare \/ update_keypress \/ BeginFrame \/ MoveLetter \/ EndFrame \/ Redrawn

TyNext == TimerTick \/ Poll \/ Handlers \/ MainLoop

\* NEMU executes instructions and the timer goes on; nobody has to type.
TySpec == TyInit /\ [][TyNext]_tyVars
            /\ WF_tyVars(TimerTick) /\ WF_tyVars(Handlers) /\ WF_tyVars(MainLoop)

-----------------------------------------------------------------------------
\* The variables have the types of the C declarations; the clock never runs
\* ahead of the ticks.
TyTypeOK ==
    /\ scan_code_buf \in Scan /\ pending \in {"none", "timer", "keyboard"}
    /\ IF_ \in BOOLEAN /\ handling \in BOOLEAN
    /\ letter_pressed \in [Letters -> BOOLEAN]
    /\ pc \in {"loop", "hlt", "compare", "keys", "frame", "move", "assert"}
    /\ behind \in 0..(MaxLag + 1) /\ todo \in 0..behind /\ phase \in 0..(PERIOD - 1)
    /\ list \in [next : [Cells -> Cells \cup {NULL}], prev : [Cells -> Cells \cup {NULL}],
                 head : Cells \cup {NULL}, free : Cells \cup {NULL},
                 fly : [Cells -> [x : 0..LOW, v : {0, 1, -RISE}, text : Letters]]]
    /\ it \in Cells \cup {NULL} /\ presses \in 0..MaxPresses

\* No assertion of the game fails: the pool is large enough for the letters a
\* player can keep on the screen, those that were hit late and are on their
\* way up again included.
GameGoesOn == pc # "assert"

\* The links in both directions agree, whatever letters left the list in one
\* pass, and every cell is on the screen or free.
ListIsSound ==
    LET used == Chain(list.next, list.head) IN
    /\ TyTypeOK
    /\ \A c \in used : list.prev[c] = NULL <=> c = list.head
    /\ \A c \in used : list.next[c] # NULL => list.prev[list.next[c]] = c
    /\ list.free # NULL =>
        used \cap Chain(list.next, list.free) = {}
            /\ used \cup Chain(list.next, list.free) = Cells

\* The cells in an order p: m letters from the head on, the newest first, then
\* the free ones.
Linked(st, p, m) ==
    /\ \A c \in Cells : \E i \in Cells : p[i] = c
    /\ \A i, j \in Cells : p[i] = p[j] => i = j
    /\ st.head = IF m = 0 THEN NULL ELSE p[1]
    /\ \A i \in 1..m : /\ st.prev[p[i]] = IF i = 1 THEN NULL ELSE p[i - 1]
                       /\ st.next[p[i]] = IF i = m THEN NULL ELSE p[i + 1]
    /\ IF st.free = NULL THEN m = 0
       ELSE /\ st.free = p[m + 1]
            /\ \A i \in (m + 1)..POOL : st.next[p[i]] = IF i = POOL THEN NULL ELSE p[i + 1]

\* The most frames a letter can have been there, by its place and its way, in
\* units of 1/RISE: it fell to where it was hit, LOW at most, and rises from there.
Age(c) == IF list.fly[c].v > 0 THEN RISE * list.fly[c].x ELSE RISE * LOW + LOW - list.fly[c].x

\* The frames since the last new letter, or to the one that is due.
Since == IF phase = 0 /\ pc # "move" THEN PERIOD ELSE phase

\* A letter is a period older than the one in front of it, and a frame older when
\* the pass that moves them has been there.
Aged(p, m, k) == \A i \in 1..m :
    /\ list.fly[p[i]].v # 0
    /\ RISE * ((i - 1) * PERIOD + Since + (IF pc = "move" /\ i < k THEN 1 ELSE 0)) <= Age(p[i])

\* The pass is at the k-th letter, or past the last one.
LettersAged == \E p \in [Cells -> Cells], m \in 0..(POOL - 1) : \E k \in 1..(m + 1) :
    /\ Linked(list, p, m) /\ Aged(p, m, k)
    /\ it = IF k > m THEN NULL ELSE p[k]
    /\ pc # "move" => k = m + 1

\* The loop is behind by MaxLag and one tick at most, and by MaxLag again before
\* it waits for another.
LagBounded ==
    /\ pending = "timer" => behind <= MaxLag
    /\ behind > MaxLag => pc \notin {"loop", "hlt"}
    /\ pending = "timer" /\ behind = MaxLag => pc \notin {"loop", "keys", "frame", "move"}
    /\ behind > MaxLag /\ pc \in {"keys", "frame", "move"} => todo = behind
    /\ pc = "move" => todo > 0

LettersInv == TyTypeOK /\ LagBounded /\ LettersAged

\* A key stroke hits one letter at most, although its scan code may be read
\* twice when the next event comes between the interrupt and the read.
OneStrokeOneHit == \A k \in Letters : credit[k] >= 0

\* Outside update_keypress() and a handler interrupts are on: a program that
\* slept with interrupts off would sleep for ever.
AwakeForInterrupts == ~IF_ => handling \/ pc = "keys"

\* A stroke that counts is either a mark or a code still to be read, and while
\* the handler or the controller is about to read it, perhaps both: no sequence
\* of polls, interrupts and hits makes two marks of one stroke.
Marks(k) == IF letter_pressed[k] THEN 1 ELSE 0

Unread(k) == IF scan_code_buf = <<"down", k>> /\ (handling \/ pending = "keyboard") THEN 1 ELSE 0

StrokesCounted == \A k \in Letters :
    IF IF_ \/ handling THEN credit[k] >= Marks(k) /\ credit[k] >= Unread(k)
    ELSE credit[k] >= Marks(k) + Unread(k)

KeyTypes ==
    /\ letter_pressed \in [Letters -> BOOLEAN] /\ credit \in [Letters -> Int]
    /\ {IF_, handling} \subseteq BOOLEAN

\* The keys are sound, and interrupts are off in a handler and between two hits only.
KeysInv == KeyTypes /\ AwakeForInterrupts /\ StrokesCounted

\* A key that is marked does not stay so while a letter of it falls.
StrokesAreAnswered == \A k \in Letters :
    (letter_pressed[k] /\ \E c \in Falling : list.fly[c].text = k)
        ~> ~(letter_pressed[k] /\ \E c \in Falling : list.fly[c].text = k)
=============================================================================
