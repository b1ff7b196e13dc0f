-------------------------------- MODULE PalKeys --------------------------------
(***************************************************************************)
(* The keys of nemu-pal, from the keyboard to the hero's direction: NEMU's *)
(* one-byte scan code buffer and its interrupt (device/dev/keyboard.c),    *)
(* the key states that keyboard_event() and process_keys() share           *)
(* (hal/keyboard.c), and the two handlers the game gives process_keys()    *)
(* (device/input.c).                                                       *)
(*                                                                         *)
(* process_keys() runs with interrupts off and reads nothing a device      *)
(* writes, so one call is one step.  Between its calls the game draws and  *)
(* reads its files; a key event that NEMU polls together with a disk       *)
(* command finds the disk's request latched and raises none of its own.    *)
(***************************************************************************)
EXTENDS Integers, FiniteSets

CONSTANTS
    NR_KEYS,        \* entries of keycode_hash
    NR_DIRS,        \* the first of them are the arrows
    MaxKeyEvents,   \* bound on the events of a behaviour
    MaxPoll         \* bound on the events of one poll

ASSUME KeyTable ==
    /\ NR_KEYS \in Nat \ {0} /\ NR_DIRS \in 0..NR_KEYS
    /\ MaxKeyEvents \in Nat /\ MaxPoll \in Nat \ {0}

Keys    == 0..(NR_KEYS - 1)
Arrows  == 0..(NR_DIRS - 1)
Codes   == {"down", "up"} \X Keys
kDirUnknown == -1

VARIABLES
    held,           \* the keys that are down on the keyboard
    code_buf,       \* NEMU: scan_code_buf, the last event
    raised,         \* NEMU: the keyboard's request is latched
    reading,        \* keyboard_event() has been entered
    key_state,
    at,             \* the game: "poll" or "frame"
    fInBattle,
    dir, prevdir,   \* g_InputState
    dwKeyPress,     \* and the keys pressed since it was cleared
    told,           \* history: keys whose last callback was a press
    missed,         \* history: keys of which the game has not seen the last event
    retold,         \* history: a press was reported of a key in told
    nr_events

palVars == <<held, code_buf, raised, reading, key_state, at, fInBattle, dir, prevdir,
             dwKeyPress, told, missed, retold, nr_events>>

PalInit ==
    /\ held = {} /\ code_buf = <<"up", 0>>   \* never read before an event
    /\ raised = FALSE /\ reading = FALSE
    /\ key_state = [k \in Keys |-> "EMPTY"]
    /\ at = "poll" /\ fInBattle = FALSE
    /\ dir = kDirUnknown /\ prevdir = kDirUnknown /\ dwKeyPress = {}
    /\ told = {} /\ missed = {} /\ retold = FALSE /\ nr_events = 0

-----------------------------------------------------------------------------
\* NEMU: the events of a poll, of which the last is left in the buffer.  A key
\* that is down repeats (sdl.c:50).

Unread == raised \/ reading

\* The keys that are down after the first j events.
HeldAfter(events, j) == {k \in Keys :
    LET E == {i \in 1..j : events[i][2] = k} IN
    IF E = {} THEN k \in held
    ELSE \E i \in E : events[i][1] = "down" /\ \A l \in E : l <= i}

Typed(events) == \A j \in DOMAIN events :
    events[j][1] = "up" => events[j][2] \in HeldAfter(events, j - 1)

\* do_keyboard(); no request is raised over the disk's.
PollKeys(n, events, disk) ==
    /\ nr_events + n <= MaxKeyEvents /\ nr_events' = nr_events + n
    /\ held' = HeldAfter(events, n)
    /\ code_buf' = events[n]
    /\ raised' = (raised \/ ~disk)
    /\ missed' = missed \cup {events[j][2] : j \in 1..(n - 1)}
                        \cup (IF Unread THEN {code_buf[2]} ELSE {})
                        \cup (IF disk THEN {events[n][2]} ELSE {})
    /\ UNCHANGED <<reading, key_state, at, fInBattle, dir, prevdir, dwKeyPress, told, retold>>

KeyEvents ==
    \E n \in 1..MaxPoll : \E events \in [1..n -> Codes], disk \in BOOLEAN :
        /\ Typed(events)
        /\ disk => at = "frame" /\ ~Unread
        /\ PollKeys(n, events, disk)

\* The interrupt is taken, and the handler reads what is in the buffer then.
EnterKeyEvent ==
    /\ raised /\ ~reading
    /\ raised' = FALSE /\ reading' = TRUE
    /\ UNCHANGED <<held, code_buf, key_state, at, fInBattle, dir, prevdir, dwKeyPress,
                   told, missed, retold, nr_events>>

\* Faulty variant: neither event replaces one that waits.
StateKept(state, pressed) ==
    IF state # "EMPTY" THEN state ELSE IF pressed THEN "PRESS" ELSE "RELEASE"

\* A release replaces what waits to be processed, a press does not.
StateAfter(state, pressed) ==
    IF ~pressed THEN "RELEASE" ELSE IF state = "EMPTY" THEN "PRESS" ELSE state

ReadKeyEvent ==
    LET k == code_buf[2]
        pressed == code_buf[1] = "down"
    IN
    /\ reading /\ reading' = FALSE
    /\ key_state' = [key_state EXCEPT ![k] = StateAfter(@, pressed)]
    /\ missed' = IF pressed /\ key_state[k] = "RELEASE" THEN missed \cup {k} ELSE missed \ {k}
    /\ UNCHANGED <<held, code_buf, raised, at, fInBattle, dir, prevdir, dwKeyPress, told,
                   retold, nr_events>>

-----------------------------------------------------------------------------
\* The game, whose instructions are executed when no interrupt is pending.

PAL_KeyPressHandler(k) ==
    /\ dwKeyPress' = dwKeyPress \cup {k}
    /\ IF k \in Arrows
       THEN dir' = k /\ prevdir' = IF fInBattle THEN kDirUnknown ELSE dir
       ELSE UNCHANGED <<dir, prevdir>>

\* Faulty variant: only the arrow that is followed is forgotten.
ReleaseFollowed(k) ==
    /\ UNCHANGED dwKeyPress
    /\ IF k \in Arrows /\ dir = k THEN dir' = prevdir /\ prevdir' = kDirUnknown
       ELSE UNCHANGED <<dir, prevdir>>

PAL_KeyReleaseHandler(k) ==
    /\ UNCHANGED dwKeyPress
    /\ IF k \in Arrows
       THEN dir' = (IF dir = k THEN prevdir ELSE dir) /\ prevdir' = kDirUnknown
       ELSE UNCHANGED <<dir, prevdir>>

Waiting == {k \in Keys : key_state[k] \in {"PRESS", "RELEASE"}}

\* Faulty variant: a key that was reported waits for its release, as
\* KEY_STATE_WAIT_RELEASE says, after a release too.
WaitRelease(k) == [key_state EXCEPT ![k] = "WAIT_RELEASE"]

Processed(k) == [key_state EXCEPT ![k] = "EMPTY"]

\* process_keys() reports the first key that waits; PAL_ProcessEvent() calls it
\* again until there is none.
process_keys ==
    /\ at = "poll" /\ ~Unread
    /\ \/ Waiting = {} /\ at' = "frame"
          /\ UNCHANGED <<key_state, dir, prevdir, dwKeyPress, told, retold>>
       \/ \E k \in Waiting :
            /\ \A l \in Waiting : k <= l
            /\ key_state' = Processed(k)
            /\ IF key_state[k] = "PRESS"
               THEN /\ PAL_KeyPressHandler(k)
                    /\ told' = told \cup {k} /\ retold' = (retold \/ k \in told)
               ELSE PAL_KeyReleaseHandler(k) /\ told' = told \ {k} /\ UNCHANGED retold
            /\ UNCHANGED at
    /\ UNCHANGED <<held, code_buf, raised, reading, fInBattle, missed, nr_events>>

\* PAL_StartFrame(), which may begin or end a battle, and PAL_ClearKeyState().
PAL_StartFrame ==
    /\ at = "frame" /\ ~Unread
    /\ at' = "poll" /\ fInBattle' \in BOOLEAN /\ dwKeyPress' = {}
    /\ UNCHANGED <<held, code_buf, raised, reading, key_state, dir, prevdir, told, missed,
                   retold, nr_events>>

KeyHandler == EnterKeyEvent \/ ReadKeyEvent
PalLoop == process_keys \/ PAL_StartFrame

PalNext == KeyEvents \/ KeyHandler \/ PalLoop

\* NEMU executes instructions; nobody has to press a key.
PalSpec == PalInit /\ [][PalNext]_palVars /\ WF_palVars(KeyHandler) /\ WF_palVars(PalLoop)

-----------------------------------------------------------------------------
\* The variables have the types of the C declarations.
PalTypeOK ==
    /\ held \subseteq Keys /\ code_buf \in Codes
    /\ {raised, reading, fInBattle, retold} \subseteq BOOLEAN
    /\ key_state \in [Keys -> {"EMPTY", "PRESS", "RELEASE"}]
    /\ at \in {"poll", "frame"}
    /\ dir \in Arrows \cup {kDirUnknown} /\ prevdir \in Arrows \cup {kDirUnknown}
    /\ dwKeyPress \subseteq Keys /\ told \subseteq Keys
    /\ missed \subseteq Keys /\ nr_events \in 0..MaxKeyEvents

\* What the game will hold of key k once it has processed its state.
WillBeTold(k) == IF key_state[k] = "EMPTY" THEN k \in told ELSE key_state[k] = "PRESS"

\* What the game thinks is down is down, whatever polls, interrupts and calls
\* of process_keys() came in between, except for a key whose last event was
\* replaced in NEMU's buffer, gave way to the disk, or was a press that found
\* the release before it still waiting.
KnowsItsKeys == \A k \in Keys :
    k \notin missed /\ ~(Unread /\ code_buf[2] = k) => (WillBeTold(k) <=> k \in held)

\* The buffer holds the last event of all.
BufferIsLast == Unread => (code_buf[1] = "down" <=> code_buf[2] \in held)

\* The hero walks in the direction of an arrow the game has not seen released,
\* and so it will be when she stops, through any order of presses and releases
\* of several arrows and in and out of battles, as long as no key is reported
\* pressed a second time.
WalksWhereTold == ~retold =>
    /\ dir # kDirUnknown => dir \in told /\ dir # prevdir
    /\ prevdir # kDirUnknown => prevdir \in told

PalInv == PalTypeOK /\ KnowsItsKeys /\ BufferIsLast /\ WalksWhereTold

\* A key that was released and whose release was not missed is reported
\* released, or is pressed again.
ReleasesArrive == \A k \in Keys :
    (k \in told /\ k \notin held /\ k \notin missed)
        ~> (k \notin told \/ k \in held \/ k \in missed)

\* process_keys() finds keys that were just pressed or released
\* (hal/keyboard.c:68): one it has reported pressed it reports pressed again
\* only after a release.
ReportsJustPressed == [][~retold => ~retold']_palVars
=============================================================================
