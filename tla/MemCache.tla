------------------------------- MODULE MemCache -------------------------------
(***************************************************************************)
(* NEMU's data cache (memory/mmu/cache.c): WAYS ways in each of GROUPS     *)
(* groups; a store goes through to memory and fills nothing, a load fills  *)
(* a free way or a random one.  An access that reaches the end of its line *)
(* goes on to the next line, but only from a hit: a store that misses the  *)
(* lower line does not look for the upper one.                             *)
(*                                                                         *)
(* An access is shorter than a line, so cache_read() and cache_write()     *)
(* call themselves for the next line once at most, and there they stay     *)
(* within it.  Memory here ends a line after the last access: a load that  *)
(* ends with its line already fills the next one.                          *)
(***************************************************************************)
EXTENDS Integers, Sequences, FiniteSets

CONSTANTS
    LINE,           \* bytes of a line: CACHEBLOCK_SIZE
    GROUPS, WAYS,
    NR_LINES,       \* lines of memory
    AccessLens,
    MaxWrites       \* bound on the stores of a behaviour

ASSUME CacheShape ==
    /\ {LINE, GROUPS, WAYS, NR_LINES} \subseteq Nat \ {0}
    /\ AccessLens \subseteq 1..LINE /\ MaxWrites \in Nat

VARIABLES
    cache,          \* [group -> [way -> line]]
    hw_mem,
    ret,            \* what the last load returned: [address -> byte]
    writes,         \* number of stores so far; a store's bytes carry it
    torn            \* history: bytes of a cached line a store passed by

cacheVars == <<cache, hw_mem, ret, writes, torn>>

Groups  == 0..(GROUPS - 1)
Ways    == 1..WAYS
Offsets == 0..(LINE - 1)
Lines   == 0..(NR_LINES - 1)
Addrs   == 0..(NR_LINES * LINE - 1)
CacheBytes   == {<<0, 0>>} \cup ((1..MaxWrites) \X Addrs)

lineOf(a)    == a \div LINE
offsetbits(a) == a % LINE
groupbits(l) == l % GROUPS
markbits(l)  == l \div GROUPS
InLine(l)    == (l * LINE)..(l * LINE + LINE - 1)
Area(a, len) == a..(a + len - 1)

CacheInit ==
    /\ hw_mem = [a \in Addrs |-> <<0, 0>>]
    /\ cache = [g \in Groups |-> [w \in Ways |->
                [valid |-> FALSE, mark |-> 0, data |-> [o \in Offsets |-> <<0, 0>>]]]]
    /\ ret = <<>> /\ writes = 0 /\ torn = {}

-----------------------------------------------------------------------------
\* locate(): the ways of c that hold line l; the first is taken.
Locate(c, l) == {w \in Ways :
    c[groupbits(l)][w].valid /\ c[groupbits(l)][w].mark = markbits(l)}

First(W) == CHOOSE w \in W : \A v \in W : w <= v
Last(W) == {w \in W : \A v \in W : v <= w}

Free(c, l) == {w \in Ways : ~c[groupbits(l)][w].valid}

\* Faulty variant: the line gets its mark and keeps the data of another.
LineFilledMarkOnly(c, l) ==
    {[c EXCEPT ![groupbits(l)][w] = [@ EXCEPT !.valid = TRUE, !.mark = markbits(l)]] :
     w \in IF Free(c, l) = {} THEN Ways ELSE Last(Free(c, l))}

\* A miss fills the last free way, or a random one when there is none.
LineFilled(c, l) ==
    {[c EXCEPT ![groupbits(l)][w] =
        [valid |-> TRUE, mark |-> markbits(l),
         data |-> [o \in Offsets |-> hw_mem[l * LINE + o]]]] :
     w \in IF Free(c, l) = {} THEN Ways ELSE Last(Free(c, l))}

Present(c, l) == IF Locate(c, l) # {} THEN {c} ELSE LineFilled(c, l)

Held(c, a) == c[groupbits(lineOf(a))][First(Locate(c, lineOf(a)))].data[offsetbits(a)]

\* Does an access go on to the next line?
GoesOn(a, len) == offsetbits(a) + len >= LINE

cache_read(a, len) ==
    /\ \E c \in Present(cache, lineOf(a)) :
        IF GoesOn(a, len)
        THEN \E d \in Present(c, lineOf(a) + 1) :
                /\ cache' = d
                /\ ret' = [b \in Area(a, len) |->
                            IF lineOf(b) = lineOf(a) THEN Held(c, b) ELSE Held(d, b)]
        ELSE cache' = c /\ ret' = [b \in Area(a, len) |-> Held(c, b)]
    /\ torn' = {b \in torn : \A l \in {lineOf(a), lineOf(a) + 1} :
                    lineOf(b) = l => Locate(cache, l) # {} \/ Locate(cache', l) = {}}
    /\ UNCHANGED <<hw_mem, writes>>

\* The bytes of line l that a store of bytes new changes.
Patched(c, l, new) ==
    IF Locate(c, l) = {} THEN c
    ELSE [c EXCEPT ![groupbits(l)][First(Locate(c, l))].data =
            [o \in Offsets |->
                IF l * LINE + o \in DOMAIN new THEN new[l * LINE + o] ELSE @[o]]]

\* The cache after a store to a: the next line is only looked for from a hit.
Written(a, new) ==
    IF Locate(cache, lineOf(a)) = {} THEN cache
    ELSE Patched(Patched(cache, lineOf(a), new), lineOf(a) + 1, new)

cache_write(a, len) ==
    LET new == [b \in Area(a, len) |-> <<writes + 1, b>>] IN
    /\ writes < MaxWrites /\ writes' = writes + 1
    /\ cache' = Written(a, new)
    /\ hw_mem' = [b \in Addrs |-> IF b \in DOMAIN new THEN new[b] ELSE hw_mem[b]]
    /\ torn' = IF Locate(cache, lineOf(a)) # {} THEN torn \ DOMAIN new
               ELSE torn \cup {b \in DOMAIN new : Locate(cache, lineOf(b)) # {}}
    /\ ret' = <<>>

CacheNext ==
    \E a \in 0..((NR_LINES - 1) * LINE - 1), len \in AccessLens :
        /\ a + len <= (NR_LINES - 1) * LINE
        /\ cache_read(a, len) \/ cache_write(a, len)

CacheSpec == CacheInit /\ [][CacheNext]_cacheVars

-----------------------------------------------------------------------------
\* The variables have the types of the C declarations.
CacheTypeOK ==
    /\ cache \in [Groups -> [Ways ->
            [valid : BOOLEAN, mark : 0..(NR_LINES - 1), data : [Offsets -> CacheBytes]]]]
    /\ hw_mem \in [Addrs -> CacheBytes]
    /\ DOMAIN ret \subseteq Addrs /\ \A a \in DOMAIN ret : ret[a] \in CacheBytes
    /\ writes \in 0..MaxWrites /\ torn \subseteq Addrs

\* A line is in one way only, so that a store changes the one a load will find,
\* whatever way locate() ends at and whatever way rand() chose.
OneWayPerLine == \A l \in Lines : \A v, w \in Locate(cache, l) : v = w

\* A cached line is what memory holds, after any mixture of hits, misses and
\* evictions, except for bytes of a store that missed the line below.
StaleWhereTornOnly == \A l \in Lines : Locate(cache, l) # {} =>
    \A a \in InLine(l) \ torn : Held(cache, a) = hw_mem[a]

CacheInv == CacheTypeOK /\ OneWayPerLine /\ StaleWhereTornOnly

\* A load returns the bytes stored last, through hits, misses and evictions, and
\* also across the end of a line, with one exception: a byte whose store began in
\* the line below, when its own line was cached and that one was not, is returned
\* as it was before, until its line is filled again or a store that finds the
\* line it begins in changes the byte (torn; cache.c:57-80).
LoadsAreCurrent == \A a \in (DOMAIN ret) \ torn : ret[a] = hw_mem[a]
=============================================================================
