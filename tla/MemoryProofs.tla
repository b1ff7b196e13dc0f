----------------------------- MODULE MemoryProofs -----------------------------
(***************************************************************************)
(* A program's memory, for every machine.  The data cache (MemCache): its  *)
(* invariant is inductive, and a load returns what was stored last.  The   *)
(* way to it (Paging): loader, page tables and TLB implement a plain       *)
(* memory of bytes.                                                        *)
(***************************************************************************)
EXTENDS Paging, MemCache, FiniteSetTheorems, TLAPS

CacheLine == [valid : BOOLEAN, mark : 0..(NR_LINES - 1), data : [Offsets -> CacheBytes]]
Caches == [Groups -> [Ways -> CacheLine]]

Once(c) == \A l \in Lines : \A v, w \in Locate(c, l) : v = w

-----------------------------------------------------------------------------
\* Numbers: addresses, lines and offsets.

LEMMA QuotientIs ==
    ASSUME NEW n \in Nat, NEW d \in Nat \ {0}
    PROVE  /\ n \div d \in Nat /\ n % d \in 0..(d - 1)
           /\ n = d * (n \div d) + (n % d)
  OBVIOUS

\* Quotient and remainder are the only ones.
LEMMA OneQuotient ==
    ASSUME NEW d \in Nat \ {0}, NEW p \in Nat, NEW q \in Nat,
           NEW r \in 0..(d - 1), NEW s \in 0..(d - 1), d * p + r = d * q + s
    PROVE  p = q /\ r = s
  <1>1. CASE p < q
    <2>1. d * p + d <= d * q
      <3>1. p + 1 <= q
        BY <1>1
      <3>2. d * (p + 1) <= d * q
        BY <3>1
      <3>3. QED
        BY <3>2
    <2>2. QED
      BY <2>1
  <1>2. CASE q < p
    <2>1. d * q + d <= d * p
      <3>1. q + 1 <= p
        BY <1>2
      <3>2. d * (q + 1) <= d * p
        BY <3>1
      <3>3. QED
        BY <3>2
    <2>2. QED
      BY <2>1
  <1>3. CASE p = q
    BY <1>3
  <1>4. QED
    BY <1>1, <1>2, <1>3

LEMMA OffsetOfLine ==
    ASSUME NEW l \in Nat, NEW o \in Offsets
    PROVE  l * LINE + o \in Nat /\ lineOf(l * LINE + o) = l /\ offsetbits(l * LINE + o) = o
  <1> DEFINE a == l * LINE + o
  <1>1. LINE \in Nat \ {0} /\ o \in 0..(LINE - 1)
    BY CacheShape DEF Offsets
  <1>2. a \in Nat /\ a = LINE * l + o
    BY <1>1
  <1>3. /\ a \div LINE \in Nat /\ a % LINE \in 0..(LINE - 1)
        /\ a = LINE * (a \div LINE) + (a % LINE)
    BY <1>1, <1>2, QuotientIs
  <1> HIDE DEF a
  <1>4. a \div LINE = l /\ a % LINE = o
    BY <1>1, <1>2, <1>3, OneQuotient
  <1>5. QED
    BY <1>2, <1>4 DEF a, lineOf, offsetbits

LEMMA LineOfAddress ==
    ASSUME NEW a \in Nat
    PROVE  lineOf(a) \in Nat /\ offsetbits(a) \in Offsets /\ a = lineOf(a) * LINE + offsetbits(a)
  <1>1. LINE \in Nat \ {0}
    BY CacheShape
  <1>2. /\ a \div LINE \in Nat /\ a % LINE \in 0..(LINE - 1)
        /\ a = LINE * (a \div LINE) + (a % LINE)
    BY <1>1, QuotientIs
  <1>3. LINE * (a \div LINE) = (a \div LINE) * LINE
    BY <1>1, <1>2
  <1>4. QED
    BY <1>2, <1>3 DEF lineOf, offsetbits, Offsets

\* A group and a mark name one line.
LEMMA LinesDiffer ==
    ASSUME NEW l \in Nat, NEW m \in Nat, groupbits(l) = groupbits(m), markbits(l) = markbits(m)
    PROVE  l = m
  BY QuotientIs, CacheShape DEF groupbits, markbits

LEMMA SmallLines ==
    ASSUME NEW a \in Addrs
    PROVE  a \in Nat /\ lineOf(a) \in Lines
  <1>1. LINE \in Nat \ {0} /\ NR_LINES \in Nat \ {0} /\ a \in Nat /\ a < NR_LINES * LINE
    BY CacheShape DEF Addrs
  <1>2. lineOf(a) \in Nat /\ a >= lineOf(a) * LINE
    BY <1>1, LineOfAddress DEF Offsets
  <1>3. SUFFICES ASSUME lineOf(a) >= NR_LINES PROVE FALSE
    BY <1>1, <1>2 DEF Lines
  <1> DEFINE l == lineOf(a)
  <1> HIDE DEF l
  <1>4. l * LINE >= NR_LINES * LINE
    BY <1>1, <1>2, <1>3 DEF l
  <1>5. QED
    BY <1>1, <1>2, <1>4 DEF l

LEMMA AddressesOfLine ==
    ASSUME NEW l \in Lines, NEW o \in Offsets
    PROVE  l \in Nat /\ l * LINE + o \in Addrs
  <1>1. LINE \in Nat \ {0} /\ NR_LINES \in Nat \ {0} /\ l \in Nat /\ o \in 0..(LINE - 1)
        /\ l + 1 <= NR_LINES
    BY CacheShape DEF Lines, Offsets
  <1>2. (l + 1) * LINE <= NR_LINES * LINE
    BY <1>1
  <1>3. l * LINE + LINE <= NR_LINES * LINE /\ l * LINE \in Nat /\ NR_LINES * LINE \in Nat
    BY <1>1, <1>2
  <1>4. QED
    BY <1>1, <1>3 DEF Addrs

LEMMA InTheCache ==
    ASSUME NEW l \in Lines
    PROVE  l \in Nat /\ groupbits(l) \in Groups /\ markbits(l) \in 0..(NR_LINES - 1)
  <1>1. GROUPS \in Nat \ {0} /\ l \in Nat /\ NR_LINES \in Nat \ {0} /\ l <= NR_LINES - 1
    BY CacheShape DEF Lines
  <1>2. groupbits(l) \in Groups /\ markbits(l) \in Nat /\ l = GROUPS * markbits(l) + groupbits(l)
    BY <1>1, QuotientIs DEF groupbits, markbits, Groups
  <1> DEFINE m == markbits(l)  g == groupbits(l)
  <1> HIDE DEF m, g
  <1>3. m <= GROUPS * m
    BY <1>1, <1>2 DEF m
  <1>4. g \in Nat
    BY <1>1, <1>2 DEF Groups, g
  <1>5. m <= l
    BY <1>1, <1>2, <1>3, <1>4 DEF m, g
  <1>6. QED
    BY <1>1, <1>2, <1>5 DEF m

\* An access touches its line and the next one at most, and the next one only
\* when it goes on.
LEMMA TwoLines ==
    ASSUME NEW a \in Nat, NEW len \in 1..LINE, NEW b \in Area(a, len)
    PROVE  /\ b \in Nat
           /\ lineOf(b) = lineOf(a) \/ (GoesOn(a, len) /\ lineOf(b) = lineOf(a) + 1)
  <1>1. LINE \in Nat \ {0}
    BY CacheShape
  <1>2. b \in Nat /\ a <= b /\ b <= a + len - 1
    BY <1>1 DEF Area
  <1>3. lineOf(a) \in Nat /\ offsetbits(a) \in 0..(LINE - 1) /\ a = lineOf(a) * LINE + offsetbits(a)
    BY LineOfAddress DEF Offsets
  <1> DEFINE l == lineOf(a)  o == offsetbits(a)  k == b - a
  <1>4. k \in 0..(len - 1) /\ b = l * LINE + (o + k)
    <2>1. k \in 0..(len - 1) /\ b = a + k
      BY <1>1, <1>2
    <2>2. l * LINE \in Nat /\ o \in Nat /\ a = l * LINE + o
      BY <1>1, <1>3
    <2> HIDE DEF k, l, o
    <2>3. QED
      BY <2>1, <2>2
  <1>5. l \in Nat /\ o \in 0..(LINE - 1)
    BY <1>3
  <1> HIDE DEF l, o, k
  <1>6. CASE o + k < LINE
    <2>1. o + k \in Offsets
      BY <1>1, <1>4, <1>5, <1>6 DEF Offsets
    <2>2. QED
      BY <1>2, <1>4, <1>5, <2>1, OffsetOfLine DEF l
  <1>7. CASE o + k >= LINE
    <2>1. o + k - LINE \in Offsets /\ o + len >= LINE
      BY <1>1, <1>4, <1>5, <1>7 DEF Offsets
    <2>2. b = (l + 1) * LINE + (o + k - LINE)
      BY <1>1, <1>4, <1>5
    <2>3. lineOf(b) = l + 1
      BY <1>5, <2>1, <2>2, OffsetOfLine
    <2>4. QED
      BY <1>2, <2>1, <2>3 DEF l, o, GoesOn
  <1>8. QED
    BY <1>1, <1>4, <1>5, <1>6, <1>7

-----------------------------------------------------------------------------
\* The cache: one way a line, filling and storing.

LEMMA FirstIsIt ==
    ASSUME NEW c \in Caches, NEW l \in Lines, NEW w \in Locate(c, l),
           \A v \in Locate(c, l) : v = w
    PROVE  First(Locate(c, l)) = w
  <1>1. w \in Ways /\ Ways \subseteq Int /\ Locate(c, l) = {w}
    BY CacheShape DEF Locate, Ways
  <1>2. \A v \in {w} : w <= v
    BY <1>1
  <1>3. \E x \in {w} : \A v \in {w} : x <= v
    BY <1>2
  <1>4. First({w}) = w
    BY <1>3 DEF First
  <1>5. QED
    BY <1>1, <1>4

\* Every way of d that holds a line held it before in c, or has what memory
\* holds.
Kept(c, d) == \A m \in Lines : \A w \in Locate(d, m) :
    \/ w \in Locate(c, m) /\ d[groupbits(m)][w] = c[groupbits(m)][w]
    \/ \A o \in Offsets : d[groupbits(m)][w].data[o] = hw_mem[m * LINE + o]

Filling(c, l) == IF Free(c, l) = {} THEN Ways ELSE Last(Free(c, l))
FreshLine(l) == [valid |-> TRUE, mark |-> markbits(l),
                 data |-> [o \in Offsets |-> hw_mem[l * LINE + o]]]

LEMMA FilledType ==
    ASSUME NEW l \in Lines, hw_mem \in [Addrs -> CacheBytes]
    PROVE  FreshLine(l) \in CacheLine
  <1>1. \A o \in Offsets : hw_mem[l * LINE + o] \in CacheBytes
    BY AddressesOfLine
  <1>2. markbits(l) \in 0..(NR_LINES - 1)
    BY InTheCache
  <1>3. QED
    BY <1>1, <1>2 DEF FreshLine, CacheLine

LEMMA FillingType == ASSUME NEW c, NEW l PROVE Filling(c, l) \subseteq Ways
  BY DEF Filling, Last, Free

LEMMA FillsALine ==
    ASSUME NEW c \in Caches, Once(c), hw_mem \in [Addrs -> CacheBytes],
           NEW l \in Lines, Locate(c, l) = {}, NEW d \in LineFilled(c, l)
    PROVE  d \in Caches /\ Once(d) /\ Kept(c, d) /\ Locate(d, l) # {}
  <1> DEFINE g == groupbits(l)  f == FreshLine(l)
  <1>1. g \in Groups /\ f \in CacheLine
    BY InTheCache, FilledType
  <1>2. PICK w \in Ways : d = [c EXCEPT ![g][w] = f]
    BY FillingType DEF LineFilled, Filling, FreshLine
  <1>3. f.valid = TRUE /\ f.mark = markbits(l)
        /\ \A o \in Offsets : f.data[o] = hw_mem[l * LINE + o]
    BY DEF FreshLine
  <1> HIDE DEF f, g
  <1>4. d \in Caches
    BY <1>1, <1>2 DEF Caches
  <1>5. \A x \in Groups, y \in Ways : d[x][y] = IF x = g /\ y = w THEN f ELSE c[x][y]
    BY <1>1, <1>2 DEF Caches
  <1>6. Locate(d, l) = {w}
    <2>1. \A y \in Ways : y \in Locate(d, l) <=> y = w
      BY <1>1, <1>3, <1>5 DEF Locate, g
    <2>2. QED
      BY <2>1 DEF Locate
  <1>7. ASSUME NEW m \in Lines, m # l, NEW y \in Locate(d, m)
        PROVE  y \in Locate(c, m) /\ d[groupbits(m)][y] = c[groupbits(m)][y]
    <2>1. y \in Ways /\ groupbits(m) \in Groups /\ m \in Nat /\ l \in Nat
      BY InTheCache DEF Locate
    <2>2. ~(groupbits(m) = g /\ y = w)
      <3>1. SUFFICES ASSUME groupbits(m) = g, y = w PROVE FALSE
        OBVIOUS
      <3>2. d[groupbits(m)][y] = f
        BY <1>5, <2>1, <3>1
      <3>3. markbits(m) = markbits(l)
        BY <1>3, <3>2 DEF Locate
      <3>4. QED
        BY <1>7, <2>1, <3>1, <3>3, LinesDiffer DEF g
    <2>3. d[groupbits(m)][y] = c[groupbits(m)][y]
      BY <1>5, <2>1, <2>2
    <2>4. QED
      BY <2>1, <2>3 DEF Locate
  <1>8. Once(d)
    BY <1>6, <1>7 DEF Once
  <1>9. Kept(c, d)
    <2>1. ASSUME NEW m \in Lines, NEW y \in Locate(d, m)
          PROVE  \/ y \in Locate(c, m) /\ d[groupbits(m)][y] = c[groupbits(m)][y]
                 \/ \A o \in Offsets : d[groupbits(m)][y].data[o] = hw_mem[m * LINE + o]
      <3>1. CASE m = l
        <4>1. d[groupbits(m)][y] = f
          BY <1>1, <1>5, <1>6, <2>1, <3>1 DEF g
        <4>2. QED
          BY <1>3, <3>1, <4>1
      <3>2. CASE m # l
        BY <1>7, <2>1, <3>2
      <3>3. QED
        BY <3>1, <3>2
    <2>2. QED
      BY <2>1 DEF Kept
  <1>10. QED
    BY <1>4, <1>6, <1>8, <1>9

LEMMA PresentKeeps ==
    ASSUME NEW c \in Caches, Once(c), hw_mem \in [Addrs -> CacheBytes],
           NEW l \in Lines, NEW d \in Present(c, l)
    PROVE  d \in Caches /\ Once(d) /\ Kept(c, d) /\ Locate(d, l) # {}
  <1>1. CASE Locate(c, l) = {}
    BY <1>1, FillsALine DEF Present
  <1>2. CASE Locate(c, l) # {}
    BY <1>2 DEF Present, Kept
  <1>3. QED
    BY <1>1, <1>2

LEMMA KeptTwice ==
    ASSUME NEW c, NEW d, NEW e, Kept(c, d), Kept(d, e)
    PROVE  Kept(c, e)
  BY DEF Kept

-----------------------------------------------------------------------------
\* The invariant, way by way instead of byte by byte.

Fresh(c, h, t) == \A l \in Lines : \A w \in Locate(c, l) : \A o \in Offsets :
    l * LINE + o \notin t => c[groupbits(l)][w].data[o] = h[l * LINE + o]

LEMMA HeldIs ==
    ASSUME NEW c \in Caches, Once(c), NEW l \in Lines, NEW w \in Locate(c, l), NEW o \in Offsets
    PROVE  Held(c, l * LINE + o) = c[groupbits(l)][w].data[o]
  <1>1. lineOf(l * LINE + o) = l /\ offsetbits(l * LINE + o) = o
    BY OffsetOfLine DEF Lines
  <1>2. First(Locate(c, l)) = w
    BY FirstIsIt DEF Once
  <1>3. QED
    BY <1>1, <1>2 DEF Held

LEMMA BytesOfLine ==
    ASSUME NEW l \in Lines
    PROVE  /\ \A a \in InLine(l) : \E o \in Offsets : a = l * LINE + o
           /\ \A o \in Offsets : l * LINE + o \in InLine(l)
  <1>1. LINE \in Nat \ {0} /\ l \in Nat
    BY CacheShape DEF Lines
  <1> DEFINE b == l * LINE
  <1>2. b \in Nat
    BY <1>1
  <1> HIDE DEF b
  <1>3. \A a \in b..(b + LINE - 1) : a - b \in Offsets /\ a = b + (a - b)
    BY <1>1, <1>2 DEF Offsets
  <1>4. \A o \in Offsets : b + o \in b..(b + LINE - 1)
    BY <1>1, <1>2 DEF Offsets
  <1>5. QED
    BY <1>3, <1>4 DEF b, InLine

CurrentBut(c, h, t) == \A l \in Lines : Locate(c, l) # {} =>
    \A a \in InLine(l) \ t : Held(c, a) = h[a]

LEMMA FreshIs ==
    ASSUME NEW c \in Caches, Once(c), NEW h, NEW t
    PROVE  CurrentBut(c, h, t) <=> Fresh(c, h, t)
  <1>1. ASSUME CurrentBut(c, h, t) PROVE Fresh(c, h, t)
    <2>1. ASSUME NEW l \in Lines, NEW w \in Locate(c, l), NEW o \in Offsets,
                 l * LINE + o \notin t
          PROVE  c[groupbits(l)][w].data[o] = h[l * LINE + o]
      <3>1. l * LINE + o \in InLine(l) \ t
        BY <2>1, BytesOfLine
      <3>2. Held(c, l * LINE + o) = h[l * LINE + o]
        BY <1>1, <2>1, <3>1 DEF CurrentBut
      <3>3. QED
        BY <2>1, <3>2, HeldIs
    <2>2. QED
      BY <2>1 DEF Fresh
  <1>2. ASSUME Fresh(c, h, t) PROVE CurrentBut(c, h, t)
    <2>1. ASSUME NEW l \in Lines, Locate(c, l) # {}, NEW a \in InLine(l) \ t
          PROVE  Held(c, a) = h[a]
      <3>1. PICK o \in Offsets : a = l * LINE + o
        BY BytesOfLine
      <3>2. PICK w \in Locate(c, l) : TRUE
        BY <2>1
      <3>3. c[groupbits(l)][w].data[o] = h[a]
        BY <1>2, <3>1 DEF Fresh
      <3>4. QED
        BY <3>1, <3>3, HeldIs
    <2>2. QED
      BY <2>1 DEF CurrentBut
  <1>3. QED
    BY <1>1, <1>2

\* A byte that the cache holds and that is not torn is current.
LEMMA HeldIsCurrent ==
    ASSUME NEW c \in Caches, Once(c), NEW h, NEW t, Fresh(c, h, t),
           NEW a \in Addrs, a \notin t, Locate(c, lineOf(a)) # {}
    PROVE  Held(c, a) = h[a]
  <1>1. a \in Nat /\ lineOf(a) \in Lines /\ offsetbits(a) \in Offsets
        /\ a = lineOf(a) * LINE + offsetbits(a)
    BY SmallLines, LineOfAddress
  <1>2. PICK w \in Locate(c, lineOf(a)) : TRUE
    OBVIOUS
  <1> DEFINE l == lineOf(a)  o == offsetbits(a)
  <1> HIDE DEF l, o
  <1>3. l \in Lines /\ w \in Locate(c, l) /\ o \in Offsets /\ a = l * LINE + o
    BY <1>1, <1>2 DEF l, o
  <1>4. c[groupbits(l)][w].data[o] = h[a]
    BY <1>3 DEF Fresh
  <1>5. Held(c, a) = c[groupbits(l)][w].data[o]
    BY <1>3, HeldIs
  <1>6. QED
    BY <1>4, <1>5

\* Filling leaves the torn bytes of lines that were there, and no others.
LEMMA FillingMends ==
    ASSUME NEW c \in Caches, NEW d \in Caches, NEW t, Fresh(c, hw_mem, t), Kept(c, d),
           NEW u \in SUBSET t,
           \A b \in t \ u : b \in Addrs /\ Locate(c, lineOf(b)) = {}
    PROVE  Fresh(d, hw_mem, u)
  <1>1. ASSUME NEW l \in Lines, NEW w \in Locate(d, l), NEW o \in Offsets,
               l * LINE + o \notin u
        PROVE  d[groupbits(l)][w].data[o] = hw_mem[l * LINE + o]
    <2>1. CASE \A p \in Offsets : d[groupbits(l)][w].data[p] = hw_mem[l * LINE + p]
      BY <2>1
    <2>2. CASE w \in Locate(c, l) /\ d[groupbits(l)][w] = c[groupbits(l)][w]
      <3>1. lineOf(l * LINE + o) = l
        BY OffsetOfLine DEF Lines
      <3>2. l * LINE + o \notin t
        BY <1>1, <2>2, <3>1
      <3>3. QED
        BY <2>2, <3>2 DEF Fresh
    <2>3. QED
      BY <2>1, <2>2 DEF Kept
  <1>2. QED
    BY <1>1 DEF Fresh

LEMMA HeldType ==
    ASSUME NEW c \in Caches, Once(c), NEW a \in Addrs, Locate(c, lineOf(a)) # {}
    PROVE  Held(c, a) \in CacheBytes
  <1>1. a \in Nat /\ lineOf(a) \in Lines /\ offsetbits(a) \in Offsets
    BY SmallLines, LineOfAddress
  <1>2. PICK w \in Locate(c, lineOf(a)) : First(Locate(c, lineOf(a))) = w
    BY <1>1, FirstIsIt DEF Once
  <1>3. w \in Ways /\ groupbits(lineOf(a)) \in Groups
    BY <1>1, InTheCache DEF Locate
  <1>4. c[groupbits(lineOf(a))][w] \in CacheLine
    BY <1>3 DEF Caches
  <1>5. QED
    BY <1>1, <1>2, <1>4 DEF Held, CacheLine

\* Where accesses may be.
WithinLines(a, len) ==
    /\ a \in 0..((NR_LINES - 1) * LINE - 1) /\ len \in AccessLens
    /\ a + len <= (NR_LINES - 1) * LINE

LEMMA InMemory ==
    ASSUME NEW a, NEW len, WithinLines(a, len)
    PROVE  /\ a \in Nat /\ len \in 1..LINE
           /\ lineOf(a) \in Lines /\ lineOf(a) + 1 \in Lines
           /\ Area(a, len) \subseteq Addrs
           /\ \A b \in Area(a, len) : lineOf(b) # lineOf(a) =>
                    GoesOn(a, len) /\ lineOf(b) = lineOf(a) + 1
  <1> DEFINE top == (NR_LINES - 1) * LINE
  <1>1. LINE \in Nat \ {0} /\ NR_LINES \in Nat \ {0} /\ len \in 1..LINE
    BY CacheShape DEF WithinLines
  <1>2. top \in Nat /\ NR_LINES * LINE = top + LINE
    BY <1>1
  <1>3. a \in 0..(top - 1) /\ a + len <= top
    BY DEF WithinLines
  <1> HIDE DEF top
  <1>4. a \in Addrs /\ Area(a, len) \subseteq Addrs
    BY <1>1, <1>2, <1>3 DEF Addrs, Area
  <1>5. a \in Nat /\ lineOf(a) \in Lines /\ lineOf(a) \in Nat
    BY <1>4, SmallLines DEF Lines
  <1>6. lineOf(a) + 1 \in Lines
    <2> DEFINE l == lineOf(a)
    <2>1. l * LINE <= a
      BY <1>1, <1>5, LineOfAddress DEF Offsets
    <2>2. l \in Nat
      BY <1>5
    <2> HIDE DEF l
    <2>3. SUFFICES ASSUME NR_LINES - 1 <= l PROVE FALSE
      BY <1>1, <2>2 DEF Lines, l
    <2>4. (NR_LINES - 1) * LINE <= l * LINE
      BY <1>1, <2>2, <2>3
    <2>5. l * LINE \in Nat
      BY <1>1, <2>2
    <2>6. QED
      BY <1>2, <1>3, <2>1, <2>4, <2>5 DEF top
  <1>7. \A b \in Area(a, len) : lineOf(b) # lineOf(a) =>
            GoesOn(a, len) /\ lineOf(b) = lineOf(a) + 1
    BY <1>1, <1>5, TwoLines
  <1>8. QED
    BY <1>1, <1>4, <1>5, <1>6, <1>7

-----------------------------------------------------------------------------
\* A load: of the torn bytes only those in lines that were cached stay torn.
StillTorn == {b \in torn : Locate(cache, lineOf(b)) # {}}

LEMMA FilledIsFresh ==
    ASSUME CacheInv, NEW d \in Caches, Kept(cache, d)
    PROVE  Fresh(d, hw_mem, StillTorn)
  <1>1. cache \in Caches /\ Once(cache) /\ torn \subseteq Addrs
    BY DEF CacheInv, CacheTypeOK, Caches, CacheLine, OneWayPerLine, Once
  <1>2. Fresh(cache, hw_mem, torn)
    BY <1>1, FreshIs DEF CacheInv, StaleWhereTornOnly, CurrentBut
  <1>3. QED
    BY <1>1, <1>2, FillingMends DEF StillTorn

LEMMA Loads ==
    ASSUME CacheInv, NEW a, NEW len, WithinLines(a, len), cache_read(a, len)
    PROVE  CacheInv' /\ LoadsAreCurrent'
  <1> DEFINE l == lineOf(a)
  <1>1. /\ cache \in Caches /\ Once(cache) /\ hw_mem \in [Addrs -> CacheBytes]
        /\ torn \subseteq Addrs /\ writes \in 0..MaxWrites
    BY DEF CacheInv, CacheTypeOK, Caches, CacheLine, OneWayPerLine, Once
  <1>2. /\ l \in Lines /\ l + 1 \in Lines /\ Area(a, len) \subseteq Addrs
        /\ \A b \in Area(a, len) : lineOf(b) # l => GoesOn(a, len) /\ lineOf(b) = l + 1
    BY InMemory
  <1>3. hw_mem' = hw_mem /\ writes' = writes
    BY DEF cache_read
  <1>4. StillTorn \subseteq torn' /\ torn' \subseteq torn
    BY DEF cache_read, StillTorn
  <1> HIDE DEF l
  <1>5. PICK c \in Present(cache, l) :
            IF GoesOn(a, len)
            THEN \E d \in Present(c, l + 1) :
                    /\ cache' = d
                    /\ ret' = [b \in Area(a, len) |->
                                IF lineOf(b) = l THEN Held(c, b) ELSE Held(d, b)]
            ELSE cache' = c /\ ret' = [b \in Area(a, len) |-> Held(c, b)]
    BY DEF cache_read, l
  <1>6. c \in Caches /\ Once(c) /\ Kept(cache, c) /\ Locate(c, l) # {}
    BY <1>1, <1>2, PresentKeeps
  <1>7. \E d \in Caches :
            /\ cache' = d /\ Once(d) /\ Kept(cache, d)
            /\ GoesOn(a, len) => Locate(d, l + 1) # {}
            /\ ret' = [b \in Area(a, len) |->
                        IF lineOf(b) = l THEN Held(c, b) ELSE Held(d, b)]
    <2>1. CASE GoesOn(a, len)
      <3>1. PICK d \in Present(c, l + 1) :
                /\ cache' = d
                /\ ret' = [b \in Area(a, len) |->
                            IF lineOf(b) = l THEN Held(c, b) ELSE Held(d, b)]
        BY <1>5, <2>1
      <3>2. d \in Caches /\ Once(d) /\ Kept(c, d) /\ Locate(d, l + 1) # {}
        BY <1>1, <1>2, <1>6, <3>1, PresentKeeps
      <3>3. Kept(cache, d)
        BY <1>6, <3>2, KeptTwice
      <3>4. QED
        BY <3>1, <3>2, <3>3
    <2>2. CASE ~GoesOn(a, len)
      <3>1. \A b \in Area(a, len) : lineOf(b) = l
        BY <1>2, <2>2
      <3>2. ret' = [b \in Area(a, len) |-> IF lineOf(b) = l THEN Held(c, b) ELSE Held(c, b)]
        BY <1>5, <2>2
      <3>3. QED
        BY <1>5, <1>6, <2>2, <3>2
    <2>3. QED
      BY <2>1, <2>2
  <1>8. PICK d \in Caches :
            /\ cache' = d /\ Once(d) /\ Kept(cache, d)
            /\ GoesOn(a, len) => Locate(d, l + 1) # {}
            /\ ret' = [b \in Area(a, len) |->
                        IF lineOf(b) = l THEN Held(c, b) ELSE Held(d, b)]
    BY <1>7
  <1>9. Fresh(c, hw_mem, StillTorn) /\ Fresh(d, hw_mem, StillTorn)
    BY <1>6, <1>8, FilledIsFresh
  <1>10. ASSUME NEW b \in Area(a, len)
         PROVE  ret'[b] \in CacheBytes /\ (b \notin StillTorn => ret'[b] = hw_mem[b])
    <2>1. b \in Addrs
      BY <1>2
    <2>2. CASE lineOf(b) = l
      <3>1. ret'[b] = Held(c, b) /\ Locate(c, lineOf(b)) # {}
        BY <1>6, <1>8, <2>2
      <3>2. QED
        BY <1>6, <1>9, <2>1, <3>1, HeldType, HeldIsCurrent
    <2>3. CASE lineOf(b) # l
      <3>1. ret'[b] = Held(d, b) /\ Locate(d, lineOf(b)) # {}
        BY <1>2, <1>8, <2>3
      <3>2. QED
        BY <1>8, <1>9, <2>1, <3>1, HeldType, HeldIsCurrent
    <2>4. QED
      BY <2>2, <2>3
  <1>11. DOMAIN ret' = Area(a, len)
    BY <1>8
  <1>12. CacheTypeOK'
    <2>1. cache' \in Caches
      BY <1>8
    <2>2. QED
      BY <1>1, <1>2, <1>3, <1>4, <1>10, <1>11, <2>1 DEF CacheTypeOK, Caches, CacheLine
  <1>13. OneWayPerLine'
    BY <1>8 DEF OneWayPerLine, Once, Locate
  <1>14. StaleWhereTornOnly'
    <2>1. Fresh(d, hw_mem, torn')
      BY <1>4, <1>9 DEF Fresh
    <2>2. CurrentBut(d, hw_mem, torn')
      BY <1>8, <2>1, FreshIs
    <2>3. QED
      BY <1>3, <1>8, <2>2 DEF StaleWhereTornOnly, CurrentBut
  <1>15. LoadsAreCurrent'
    BY <1>3, <1>4, <1>10, <1>11 DEF LoadsAreCurrent
  <1>16. QED
    BY <1>12, <1>13, <1>14, <1>15 DEF CacheInv

-----------------------------------------------------------------------------
\* A store: cache and memory change alike, or the bytes that differ are torn.

\* In every way that holds a line, d has the bytes of new where they are and
\* c's elsewhere; of the lines only those of L are touched.
PatchedIn(c, d, L, new) == \A m \in Lines :
    /\ Locate(d, m) = Locate(c, m)
    /\ \A w \in Locate(c, m), o \in Offsets :
            d[groupbits(m)][w].data[o] =
                IF m \in L /\ m * LINE + o \in DOMAIN new THEN new[m * LINE + o]
                ELSE c[groupbits(m)][w].data[o]

LEMMA PatchesALine ==
    ASSUME NEW c \in Caches, Once(c), NEW l \in Lines, NEW new,
           \A b \in DOMAIN new : new[b] \in CacheBytes
    PROVE  /\ Patched(c, l, new) \in Caches /\ Once(Patched(c, l, new))
           /\ PatchedIn(c, Patched(c, l, new), {l}, new)
  <1> DEFINE d == Patched(c, l, new)  g == groupbits(l)
  <1>1. CASE Locate(c, l) = {}
    <2>1. d = c
      BY <1>1 DEF Patched
    <2>2. QED
      BY <1>1, <2>1 DEF PatchedIn
  <1>2. CASE Locate(c, l) # {}
    <2>1. PICK w \in Locate(c, l) : First(Locate(c, l)) = w
      BY <1>2, FirstIsIt DEF Once
    <2>2. w \in Ways /\ g \in Groups /\ c[g][w].valid = TRUE /\ c[g][w].mark = markbits(l)
      BY <2>1, InTheCache DEF Locate, Caches, CacheLine
    <2>3. c[g][w] \in CacheLine
      BY <2>2 DEF Caches
    <2> DEFINE f == [c[g][w] EXCEPT !.data = [o \in Offsets |->
                        IF l * LINE + o \in DOMAIN new THEN new[l * LINE + o]
                        ELSE c[g][w].data[o]]]
    <2>4. f \in CacheLine /\ f.valid = c[g][w].valid /\ f.mark = c[g][w].mark
      BY <2>3 DEF CacheLine
    <2>5. \A o \in Offsets : f.data[o] =
            IF l * LINE + o \in DOMAIN new THEN new[l * LINE + o] ELSE c[g][w].data[o]
      BY <2>3 DEF CacheLine
    <2>6. d = [c EXCEPT ![g][w] = f]
      BY <1>2, <2>1 DEF Patched
    <2> HIDE DEF d, f, g
    <2>7. d \in Caches
      BY <2>2, <2>4, <2>6 DEF Caches
    <2>8. \A x \in Groups, y \in Ways : d[x][y] = IF x = g /\ y = w THEN f ELSE c[x][y]
      BY <2>2, <2>6 DEF Caches
    <2>9. ASSUME NEW m \in Lines PROVE Locate(d, m) = Locate(c, m)
      <3>1. groupbits(m) \in Groups
        BY InTheCache
      <3>2. \A y \in Ways : /\ d[groupbits(m)][y].valid = c[groupbits(m)][y].valid
                            /\ d[groupbits(m)][y].mark = c[groupbits(m)][y].mark
        BY <2>4, <2>8, <3>1
      <3>3. QED
        BY <3>2 DEF Locate
    <2>10. ASSUME NEW m \in Lines, NEW y \in Locate(c, m), NEW o \in Offsets
           PROVE  d[groupbits(m)][y].data[o] =
                    IF m \in {l} /\ m * LINE + o \in DOMAIN new THEN new[m * LINE + o]
                    ELSE c[groupbits(m)][y].data[o]
      <3>1. groupbits(m) \in Groups /\ y \in Ways /\ m \in Nat /\ l \in Nat
        BY InTheCache DEF Locate
      <3>2. CASE m = l
        <4>1. y = w
          BY <2>1, <3>2 DEF Once
        <4>2. d[groupbits(m)][y] = f
          BY <2>8, <3>1, <3>2, <4>1 DEF g
        <4>3. QED
          BY <2>5, <3>2, <4>1, <4>2 DEF g
      <3>3. CASE m # l
        <4>1. ~(groupbits(m) = g /\ y = w)
          <5>1. SUFFICES ASSUME groupbits(m) = g, y = w PROVE FALSE
            OBVIOUS
          <5>2. markbits(m) = markbits(l)
            BY <2>2, <5>1 DEF Locate
          <5>3. QED
            BY <3>1, <3>3, <5>1, <5>2, LinesDiffer DEF g
        <4>2. d[groupbits(m)][y] = c[groupbits(m)][y]
          BY <2>8, <3>1, <4>1
        <4>3. QED
          BY <3>3, <4>2
      <3>4. QED
        BY <3>2, <3>3
    <2>11. Once(d)
      BY <2>9 DEF Once
    <2>12. QED
      BY <2>7, <2>9, <2>10, <2>11 DEF PatchedIn, d
  <1>3. QED
    BY <1>1, <1>2

LEMMA PatchesTwo ==
    ASSUME NEW c, NEW d, NEW e, NEW K, NEW L, NEW new,
           PatchedIn(c, d, K, new), PatchedIn(d, e, L, new)
    PROVE  PatchedIn(c, e, K \cup L, new)
  <1>1. ASSUME NEW m \in Lines
        PROVE  /\ Locate(e, m) = Locate(c, m)
               /\ \A w \in Locate(c, m), o \in Offsets :
                    e[groupbits(m)][w].data[o] =
                        IF m \in K \cup L /\ m * LINE + o \in DOMAIN new THEN new[m * LINE + o]
                        ELSE c[groupbits(m)][w].data[o]
    BY DEF PatchedIn
  <1>2. QED
    BY <1>1 DEF PatchedIn

LEMMA Stores ==
    ASSUME CacheInv, NEW a, NEW len, WithinLines(a, len), cache_write(a, len)
    PROVE  CacheInv' /\ LoadsAreCurrent'
  <1> DEFINE l == lineOf(a)  new == [b \in Area(a, len) |-> <<writes + 1, b>>]
  <1>1. /\ cache \in Caches /\ Once(cache) /\ hw_mem \in [Addrs -> CacheBytes]
        /\ torn \subseteq Addrs /\ writes \in 0..MaxWrites
    BY DEF CacheInv, CacheTypeOK, Caches, CacheLine, OneWayPerLine, Once
  <1>2. /\ l \in Lines /\ l + 1 \in Lines /\ Area(a, len) \subseteq Addrs
        /\ \A b \in Area(a, len) : lineOf(b) \in {l, l + 1}
    BY InMemory
  <1>3. /\ writes' = writes + 1 /\ writes' \in 1..MaxWrites /\ ret' = <<>>
        /\ cache' = Written(a, new)
        /\ hw_mem' = [b \in Addrs |-> IF b \in DOMAIN new THEN new[b] ELSE hw_mem[b]]
        /\ torn' = IF Locate(cache, l) # {} THEN torn \ DOMAIN new
                   ELSE torn \cup {b \in DOMAIN new : Locate(cache, lineOf(b)) # {}}
    BY <1>1, CacheShape DEF cache_write
  <1>4. DOMAIN new = Area(a, len) /\ \A b \in DOMAIN new : new[b] \in CacheBytes
    BY <1>2, <1>3 DEF CacheBytes
  <1> HIDE DEF l, new
  <1>5. hw_mem' \in [Addrs -> CacheBytes] /\ torn' \subseteq Addrs
    BY <1>1, <1>2, <1>3, <1>4
  <1>6. Fresh(cache, hw_mem, torn)
    BY <1>1, FreshIs DEF CacheInv, StaleWhereTornOnly, CurrentBut
  <1>7. cache' \in Caches /\ Once(cache') /\ Fresh(cache', hw_mem', torn')
    <2>1. CASE Locate(cache, l) = {}
      <3>1. cache' = cache
        BY <1>3, <2>1 DEF Written, l
      <3>2. ASSUME NEW m \in Lines, NEW w \in Locate(cache, m), NEW o \in Offsets,
                   m * LINE + o \notin torn'
            PROVE  cache[groupbits(m)][w].data[o] = hw_mem'[m * LINE + o]
        <4>1. lineOf(m * LINE + o) = m /\ m * LINE + o \in Addrs
          BY OffsetOfLine, AddressesOfLine DEF Lines
        <4>2. m * LINE + o \notin DOMAIN new /\ m * LINE + o \notin torn
          BY <1>3, <2>1, <3>2, <4>1
        <4>3. hw_mem'[m * LINE + o] = hw_mem[m * LINE + o]
          BY <1>3, <4>1, <4>2
        <4>4. QED
          BY <1>6, <4>2, <4>3 DEF Fresh
      <3>3. QED
        BY <1>1, <3>1, <3>2 DEF Fresh
    <2>2. CASE Locate(cache, l) # {}
      <3> DEFINE c == Patched(cache, l, new)  d == Patched(c, l + 1, new)
      <3>1. cache' = d
        BY <1>3, <2>2 DEF Written, l
      <3>2. c \in Caches /\ Once(c) /\ PatchedIn(cache, c, {l}, new)
        BY <1>1, <1>2, <1>4, PatchesALine
      <3> HIDE DEF c
      <3>3. d \in Caches /\ Once(d) /\ PatchedIn(c, d, {l + 1}, new)
        BY <1>2, <1>4, <3>2, PatchesALine
      <3> HIDE DEF d
      <3>4. PatchedIn(cache, d, {l} \cup {l + 1}, new)
        BY <3>2, <3>3, PatchesTwo
      <3>5. ASSUME NEW m \in Lines, NEW w \in Locate(d, m), NEW o \in Offsets,
                   m * LINE + o \notin torn'
            PROVE  d[groupbits(m)][w].data[o] = hw_mem'[m * LINE + o]
        <4>1. lineOf(m * LINE + o) = m /\ m * LINE + o \in Addrs
          BY OffsetOfLine, AddressesOfLine DEF Lines
        <4>2. w \in Locate(cache, m)
          BY <3>4 DEF PatchedIn
        <4>3. CASE m * LINE + o \in DOMAIN new
          <5>1. m \in {l} \cup {l + 1}
            BY <1>2, <1>4, <4>1, <4>3
          <5>2. d[groupbits(m)][w].data[o] = new[m * LINE + o]
            BY <3>4, <4>2, <4>3, <5>1 DEF PatchedIn
          <5>3. QED
            BY <1>3, <4>1, <4>3, <5>2
        <4>4. CASE m * LINE + o \notin DOMAIN new
          <5>1. d[groupbits(m)][w].data[o] = cache[groupbits(m)][w].data[o]
            BY <3>4, <4>2, <4>4 DEF PatchedIn
          <5>2. m * LINE + o \notin torn
            BY <1>3, <2>2, <3>5, <4>4
          <5>3. cache[groupbits(m)][w].data[o] = hw_mem[m * LINE + o]
            BY <1>6, <4>2, <5>2 DEF Fresh
          <5>4. QED
            BY <1>3, <4>1, <4>4, <5>1, <5>3
        <4>5. QED
          BY <4>3, <4>4
      <3>6. QED
        BY <3>1, <3>3, <3>5 DEF Fresh
    <2>3. QED
      BY <2>1, <2>2
  <1>8. CacheTypeOK'
    <2>1. DOMAIN ret' = {}
      BY <1>3
    <2>2. writes' \in 0..MaxWrites
      BY <1>1, <1>3
    <2>3. QED
      BY <1>5, <1>7, <2>1, <2>2 DEF CacheTypeOK, Caches, CacheLine
  <1>9. OneWayPerLine'
    BY <1>7 DEF OneWayPerLine, Once, Locate
  <1>10. StaleWhereTornOnly'
    <2>1. PICK d : d = cache'
      OBVIOUS
    <2>2. PICK h : h = hw_mem'
      OBVIOUS
    <2>3. PICK t : t = torn'
      OBVIOUS
    <2>4. CurrentBut(d, h, t)
      BY <1>7, <2>1, <2>2, <2>3, FreshIs
    <2>5. QED
      BY <2>1, <2>2, <2>3, <2>4 DEF StaleWhereTornOnly, CurrentBut
  <1>11. LoadsAreCurrent'
    <2>1. DOMAIN ret' = {}
      BY <1>3
    <2>2. QED
      BY <2>1 DEF LoadsAreCurrent
  <1>12. QED
    BY <1>8, <1>9, <1>10, <1>11 DEF CacheInv

-----------------------------------------------------------------------------
LEMMA CacheStarts == CacheInit => CacheInv /\ LoadsAreCurrent
  <1> SUFFICES ASSUME CacheInit PROVE CacheInv /\ LoadsAreCurrent
    OBVIOUS
  <1>1. DOMAIN ret = {} /\ torn = {} /\ writes = 0 /\ hw_mem \in [Addrs -> CacheBytes]
    BY DEF CacheInit, CacheBytes
  <1>2. cache \in Caches
    BY CacheShape DEF CacheInit, Caches, CacheLine, CacheBytes
  <1>3. \A l \in Lines : Locate(cache, l) = {}
    <2>1. \A g \in Groups, w \in Ways : cache[g][w].valid = FALSE
      BY DEF CacheInit
    <2>2. QED
      BY <2>1, InTheCache DEF Locate
  <1>4. CacheTypeOK
    BY <1>1, <1>2, CacheShape DEF CacheTypeOK, Caches, CacheLine
  <1>5. OneWayPerLine /\ StaleWhereTornOnly
    BY <1>3 DEF OneWayPerLine, StaleWhereTornOnly
  <1>6. QED
    BY <1>1, <1>4, <1>5 DEF CacheInv, LoadsAreCurrent

LEMMA CacheSteps ==
    CacheInv /\ LoadsAreCurrent /\ [CacheNext]_cacheVars => CacheInv' /\ LoadsAreCurrent'
  <1> SUFFICES ASSUME CacheInv, LoadsAreCurrent, [CacheNext]_cacheVars
               PROVE  CacheInv' /\ LoadsAreCurrent'
    OBVIOUS
  <1>1. CASE CacheNext
    <2>1. PICK a \in 0..((NR_LINES - 1) * LINE - 1), len \in AccessLens :
              /\ a + len <= (NR_LINES - 1) * LINE
              /\ cache_read(a, len) \/ cache_write(a, len)
      BY <1>1 DEF CacheNext
    <2>2. WithinLines(a, len)
      BY <2>1 DEF WithinLines
    <2>3. QED
      BY <2>1, <2>2, Loads, Stores
  <1>2. CASE UNCHANGED cacheVars
    <2>1. /\ cache' = cache /\ hw_mem' = hw_mem /\ ret' = ret
          /\ writes' = writes /\ torn' = torn
      BY <1>2 DEF cacheVars
    <2>2. CacheTypeOK'
      BY <2>1 DEF CacheInv, CacheTypeOK
    <2>3. OneWayPerLine' /\ StaleWhereTornOnly'
      BY <2>1 DEF CacheInv, OneWayPerLine, StaleWhereTornOnly, Locate, Held
    <2>4. LoadsAreCurrent'
      BY <2>1 DEF LoadsAreCurrent
    <2>5. QED
      BY <2>2, <2>3, <2>4 DEF CacheInv
  <1>3. QED
    BY <1>1, <1>2

\* One way a line, and a cached line is what memory holds but for torn bytes.
THEOREM CacheIsSound == CacheSpec => []CacheInv
  <1>1. CacheSpec => [](CacheInv /\ LoadsAreCurrent)
    BY CacheStarts, CacheSteps, PTL DEF CacheSpec
  <1>2. QED
    BY <1>1, PTL

\* A load returns the bytes stored last, whatever was filled and evicted, also
\* across the end of a line (cache_read), but for torn bytes: those of a cached
\* line whose store began in the line below when that one was not cached
\* (cache.c:57), until their line is filled again or they are stored anew.
THEOREM CacheReturnsTheLastStore == CacheSpec => []LoadsAreCurrent
  <1>1. CacheSpec => [](CacheInv /\ LoadsAreCurrent)
    BY CacheStarts, CacheSteps, PTL DEF CacheSpec
  <1>2. QED
    BY <1>1, PTL

-----------------------------------------------------------------------------
\* Numbers: the constants, pages and bytes.

LEMMA Numbers ==
    /\ PAGE \in Nat \ {0} /\ NR_PTE \in Nat \ {0} /\ TLB_SIZE \in Nat \ {0}
    /\ KMEM \in Nat /\ PHY_MEM \in Nat /\ KOFFSET \in Nat /\ STACK_PAGES \in Nat
    /\ MaxBreak \in Nat /\ MaxStores \in Nat
    /\ KMEM < PHY_MEM /\ VIDEO \in 0..(NR_PTE - 1) /\ VIDEO < KMEM /\ VIDEO \in Nat
  BY Layout

LEMMA Commutes ==
    ASSUME NEW m \in Nat, NEW n \in Nat
    PROVE  m * n = n * m /\ m * n \in Nat
  OBVIOUS

LEMMA ProductOrder ==
    ASSUME NEW d \in Nat, NEW m \in Nat, NEW n \in Nat, m <= n
    PROVE  d * m <= d * n
  <1>1. PICK k \in Nat : n = m + k
    <2>1. n - m \in Nat /\ n = m + (n - m)
      OBVIOUS
    <2>2. QED
      BY <2>1
  <1>2. d * n = d * m + d * k
    BY <1>1
  <1>3. d * k \in Nat /\ d * m \in Nat
    OBVIOUS
  <1>4. QED
    BY <1>2, <1>3

LEMMA QuotientBelow ==
    ASSUME NEW d \in Nat \ {0}, NEW n \in Nat, NEW k \in Nat, n < k * d
    PROVE  n \div d < k
  <1>1. /\ n \div d \in Nat /\ n % d \in 0..(d - 1)
        /\ n = d * (n \div d) + (n % d)
    BY QuotientIs
  <1>2. CASE k <= n \div d
    <2>1. d * k <= d * (n \div d)
      BY <1>1, <1>2, ProductOrder
    <2>2. QED
      BY <1>1, <2>1, Commutes
  <1>3. QED
    BY <1>1, <1>2

LEMMA QuotientAbove ==
    ASSUME NEW d \in Nat \ {0}, NEW n \in Nat, NEW k \in Nat, n >= k * d
    PROVE  n \div d >= k
  <1>1. /\ n \div d \in Nat /\ n % d \in 0..(d - 1)
        /\ n = d * (n \div d) + (n % d)
    BY QuotientIs
  <1>2. CASE n \div d < k
    <2>1. d * ((n \div d) + 1) <= d * k
      BY <1>1, <1>2, ProductOrder
    <2>2. d * ((n \div d) + 1) = d * (n \div d) + d
      BY <1>1
    <2>3. QED
      BY <1>1, <2>1, <2>2, Commutes
  <1>3. QED
    BY <1>1, <1>2

LEMMA QuotientOrder ==
    ASSUME NEW d \in Nat \ {0}, NEW m \in Nat, NEW n \in Nat, m <= n
    PROVE  m \div d <= n \div d
  <1>1. /\ m \div d \in Nat /\ m % d \in 0..(d - 1)
        /\ m = d * (m \div d) + (m % d)
    BY QuotientIs
  <1>2. (m \div d) * d = d * (m \div d)
    BY <1>1, Commutes
  <1>3. n >= (m \div d) * d
    BY <1>1, <1>2
  <1>4. QED
    BY <1>1, <1>3, QuotientAbove

\* Going on past the end of a page.
LEMMA QuotientSum ==
    ASSUME NEW d \in Nat \ {0}, NEW a \in Nat, NEW r \in Nat
    PROVE  (a * d + r) \div d = a + (r \div d) /\ (a * d + r) % d = r % d
  <1>1. /\ r \div d \in Nat /\ r % d \in 0..(d - 1)
        /\ r = d * (r \div d) + (r % d)
    BY QuotientIs
  <1>2. a * d \in Nat /\ a * d = d * a
    BY Commutes
  <1>3. PICK n \in Nat : n = a * d + r
    BY <1>2
  <1>4. /\ n \div d \in Nat /\ n % d \in 0..(d - 1)
        /\ n = d * (n \div d) + (n % d)
    BY QuotientIs
  <1>5. d * (a + (r \div d)) = d * a + d * (r \div d)
    BY <1>1
  <1>6. n = d * (a + (r \div d)) + (r % d)
    BY <1>1, <1>2, <1>3, <1>5
  <1>7. a + (r \div d) \in Nat
    BY <1>1
  <1>8. n \div d = a + (r \div d) /\ n % d = r % d
    <2>1. d * (n \div d) + (n % d) = d * (a + (r \div d)) + (r % d)
      BY <1>4, <1>6
    <2>2. QED
      BY <1>1, <1>4, <1>7, <2>1, OneQuotient, SMTT(60)
  <1>9. QED
    BY <1>3, <1>8

\* A page has its table and its entry, and no other page has both.
LEMMA PagePlace ==
    /\ \A p \in Pages : /\ p \in Nat /\ Dir(p) \in Dirs /\ Entry(p) \in 0..(NR_PTE - 1)
                        /\ Dir(p) = 0 <=> p < NR_PTE
                        /\ p < NR_PTE => Entry(p) = p
    /\ \A p, q \in Pages : Dir(p) = Dir(q) /\ Entry(p) = Entry(q) => p = q
  <1>1. ASSUME NEW p \in Pages
        PROVE  /\ p \in Nat /\ Dir(p) \in Nat /\ Entry(p) \in 0..(NR_PTE - 1)
               /\ p = NR_PTE * Dir(p) + Entry(p)
               /\ Dir(p) \in Dirs
               /\ Dir(p) = 0 <=> p < NR_PTE
               /\ p < NR_PTE => Entry(p) = p
    <2>1. p \in Nat /\ p <= KOFFSET - 1 /\ KOFFSET - 1 \in Nat
      BY Numbers DEF Pages
    <2>2. /\ Dir(p) \in Nat /\ Entry(p) \in 0..(NR_PTE - 1)
          /\ p = NR_PTE * Dir(p) + Entry(p)
      BY <2>1, Numbers, QuotientIs DEF Dir, Entry
    <2>3. Dir(p) \in Dirs
      <3>1. p \div NR_PTE <= (KOFFSET - 1) \div NR_PTE
        BY <2>1, Numbers, QuotientOrder
      <3>2. (KOFFSET - 1) \div NR_PTE \in Nat
        BY <2>1, Numbers, QuotientIs
      <3>3. QED
        BY <2>2, <3>1, <3>2 DEF Dir, Dirs
    <2>4. Dir(p) = 0 => p = Entry(p)
      <3>1. ASSUME Dir(p) = 0
            PROVE  p = Entry(p)
        <4>1. NR_PTE * Dir(p) = 0
          BY <3>1, Numbers
        <4>2. QED
          BY <2>2, <4>1, Numbers
      <3>2. QED
        BY <3>1
    <2>5. p < NR_PTE => Dir(p) = 0
      <3>1. ASSUME p < NR_PTE
            PROVE  Dir(p) = 0
        <4>1. p < 1 * NR_PTE
          BY <3>1, Numbers
        <4>2. p \div NR_PTE < 1
          BY <2>1, <4>1, Numbers, QuotientBelow
        <4>3. QED
          BY <2>2, <4>2 DEF Dir
      <3>2. QED
        BY <3>1
    <2>6. QED
      BY <2>1, <2>2, <2>3, <2>4, <2>5, Numbers
  <1>2. QED
    BY <1>1

\* The segments in memory: each with at least a byte, in order, apart from each
\* other, above the frames' own addresses and, with the heap, below the stack.
LEMMA SegmentList ==
    /\ Len(Segments) \in Nat \ {0} /\ DOMAIN Segments = 1..Len(Segments)
    /\ \A j \in 1..Len(Segments) :
        /\ Segments[j] \in [vaddr : Nat, filesz : Nat, memsz : Nat]
        /\ Segments[j].vaddr \in Nat /\ Segments[j].filesz \in Nat /\ Segments[j].memsz \in Nat
        /\ Segments[j].filesz <= Segments[j].memsz /\ Segments[j].memsz > 0
        /\ Segments[j].vaddr >= PAGE * PHY_MEM /\ Segments[j].vaddr >= PAGE * NR_PTE
        /\ \A i \in 1..(j - 1) : Segments[j].vaddr >= Segments[i].vaddr + Segments[i].memsz
        /\ Segments[j].vaddr + Segments[j].memsz + MaxBreak <= (KOFFSET - STACK_PAGES) * PAGE
  <1>1. PICK S : S = [vaddr : Nat, filesz : Nat, memsz : Nat]
    OBVIOUS
  <1>2. Segments \in Seq(S) /\ Segments # <<>>
    BY <1>1, Layout
  <1>3. Len(Segments) \in Nat \ {0} /\ DOMAIN Segments = 1..Len(Segments)
    BY <1>2
  <1>4. \A j \in 1..Len(Segments) : Segments[j] \in S
    BY <1>2
  <1>5. \A s \in S : s.vaddr \in Nat /\ s.filesz \in Nat /\ s.memsz \in Nat
    BY <1>1
  <1>6. QED
    BY <1>1, <1>3, <1>4, <1>5, Layout

LEMMA TableNames ==
    /\ Dirs \subseteq Nat /\ 0 \in Dirs /\ vptable \in Nat /\ vptable \notin Dirs
    /\ Tables = Dirs \cup {vptable} /\ None \notin Tables /\ None \notin Frames
    /\ None \notin Pages /\ \A d \in Dirs : d \in Tables
  <1>1. Pages # {} => KOFFSET - 1 \in Nat
    BY Numbers DEF Pages
  <1>2. KOFFSET # 0
    <2>1. PICK j \in 1..Len(Segments) : TRUE
      BY SegmentList
    <2>2. /\ Segments[j].vaddr + Segments[j].memsz + MaxBreak <= (KOFFSET - STACK_PAGES) * PAGE
          /\ Segments[j].memsz > 0 /\ Segments[j].vaddr \in Nat /\ Segments[j].memsz \in Nat
      BY <2>1, SegmentList
    <2>3. ASSUME KOFFSET = 0
          PROVE  FALSE
      <3>1. (KOFFSET - STACK_PAGES) * PAGE <= 0
        BY <2>3, Numbers
      <3>2. QED
        BY <2>2, <3>1, Numbers
    <2>4. QED
      BY <2>3
  <1>3. (KOFFSET - 1) \div NR_PTE \in Nat
    BY <1>2, Numbers, QuotientIs
  <1>4. QED
    BY <1>3 DEF Dirs, Tables, vptable, None, Frames, Pages

\* Frames are given in the order of the pages, each one once.
LEMMA GivenInOrder ==
    ASSUME pf_idx \in Nat, NEW new \in SUBSET Pages
    PROVE  /\ IsFiniteSet(new) /\ Cardinality(new) \in Nat
           /\ \A p \in new : Given(new, p) \in pf_idx..(pf_idx + Cardinality(new) - 1)
           /\ \A p, q \in new : p < q => Given(new, p) < Given(new, q)
  <1>1. IsFiniteSet(new) /\ Cardinality(new) \in Nat
    <2>1. IsFiniteSet(Pages)
      BY Numbers, FS_Interval DEF Pages
    <2>2. IsFiniteSet(new)
      BY <2>1, FS_Subset
    <2>3. QED
      BY <2>2, FS_CardinalityType
  <1>2. \A p \in new : p \in Nat
    BY PagePlace
  <1>3. ASSUME NEW S \in SUBSET new, NEW T \in SUBSET S, NEW x \in S, x \notin T
        PROVE  /\ Cardinality(S) \in Nat /\ Cardinality(T) \in Nat
               /\ Cardinality(T) < Cardinality(S)
    <2>1. IsFiniteSet(S)
      BY <1>1, FS_Subset
    <2>2. IsFiniteSet(T) /\ Cardinality(T) <= Cardinality(S) /\ Cardinality(S) # Cardinality(T)
      BY <1>3, <2>1, FS_Subset
    <2>3. Cardinality(S) \in Nat /\ Cardinality(T) \in Nat
      BY <2>1, <2>2, FS_CardinalityType
    <2>4. QED
      BY <2>2, <2>3
  <1>4. ASSUME NEW p \in new
        PROVE  Given(new, p) \in pf_idx..(pf_idx + Cardinality(new) - 1)
    <2>1. PICK T : T = {q \in new : q < p}
      OBVIOUS
    <2>2. T \in SUBSET new /\ p \notin T
      BY <1>2, <2>1
    <2>3. Cardinality(T) \in Nat /\ Cardinality(T) < Cardinality(new)
      BY <1>3, <2>2
    <2>4. Given(new, p) = pf_idx + Cardinality(T)
      BY <2>1 DEF Given
    <2>5. QED
      BY <1>1, <2>3, <2>4
  <1>5. ASSUME NEW p \in new, NEW q \in new, p < q
        PROVE  Given(new, p) < Given(new, q)
    <2>1. PICK T : T = {r \in new : r < p}
      OBVIOUS
    <2>2. PICK S : S = {r \in new : r < q}
      OBVIOUS
    <2>3. S \in SUBSET new /\ T \in SUBSET S /\ p \in S /\ p \notin T
      BY <1>2, <1>5, <2>1, <2>2
    <2>4. Cardinality(S) \in Nat /\ Cardinality(T) \in Nat /\ Cardinality(T) < Cardinality(S)
      BY <1>3, <2>3
    <2>5. Given(new, p) = pf_idx + Cardinality(T) /\ Given(new, q) = pf_idx + Cardinality(S)
      BY <2>1, <2>2 DEF Given
    <2>6. QED
      BY <2>4, <2>5
  <1>6. QED
    BY <1>1, <1>4, <1>5

\* Neighbouring pages get neighbouring frames.
LEMMA GivenToNeighbours ==
    ASSUME pf_idx \in Nat, NEW lo \in Nat, NEW b \in Nat, lo <= b + 1
    PROVE  /\ Cardinality(lo..b) = b + 1 - lo
           /\ \A p \in lo..b : Given(lo..b, p) = pf_idx + p - lo
  <1>1. Cardinality(lo..b) = b + 1 - lo
    <2>1. lo \in Int /\ b \in Int
      OBVIOUS
    <2>2. Cardinality(lo..b) = IF lo > b THEN 0 ELSE b - lo + 1
      BY <2>1, FS_Interval
    <2>3. QED
      BY <2>2
  <1>2. ASSUME NEW p \in lo..b
        PROVE  Given(lo..b, p) = pf_idx + p - lo
    <2>1. {q \in lo..b : q < p} = lo..(p - 1)
      OBVIOUS
    <2>2. lo \in Int /\ p - 1 \in Int /\ lo <= p
      OBVIOUS
    <2>3. Cardinality(lo..(p - 1)) = IF lo > p - 1 THEN 0 ELSE (p - 1) - lo + 1
      BY <2>2, FS_Interval
    <2>4. Cardinality({q \in lo..b : q < p}) = p - lo
      BY <2>1, <2>2, <2>3
    <2>5. QED
      BY <2>4 DEF Given
  <1>3. QED
    BY <1>1, <1>2

\* What mm_malloc() does to the walk: new pages have the frames given, the
\* others what they had.
LEMMA WalkWith ==
    ASSUME PgTypeOK, TablesSound, NEW new \in SUBSET Pages,
           \A p \in new : ~Mapped(p) /\ (pc # "kernel" => Dir(p) # 0),
           pf_idx + Cardinality(new) <= PHY_MEM
    PROVE  LET dir == DirWith(new)
               tabs == TablesWith(new)
           IN /\ dir \in [Dirs -> {None} \cup Tables]
              /\ tabs \in [Tables -> [0..(NR_PTE - 1) -> Frames \cup {None}]]
              /\ \A d \in Dirs :
                    IF pc # "kernel" /\ d = 0 THEN dir[d] = vptable ELSE dir[d] \in {None, d}
              /\ \A d \in Dirs, e \in 0..(NR_PTE - 1) : dir[d] = None => tabs[d][e] = None
              /\ \A e \in 0..(NR_PTE - 1) : tabs[vptable][e] = tables[vptable][e]
              /\ \A p \in Pages : Walk(dir, tabs, p) =
                    IF p \in new THEN Given(new, p) ELSE Walk(updir, tables, p)
  <1> DEFINE dir == DirWith(new)
             tabs == TablesWith(new)
             E == 0..(NR_PTE - 1)
             Here(t, e) == {p \in new : dir[Dir(p)] = t /\ Entry(p) = e}
  <1>1. /\ updir \in [Dirs -> {None} \cup Tables]
        /\ tables \in [Tables -> [E -> Frames \cup {None}]]
        /\ pf_idx \in Nat /\ KMEM <= pf_idx
    BY Numbers DEF PgTypeOK
  <1>2. \A d \in Dirs : dir[d] = IF updir[d] = None /\ \E p \in new : Dir(p) = d THEN d ELSE updir[d]
    BY DEF DirWith
  <1>3. \A p \in new : dir[Dir(p)] = Dir(p) /\ Dir(p) \in Dirs /\ Entry(p) \in E /\ p \in Pages
    BY <1>2, PagePlace DEF TablesSound
  <1>4. \A t \in Tables, e \in E : tabs[t][e] =
            IF Here(t, e) = {} THEN tables[t][e] ELSE Given(new, CHOOSE p \in Here(t, e) : TRUE)
    BY DEF TablesWith
  <1>5. \A p \in new : tabs[Dir(p)][Entry(p)] = Given(new, p)
    <2>1. ASSUME NEW p \in new
          PROVE  tabs[Dir(p)][Entry(p)] = Given(new, p)
      <3>1. Here(Dir(p), Entry(p)) = {p}
        BY <1>3, PagePlace
      <3>2. (CHOOSE q \in Here(Dir(p), Entry(p)) : TRUE) = p
        BY <3>1
      <3>3. Dir(p) \in Tables /\ Entry(p) \in E
        BY <1>3, TableNames
      <3>4. \A t \in Tables, e \in E : Here(t, e) # {} =>
                tabs[t][e] = Given(new, CHOOSE q \in Here(t, e) : TRUE)
        BY <1>4
      <3>5. tabs[Dir(p)][Entry(p)] = Given(new, CHOOSE q \in Here(Dir(p), Entry(p)) : TRUE)
        BY <3>1, <3>3, <3>4, Zenon
      <3>6. QED
        BY <3>2, <3>5, Zenon
    <2>2. QED
      BY <2>1
  <1>6. ASSUME NEW t \in Tables, NEW e \in E, \A p \in new : Dir(p) = t => Entry(p) # e
        PROVE  tabs[t][e] = tables[t][e]
    <2>1. Here(t, e) = {}
      BY <1>3, <1>6
    <2>2. QED
      BY <1>4, <2>1
  <1>7. dir \in [Dirs -> {None} \cup Tables]
    BY <1>1, <1>2, TableNames DEF DirWith
  <1>8. tabs \in [Tables -> [E -> Frames \cup {None}]]
    <2>1. ASSUME NEW t \in Tables, NEW e \in E
          PROVE  tabs[t][e] \in Frames \cup {None}
      <3>1. CASE \A p \in new : Dir(p) = t => Entry(p) # e
        BY <1>1, <1>6, <3>1
      <3>2. CASE \E p \in new : Dir(p) = t /\ Entry(p) = e
        <4>1. PICK p \in new : Dir(p) = t /\ Entry(p) = e
          BY <3>2
        <4>2. Given(new, p) \in pf_idx..(pf_idx + Cardinality(new) - 1) /\ Cardinality(new) \in Nat
          BY <1>1, GivenInOrder
        <4>3. Given(new, p) \in Frames
          BY <1>1, <4>2, Numbers DEF Frames
        <4>4. QED
          BY <1>5, <4>1, <4>3
      <3>3. QED
        BY <3>1, <3>2
    <2>2. tabs = [t \in Tables |-> [e \in E |-> tabs[t][e]]]
      BY DEF TablesWith
    <2>3. QED
      BY <2>1, <2>2
  <1>9. \A d \in Dirs : IF pc # "kernel" /\ d = 0 THEN dir[d] = vptable ELSE dir[d] \in {None, d}
    BY <1>2, TableNames DEF TablesSound
  <1>10. \A d \in Dirs, e \in E : dir[d] = None => tabs[d][e] = None
    <2>1. ASSUME NEW d \in Dirs, NEW e \in E, dir[d] = None
          PROVE  tabs[d][e] = None
      <3>1. updir[d] = None /\ \A p \in new : Dir(p) # d
        BY <1>2, <1>3, <2>1, TableNames
      <3>2. tabs[d][e] = tables[d][e]
        BY <1>6, <3>1, TableNames
      <3>3. QED
        BY <3>1, <3>2 DEF TablesSound
    <2>2. QED
      BY <2>1
  <1>11. \A e \in E : tabs[vptable][e] = tables[vptable][e]
    BY <1>3, <1>6, TableNames
  <1>12. ASSUME NEW p \in Pages
         PROVE  Walk(dir, tabs, p) = IF p \in new THEN Given(new, p) ELSE Walk(updir, tables, p)
    <2>0. Dir(p) \in Dirs /\ Entry(p) \in E
      BY PagePlace
    <2>1. CASE p \in new
      <3>1. dir[Dir(p)] # None
        BY <1>3, <2>1, TableNames
      <3>2. QED
        BY <1>3, <1>5, <2>1, <3>1 DEF Walk
    <2>2. CASE p \notin new /\ updir[Dir(p)] = None /\ \E q \in new : Dir(q) = Dir(p)
      <3>1. dir[Dir(p)] = Dir(p) /\ Dir(p) # None
        BY <1>2, <2>0, <2>2, TableNames
      <3>2. \A q \in new : Dir(q) = Dir(p) => Entry(q) # Entry(p)
        BY <2>2, PagePlace
      <3>3. tabs[Dir(p)][Entry(p)] = tables[Dir(p)][Entry(p)]
        BY <1>6, <2>0, <3>2, TableNames
      <3>4. tables[Dir(p)][Entry(p)] = None
        BY <2>0, <2>2 DEF TablesSound
      <3>5. QED
        BY <2>2, <3>1, <3>3, <3>4 DEF Walk
    <2>3. CASE p \notin new /\ ~(updir[Dir(p)] = None /\ \E q \in new : Dir(q) = Dir(p))
      <3>1. dir[Dir(p)] = updir[Dir(p)]
        BY <1>2, <2>0, <2>3
      <3>2. CASE updir[Dir(p)] = None
        BY <2>3, <3>1, <3>2 DEF Walk
      <3>3. CASE updir[Dir(p)] # None
        <4>1. updir[Dir(p)] = Dir(p) \/ updir[Dir(p)] = vptable
          BY <2>0, <3>3 DEF TablesSound
        <4>2. \A q \in new : Dir(q) = updir[Dir(p)] => Entry(q) # Entry(p)
          BY <1>3, <2>0, <2>3, <4>1, PagePlace, TableNames
        <4>3. updir[Dir(p)] \in Tables
          BY <2>0, <4>1, TableNames
        <4>4. tabs[updir[Dir(p)]][Entry(p)] = tables[updir[Dir(p)]][Entry(p)]
          BY <1>6, <2>0, <4>2, <4>3
        <4>5. QED
          BY <2>3, <3>1, <3>3, <4>4 DEF Walk
      <3>4. QED
        BY <3>2, <3>3
    <2>4. QED
      BY <2>1, <2>2, <2>3
  <1>13. QED
    BY <1>7, <1>8, <1>9, <1>10, <1>11, <1>12

-----------------------------------------------------------------------------
\* Addresses.

Addresses == 0..(KOFFSET * PAGE - 1)

\* Where programs lie: above the frames' own addresses and the first directory
\* entry.
High == {v \in Addresses : v >= PAGE * PHY_MEM /\ v >= PAGE * NR_PTE}

LEMMA AddressIs ==
    ASSUME NEW v \in Addresses
    PROVE  /\ v \in Nat /\ v \div PAGE \in Pages /\ v \div PAGE \in Nat
           /\ v % PAGE \in 0..(PAGE - 1)
           /\ v = PAGE * (v \div PAGE) + (v % PAGE)
           /\ v \in High => v \div PAGE >= PHY_MEM /\ v \div PAGE >= NR_PTE
  <1>1. KOFFSET * PAGE \in Nat
    BY Numbers
  <1>2. v \in Nat /\ v < KOFFSET * PAGE
    BY <1>1 DEF Addresses
  <1>3. /\ v \div PAGE \in Nat /\ v % PAGE \in 0..(PAGE - 1)
        /\ v = PAGE * (v \div PAGE) + (v % PAGE)
    BY <1>2, Numbers, QuotientIs
  <1>4. v \div PAGE < KOFFSET
    BY <1>2, Numbers, QuotientBelow
  <1>5. v \div PAGE \in Pages
    BY <1>3, <1>4, Numbers DEF Pages
  <1>6. ASSUME v \in High
        PROVE  v \div PAGE >= PHY_MEM /\ v \div PAGE >= NR_PTE
    <2>1. PAGE * PHY_MEM = PHY_MEM * PAGE /\ PAGE * NR_PTE = NR_PTE * PAGE
      BY Numbers, Commutes
    <2>2. v >= PHY_MEM * PAGE /\ v >= NR_PTE * PAGE
      BY <1>6, <2>1 DEF High
    <2>3. v \div PAGE >= PHY_MEM
      BY <1>2, <2>2, Numbers, QuotientAbove
    <2>4. v \div PAGE >= NR_PTE
      BY <1>2, <2>2, Numbers, QuotientAbove
    <2>5. QED
      BY <2>3, <2>4
  <1>7. QED
    BY <1>2, <1>3, <1>5, <1>6

\* Different addresses of a memory whose frames are apart are different cells.
LEMMA CellsApart ==
    ASSUME NEW dir, NEW tabs, NEW v \in Addresses, NEW w \in Addresses, v # w,
           Walk(dir, tabs, v \div PAGE) # None,
           \A q \in Pages \ {v \div PAGE} : Walk(dir, tabs, v \div PAGE) # Walk(dir, tabs, q)
    PROVE  <<Walk(dir, tabs, v \div PAGE), v % PAGE>> # <<Walk(dir, tabs, w \div PAGE), w % PAGE>>
  <1>1. /\ w \div PAGE \in Pages
        /\ v = PAGE * (v \div PAGE) + (v % PAGE) /\ w = PAGE * (w \div PAGE) + (w % PAGE)
    BY AddressIs
  <1>2. CASE v \div PAGE = w \div PAGE
    <2>1. v % PAGE # w % PAGE
      BY <1>1, <1>2
    <2>2. QED
      BY <2>1
  <1>3. CASE v \div PAGE # w \div PAGE
    BY <1>1, <1>3
  <1>4. QED
    BY <1>2, <1>3

\* The image, the heap and the stack lie high, in this order.
LEMMA ProgramIsHigh ==
    /\ \A j \in 1..Len(Segments) :
        /\ LastByte(j) \in Nat /\ Segments[j].vaddr <= LastByte(j)
        /\ \A v \in Segments[j].vaddr..LastByte(j) : v \in High
    /\ End = LastByte(Len(Segments)) + 1 /\ End \in Nat
    /\ \A v \in (End - 1)..(End + MaxBreak - 1) : v \in High
    /\ \A v \in Stack : v \in High
    /\ \A v \in Image : \E j \in 1..Len(Segments) : v \in Segments[j].vaddr..LastByte(j)
    /\ Image \subseteq High
  <1>0. PICK n, S, K, A, B : /\ n = Len(Segments) /\ S = (KOFFSET - STACK_PAGES) * PAGE
                             /\ K = KOFFSET * PAGE /\ A = PAGE * PHY_MEM /\ B = PAGE * NR_PTE
    OBVIOUS
  <1>1. n \in 1..n /\ n \in Nat
    BY <1>0, SegmentList
  <1>2. S \in Int /\ S <= K /\ K \in Nat
    <2>1. KOFFSET * PAGE = (KOFFSET - STACK_PAGES) * PAGE + STACK_PAGES * PAGE
      BY Numbers
    <2>2. /\ STACK_PAGES * PAGE \in Nat /\ KOFFSET * PAGE \in Nat
          /\ (KOFFSET - STACK_PAGES) * PAGE \in Int
      BY Numbers
    <2>3. QED
      BY <1>0, <2>1, <2>2
  <1>3. A \in Nat /\ B \in Nat
    BY <1>0, Numbers
  <1>4. ASSUME NEW j \in 1..n
        PROVE  /\ Segments[j].vaddr \in Nat /\ Segments[j].memsz \in Nat
               /\ LastByte(j) \in Nat /\ Segments[j].vaddr <= LastByte(j)
               /\ LastByte(j) + 1 + MaxBreak <= S
               /\ Segments[j].vaddr >= A /\ Segments[j].vaddr >= B
               /\ LastByte(j) <= LastByte(n)
               /\ LastByte(j) \in Segments[j].vaddr..(Segments[j].vaddr + Segments[j].memsz - 1)
    <2>1. /\ Segments[j].vaddr \in Nat /\ Segments[j].memsz \in Nat /\ Segments[j].memsz > 0
          /\ Segments[j].vaddr + Segments[j].memsz + MaxBreak <= S
          /\ Segments[j].vaddr >= A /\ Segments[j].vaddr >= B
      BY <1>0, SegmentList
    <2>2. /\ Segments[n].vaddr \in Nat /\ Segments[n].memsz \in Nat /\ Segments[n].memsz > 0
          /\ j < n => Segments[n].vaddr >= Segments[j].vaddr + Segments[j].memsz
      BY <1>0, <1>1, SegmentList
    <2>3. PICK v, m, w, k : /\ v = Segments[j].vaddr /\ m = Segments[j].memsz
                            /\ w = Segments[n].vaddr /\ k = Segments[n].memsz
      OBVIOUS
    <2>4. MaxBreak \in Nat
      BY Numbers
    <2>5. j < n \/ j = n
      BY <1>1
    <2>6. QED
      BY <1>2, <2>1, <2>2, <2>3, <2>4, <2>5 DEF LastByte
  <1>5. ASSUME NEW v \in Int, v >= A, v >= B, v < K
        PROVE  v \in High
    BY <1>0, <1>2, <1>3, <1>5 DEF High, Addresses
  <1>6. \A j \in 1..n : \A v \in Segments[j].vaddr..LastByte(j) : v \in High
    <2>1. ASSUME NEW j \in 1..n, NEW v \in Segments[j].vaddr..LastByte(j)
          PROVE  v \in Int /\ v >= A /\ v >= B /\ v < K
      <3>1. MaxBreak \in Nat
        BY Numbers
      <3>2. QED
        BY <1>2, <1>3, <1>4, <3>1
    <2>2. QED
      BY <1>5, <2>1
  <1>7. \A v \in Image : \E j \in 1..n : v \in Segments[j].vaddr..LastByte(j)
    BY <1>0, SegmentList DEF Image, LastByte
  <1>8. End = LastByte(n) + 1
    <2>1. LastByte(n) \in Image
      <3>1. n \in DOMAIN Segments
        BY <1>0, <1>1, SegmentList
      <3>2. QED
        BY <1>1, <1>4, <3>1 DEF Image
    <2>2. ASSUME NEW v \in Image
          PROVE  v \in Int /\ v <= LastByte(n)
      <3>1. PICK j \in 1..n : v \in Segments[j].vaddr..LastByte(j)
        BY <1>7
      <3>2. /\ LastByte(n) \in Nat /\ Segments[j].vaddr \in Nat /\ LastByte(j) \in Nat
            /\ LastByte(j) <= LastByte(n)
        BY <1>1, <1>4
      <3>3. QED
        BY <3>1, <3>2
    <2>3. (CHOOSE v \in Image : \A w \in Image : w <= v) = LastByte(n)
      <3>1. PICK m : m = CHOOSE v \in Image : \A w \in Image : w <= v
        OBVIOUS
      <3>2. m \in Image /\ \A w \in Image : w <= m
        BY <2>1, <2>2, <3>1
      <3>3. m <= LastByte(n) /\ LastByte(n) <= m /\ m \in Int /\ LastByte(n) \in Int
        BY <1>1, <1>4, <2>1, <2>2, <3>2
      <3>4. QED
        BY <3>1, <3>3
    <2>4. LastByte(n) \in Nat
      BY <1>1, <1>4
    <2>5. End = 1 + LastByte(n)
      BY <2>3 DEF End
    <2>6. QED
      BY <2>4, <2>5
  <1>9. /\ LastByte(n) \in Nat /\ LastByte(n) >= A /\ LastByte(n) >= B
        /\ LastByte(n) + 1 + MaxBreak <= S /\ MaxBreak \in Nat
    <2>1. n \in 1..n /\ MaxBreak \in Nat
      BY <1>1, Numbers
    <2>2. QED
      BY <1>3, <1>4, <2>1
  <1>10. \A v \in (End - 1)..(End + MaxBreak - 1) : v \in High
    BY <1>2, <1>3, <1>5, <1>8, <1>9
  <1>11. \A v \in Stack : v \in High
    <2>1. Stack = S..(K - 1)
      BY <1>0 DEF Stack
    <2>2. QED
      BY <1>2, <1>3, <1>5, <1>9, <2>1
  <1>12. Image \subseteq High
    BY <1>6, <1>7
  <1>13. End \in Nat
    BY <1>8, <1>9
  <1>14. QED
    BY <1>0, <1>4, <1>6, <1>7, <1>8, <1>10, <1>11, <1>12, <1>13

\* The video memory is one page, below the others.
LEMMA VideoPage ==
    /\ VIDEO \in Pages /\ VIDEO < PHY_MEM /\ VIDEO < NR_PTE /\ Dir(VIDEO) = 0 /\ Entry(VIDEO) = VIDEO
    /\ \A v \in Video : v \in Addresses /\ v \div PAGE = VIDEO
  <1>1. PICK j \in 1..Len(Segments) : TRUE
    BY SegmentList
  <1>2. Segments[j].vaddr \in High
    BY ProgramIsHigh, SegmentList
  <1>3. Segments[j].vaddr \div PAGE \in Pages /\ Segments[j].vaddr \div PAGE >= PHY_MEM
    BY <1>2, AddressIs DEF High
  <1>4. VIDEO < PHY_MEM /\ VIDEO < NR_PTE /\ VIDEO \in Pages /\ VIDEO + 1 <= KOFFSET
    BY <1>3, Numbers DEF Pages
  <1>5. Dir(VIDEO) = 0 /\ Entry(VIDEO) = VIDEO
    BY <1>4, PagePlace
  <1>6. ASSUME NEW v \in Video
        PROVE  v \in Addresses /\ v \div PAGE = VIDEO
    <2>1. PAGE * (VIDEO + 1) <= PAGE * KOFFSET
      BY <1>4, Numbers, ProductOrder
    <2>2. /\ PAGE * KOFFSET = KOFFSET * PAGE /\ PAGE * (VIDEO + 1) = VIDEO * PAGE + PAGE
          /\ (VIDEO + 1) * PAGE = VIDEO * PAGE + PAGE
          /\ VIDEO * PAGE \in Nat /\ KOFFSET * PAGE \in Nat
      BY Numbers
    <2>3. v \in Addresses
      BY <2>1, <2>2, Numbers DEF Video, Addresses
    <2>4. PICK o \in 0..(PAGE - 1) : v = VIDEO * PAGE + o
      <3>1. v - VIDEO * PAGE \in 0..(PAGE - 1) /\ v = VIDEO * PAGE + (v - VIDEO * PAGE)
        BY <2>2, Numbers DEF Video
      <3>2. QED
        BY <3>1
    <2>5. v = PAGE * (v \div PAGE) + (v % PAGE) /\ v \div PAGE \in Nat /\ v % PAGE \in 0..(PAGE - 1)
      BY <2>3, AddressIs
    <2>6. PAGE * VIDEO = VIDEO * PAGE
      BY Numbers, Commutes
    <2>7. PAGE * (v \div PAGE) + (v % PAGE) = PAGE * VIDEO + o
      BY <2>4, <2>5, <2>6
    <2>8. QED
      BY <2>3, <2>5, <2>7, Numbers, OneQuotient
  <1>7. QED
    BY <1>4, <1>5, <1>6

-----------------------------------------------------------------------------
\* mm_malloc()

\* What the walk finds once the pages `new' have frames and `idx' is the next.
FramesAre(dir, tabs, idx, new) ==
    LET F(p) == Walk(dir, tabs, p) IN
    /\ \A p \in Pages : F(p) = IF p \in new THEN Given(new, p) ELSE Walk(updir, tables, p)
    /\ \A p \in Pages : F(p) # None =>
        \/ F(p) \in KMEM..(idx - 1) /\ p >= PHY_MEM /\ p >= NR_PTE
        \/ pc # "kernel" /\ p = VIDEO /\ F(p) = VIDEO
    /\ \A p \in Pages : F(p) # None => \A q \in Pages \ {p} : F(p) # F(q)
    /\ \A p \in new : F(p) # None
    /\ idx \in pf_idx..PHY_MEM

\* Whatever pages are added, frames are given once and stay given.
LEMMA FramesWith ==
    ASSUME PgTypeOK, TablesSound, FramesGiven, FramesApart, NEW new \in SUBSET Pages,
           \A p \in new : ~Mapped(p) /\ p >= PHY_MEM /\ p >= NR_PTE,
           pf_idx + Cardinality(new) <= PHY_MEM
    PROVE  FramesAre(DirWith(new), TablesWith(new), pf_idx + Cardinality(new), new)
  <1> DEFINE F(p) == Walk(DirWith(new), TablesWith(new), p)
             c == Cardinality(new)
             P(p) == Walk(updir, tables, p)
             G(p) == Given(new, p)
  <1>1. pf_idx \in Nat /\ KMEM <= pf_idx /\ KMEM \in Nat /\ PHY_MEM \in Nat /\ VIDEO \in Nat /\ VIDEO < KMEM
    BY Numbers DEF PgTypeOK
  <1>2. /\ c \in Nat /\ \A p \in new : G(p) \in pf_idx..(pf_idx + c - 1)
        /\ \A p, q \in new : p < q => G(p) < G(q)
    BY <1>1, GivenInOrder
  <1>3. \A p \in Pages : p \in Nat /\ (Dir(p) = 0 <=> p < NR_PTE)
    BY PagePlace
  <1>4. \A p \in new : ~Mapped(p) /\ (pc # "kernel" => Dir(p) # 0)
    BY <1>3, Numbers
  <1>5. \A p \in Pages : F(p) = IF p \in new THEN G(p) ELSE P(p)
    BY <1>4, WalkWith
  <1>6. ASSUME NEW p \in Pages, P(p) # None
        PROVE  \/ P(p) \in KMEM..(pf_idx - 1) /\ p >= PHY_MEM /\ p >= NR_PTE
               \/ pc # "kernel" /\ p = VIDEO /\ P(p) = VIDEO
    BY <1>6 DEF FramesGiven, Mapped
  <1>7. ASSUME NEW p \in Pages, NEW q \in Pages, p # q, P(p) # None
        PROVE  P(p) # P(q)
    BY <1>7 DEF FramesApart, Mapped
  <1>8. ASSUME NEW p \in Pages, F(p) # None
        PROVE  \/ F(p) \in KMEM..(pf_idx + c - 1) /\ p >= PHY_MEM /\ p >= NR_PTE
               \/ pc # "kernel" /\ p = VIDEO /\ F(p) = VIDEO
    <2>1. CASE p \in new
      BY <1>1, <1>2, <1>5, <2>1
    <2>2. CASE p \notin new
      BY <1>1, <1>2, <1>5, <1>6, <1>8, <2>2
    <2>3. QED
      BY <2>1, <2>2
  <1>9. \A p \in new : G(p) # None
    BY <1>1, <1>2 DEF None
  <1>10. ASSUME NEW p \in Pages, NEW q \in Pages, p # q, F(p) # None
         PROVE  F(p) # F(q)
    <2>1. CASE p \in new /\ q \in new
      <3>1. p \in Nat /\ q \in Nat /\ (p < q \/ q < p)
        BY <1>3, <1>10
      <3>2. G(p) \in Nat /\ G(q) \in Nat /\ G(p) # G(q)
        BY <1>1, <1>2, <2>1, <3>1
      <3>3. QED
        BY <1>5, <2>1, <3>2
    <2>2. ASSUME NEW x \in Pages, NEW y \in Pages, x \in new, y \notin new
          PROVE  F(x) # F(y)
      <3>1. CASE P(y) = None
        BY <1>5, <1>9, <2>2, <3>1
      <3>2. CASE P(y) # None
        <4>1. P(y) \in Nat /\ P(y) < pf_idx
          BY <1>1, <1>6, <3>2
        <4>2. G(x) \in Nat /\ G(x) >= pf_idx
          BY <1>1, <1>2, <2>2
        <4>3. QED
          BY <1>1, <1>5, <2>2, <4>1, <4>2
      <3>3. QED
        BY <3>1, <3>2
    <2>3. CASE p \notin new /\ q \notin new
      BY <1>5, <1>7, <1>10, <2>3
    <2>4. QED
      BY <2>1, <2>2, <2>3
  <1>11. QED
    BY <1>1, <1>2, <1>5, <1>8, <1>9, <1>10 DEF FramesAre

\* The pages of an area where programs lie.
LEMMA AreaIsHigh ==
    ASSUME NEW v, NEW len \in Int, len > 0 => v \in High /\ v + len - 1 \in High
    PROVE  /\ Unmapped(v, len) \in SUBSET Pages
           /\ \A p \in Unmapped(v, len) : ~Mapped(p) /\ p >= PHY_MEM /\ p >= NR_PTE
           /\ len > 0 =>
                /\ Unmapped(v, len) = {p \in PagesOf(v, len) : ~Mapped(p)}
                /\ \A p \in PagesOf(v, len) : p \in Pages /\ p >= PHY_MEM /\ p >= NR_PTE
                /\ \A w \in v..(v + len - 1) : w \div PAGE \in PagesOf(v, len)
  <1>1. ASSUME len > 0
        PROVE  /\ \A p \in PagesOf(v, len) : p \in Pages /\ p >= PHY_MEM /\ p >= NR_PTE
               /\ \A w \in v..(v + len - 1) : w \div PAGE \in PagesOf(v, len)
    <2>1. PICK w \in High : w = v + len - 1
      BY <1>1
    <2>2. v \in High /\ v \in Addresses /\ w \in Addresses /\ v \in Nat /\ w \in Nat
      BY <1>1, <2>1, AddressIs DEF High
    <2>3. /\ v \div PAGE \in Pages /\ v \div PAGE >= PHY_MEM /\ v \div PAGE >= NR_PTE
          /\ w \div PAGE \in Pages
      BY <2>2, AddressIs
    <2>4. PagesOf(v, len) = (v \div PAGE)..(w \div PAGE)
      BY <2>1 DEF PagesOf
    <2>5. \A p \in PagesOf(v, len) : p \in Pages /\ p >= PHY_MEM /\ p >= NR_PTE
      BY <2>3, <2>4, Numbers DEF Pages
    <2>6. ASSUME NEW x \in v..w
          PROVE  x \div PAGE \in PagesOf(v, len)
      <3>1. x \in Nat /\ v <= x /\ x <= w
        BY <2>2
      <3>2. v \div PAGE <= x \div PAGE /\ x \div PAGE <= w \div PAGE /\ x \div PAGE \in Nat
        BY <2>2, <3>1, Numbers, QuotientOrder, QuotientIs
      <3>3. QED
        BY <2>3, <2>4, <3>2 DEF Pages
    <2>7. QED
      BY <2>1, <2>5, <2>6
  <1>2. QED
    BY <1>1 DEF Unmapped

\* mm_malloc() of an area where programs lie.
LEMMA MallocKeeps ==
    ASSUME PgTypeOK, TablesSound, FramesGiven, FramesApart, NEW v, NEW len \in Int,
           len > 0 => v \in High /\ v + len - 1 \in High,
           mm_malloc(v, len), pc' = pc
    PROVE  /\ updir' \in [Dirs -> {None} \cup Tables]
           /\ tables' \in [Tables -> [0..(NR_PTE - 1) -> Frames \cup {None}]]
           /\ pf_idx' \in KMEM..PHY_MEM /\ pf_idx' = pf_idx + Cardinality(Unmapped(v, len))
           /\ TablesSound' /\ FramesGiven' /\ FramesApart'
           /\ Unmapped(v, len) \in SUBSET Pages
           /\ \A p \in Pages : Walk(updir', tables', p) =
                IF p \in Unmapped(v, len) THEN Given(Unmapped(v, len), p) ELSE Walk(updir, tables, p)
           /\ \A p \in Pages : Mapped(p) => Walk(updir', tables', p) = Walk(updir, tables, p)
           /\ \A p \in Unmapped(v, len) : Walk(updir', tables', p) # None /\ p >= PHY_MEM
           /\ len > 0 => \A w \in v..(v + len - 1) :
                w \div PAGE \in PagesOf(v, len) /\ Walk(updir', tables', w \div PAGE) # None
  <1> DEFINE new == Unmapped(v, len)
  <1>0. PICK N : N = Unmapped(v, len)
    OBVIOUS
  <1>1. len > 0 =>
            /\ \A p \in PagesOf(v, len) : p \in Pages /\ p >= PHY_MEM /\ p >= NR_PTE
            /\ \A w \in v..(v + len - 1) : w \div PAGE \in PagesOf(v, len)
    BY AreaIsHigh
  <1>2. /\ N \in SUBSET Pages /\ \A p \in N : ~Mapped(p) /\ p >= PHY_MEM /\ p >= NR_PTE
        /\ len > 0 => N = {p \in PagesOf(v, len) : ~Mapped(p)}
    BY <1>0, AreaIsHigh
  <1>3. /\ pf_idx + Cardinality(N) <= PHY_MEM
        /\ updir' = DirWith(N) /\ tables' = TablesWith(N) /\ pf_idx' = pf_idx + Cardinality(N)
    BY <1>0 DEF mm_malloc
  <1>4. /\ \A p \in Pages : Walk(updir', tables', p) = IF p \in N THEN Given(N, p) ELSE Walk(updir, tables, p)
        /\ \A p \in Pages : Walk(updir', tables', p) # None =>
              \/ Walk(updir', tables', p) \in KMEM..(pf_idx' - 1) /\ p >= PHY_MEM /\ p >= NR_PTE
              \/ pc # "kernel" /\ p = VIDEO /\ Walk(updir', tables', p) = VIDEO
        /\ \A p \in Pages : Walk(updir', tables', p) # None =>
              \A q \in Pages \ {p} : Walk(updir', tables', p) # Walk(updir', tables', q)
        /\ \A p \in N : Walk(updir', tables', p) # None
        /\ pf_idx' \in pf_idx..PHY_MEM
    <2>1. FramesAre(DirWith(N), TablesWith(N), pf_idx + Cardinality(N), N)
      BY <1>2, <1>3, FramesWith
    <2>2. FramesAre(updir', tables', pf_idx', N)
      BY <1>3, <2>1
    <2>3. QED
      BY <2>2 DEF FramesAre
  <1>5. \A p \in N : ~Mapped(p) /\ (pc # "kernel" => Dir(p) # 0)
    BY <1>2, PagePlace, Numbers
  <1>6. /\ updir' \in [Dirs -> {None} \cup Tables]
        /\ tables' \in [Tables -> [0..(NR_PTE - 1) -> Frames \cup {None}]]
        /\ \A d \in Dirs :
              IF pc # "kernel" /\ d = 0 THEN updir'[d] = vptable ELSE updir'[d] \in {None, d}
        /\ \A d \in Dirs, e \in 0..(NR_PTE - 1) : updir'[d] = None => tables'[d][e] = None
        /\ \A e \in 0..(NR_PTE - 1) : tables'[vptable][e] = tables[vptable][e]
    BY <1>2, <1>3, <1>5, WalkWith
  <1>7. pf_idx' \in KMEM..PHY_MEM
    BY <1>4, Numbers DEF PgTypeOK
  <1>8. TablesSound'
    BY <1>6 DEF TablesSound
  <1>9. FramesGiven'
    BY <1>4 DEF FramesGiven, Mapped
  <1>10. FramesApart'
    <2>1. \A p \in Pages : Walk(updir', tables', p) # None =>
              (Walk(updir', tables', p) < KMEM => p = VIDEO /\ Walk(updir', tables', p) = VIDEO)
      BY <1>4, <1>7, Numbers
    <2>2. QED
      BY <1>4, <2>1 DEF FramesApart, Mapped
  <1>11. \A p \in Pages : Mapped(p) => Walk(updir', tables', p) = Walk(updir, tables, p)
    BY <1>2, <1>4
  <1>12. ASSUME len > 0, NEW w \in v..(v + len - 1)
         PROVE  w \div PAGE \in PagesOf(v, len) /\ Walk(updir', tables', w \div PAGE) # None
    <2>1. w \div PAGE \in PagesOf(v, len) /\ w \div PAGE \in Pages
      BY <1>1, <1>12
    <2>2. CASE w \div PAGE \in N
      BY <1>4, <2>1, <2>2
    <2>3. CASE w \div PAGE \notin N
      BY <1>2, <1>4, <1>12, <2>1, <2>3 DEF Mapped
    <2>4. QED
      BY <2>2, <2>3
  <1>13. QED
    BY <1>0, <1>2, <1>3, <1>4, <1>6, <1>7, <1>8, <1>9, <1>10, <1>11, <1>12

-----------------------------------------------------------------------------
\* The loader.

\* A segment's pages follow on each other's frames, also when its first page is
\* one an earlier segment has: that one has the frame given last.
LEMMA SegmentInOrder ==
    ASSUME PagingInv, Load
    PROVE  LET n == loaded + 1
               s == Segments[n]
               F(p) == Walk(updir', tables', p)
           IN /\ n \in 1..Len(Segments)
              /\ \A k \in 0..(s.memsz - 1) :
                    /\ s.vaddr + k \in High
                    /\ F((s.vaddr + k) \div PAGE) # None
                    /\ Byte(s.vaddr, k) = <<F((s.vaddr + k) \div PAGE), (s.vaddr + k) % PAGE>>
              /\ F(LastByte(n) \div PAGE) = pf_idx' - 1
              /\ \A p \in Pages : F(p) # None => p <= LastByte(n) \div PAGE
  <1>0. PICK n, v, len : n = loaded + 1 /\ v = Segments[n].vaddr /\ len = Segments[n].memsz
    OBVIOUS
  <1>1. /\ n \in 1..Len(Segments) /\ loaded \in Nat /\ n = loaded + 1 /\ loaded < n
        /\ v \in Nat /\ len \in Nat /\ len > 0 /\ LastByte(n) = v + len - 1
        /\ v \in High /\ LastByte(n) \in High
    <2>1. n \in 1..Len(Segments) /\ loaded \in Nat
      BY <1>0, SegmentList DEF Load, PagingInv, PgTypeOK
    <2>2. v \in Nat /\ len \in Nat /\ len > 0 /\ LastByte(n) = v + len - 1
      BY <1>0, <2>1, SegmentList DEF LastByte
    <2>3. v \in Segments[n].vaddr..LastByte(n) /\ LastByte(n) \in Segments[n].vaddr..LastByte(n)
      BY <1>0, <2>2
    <2>4. QED
      BY <1>0, <2>1, <2>2, <2>3, ProgramIsHigh, SMTT(60)
  <1>2. PICK w \in High : w = LastByte(n) /\ w = v + len - 1
    BY <1>1
  <1>3. PICK a, b : a = v \div PAGE /\ b = w \div PAGE
    OBVIOUS
  <1>4. /\ a \in Pages /\ a \in Nat /\ b \in Pages /\ b \in Nat /\ a <= b
        /\ v = PAGE * a + (v % PAGE) /\ v % PAGE \in 0..(PAGE - 1)
    <2>1. v \in Addresses /\ w \in Addresses /\ v \in Nat /\ w \in Nat /\ v <= w
      BY <1>1, <1>2, AddressIs DEF High
    <2>2. QED
      BY <1>3, <2>1, AddressIs, Numbers, QuotientOrder
  <1>5. mm_malloc(v, len) /\ pc' = pc /\ pc = "kernel"
    BY <1>0 DEF Load
  <1>6. PICK N : N = Unmapped(v, len)
    OBVIOUS
  <1>7. /\ pf_idx' = pf_idx + Cardinality(N) /\ pf_idx \in Nat
        /\ \A p \in Pages : Walk(updir', tables', p) = IF p \in N THEN Given(N, p) ELSE Walk(updir, tables, p)
        /\ \A x \in v..w : x \div PAGE \in PagesOf(v, len) /\ Walk(updir', tables', x \div PAGE) # None
    <2>1. /\ PgTypeOK /\ TablesSound /\ FramesGiven /\ FramesApart /\ len \in Int
          /\ len > 0 => v \in High /\ v + len - 1 \in High
      BY <1>1 DEF PagingInv
    <2>2. pf_idx \in Nat
      BY Numbers DEF PagingInv, PgTypeOK
    <2>3. QED
      BY <1>1, <1>2, <1>5, <1>6, <2>1, <2>2, MallocKeeps
  <1>8. PagesOf(v, len) = a..b
    BY <1>2, <1>3 DEF PagesOf
  <1>9. /\ \A p \in Pages : Mapped(p) => p <= a
        /\ Mapped(a) => Walk(updir, tables, a) = pf_idx - 1
    <2>1. CASE loaded = 0
      BY <1>4, <1>5, <2>1 DEF PagingInv, LoadedInOrder
    <2>2. CASE loaded > 0
      <3>1. PICK l : l = LastByte(loaded)
        OBVIOUS
      <3>2. /\ Walk(updir, tables, l \div PAGE) = pf_idx - 1
            /\ \A p \in Pages : Mapped(p) => p <= l \div PAGE
        BY <1>5, <2>2, <3>1 DEF PagingInv, LoadedInOrder
      <3>3. l \in Nat /\ l <= v
        <4>1. loaded \in 1..Len(Segments) /\ loaded \in 1..(n - 1)
          BY <1>1, <2>2
        <4>2. v >= Segments[loaded].vaddr + Segments[loaded].memsz
          BY <1>0, <1>1, <4>1, SegmentList
        <4>3. Segments[loaded].vaddr \in Nat /\ Segments[loaded].memsz \in Nat /\ l \in Nat
          BY <3>1, <4>1, SegmentList, ProgramIsHigh
        <4>4. QED
          BY <1>1, <3>1, <4>2, <4>3, SMTT(60) DEF LastByte
      <3>4. l \div PAGE <= a /\ l \div PAGE \in Nat
        BY <1>1, <1>3, <3>3, Numbers, QuotientOrder, QuotientIs
      <3>5. \A p \in Pages : p \in Nat
        BY PagePlace
      <3>6. \A p \in Pages : Mapped(p) => p <= a
        BY <1>4, <3>2, <3>4, <3>5
      <3>7. Mapped(a) => a = l \div PAGE
        BY <1>4, <3>2, <3>4
      <3>8. QED
        BY <3>2, <3>6, <3>7
    <2>3. QED
      BY <1>1, <2>1, <2>2
  <1>10. PICK lo \in Nat : lo = IF Mapped(a) THEN a + 1 ELSE a
    BY <1>4
  <1>11. N = lo..b /\ lo <= b + 1
    <2>1. N = {p \in a..b : ~Mapped(p)}
      BY <1>1, <1>6, <1>8 DEF Unmapped
    <2>2. a..b \subseteq Pages
      BY <1>4, Numbers DEF Pages
    <2>3. \A p \in a..b : ~Mapped(p) <=> p >= lo
      BY <1>4, <1>9, <1>10, <2>2
    <2>4. QED
      BY <1>4, <1>10, <2>1, <2>3
  <1>12. Cardinality(N) = b + 1 - lo /\ \A p \in lo..b : Given(N, p) = pf_idx + p - lo
    BY <1>4, <1>7, <1>11, GivenToNeighbours
  <1>13. PICK f : f = IF Mapped(a) THEN pf_idx - 1 ELSE pf_idx
    OBVIOUS
  <1>14. \A p \in a..b : Walk(updir', tables', p) = f + (p - a)
    <2>1. ASSUME NEW p \in a..b
          PROVE  Walk(updir', tables', p) = f + (p - a)
      <3>1. p \in Pages /\ p \in Nat
        BY <1>4, Numbers DEF Pages
      <3>2. CASE p \in lo..b
        <4>1. Walk(updir', tables', p) = pf_idx + p - lo
          BY <1>7, <1>11, <1>12, <3>1, <3>2
        <4>2. QED
          BY <1>4, <1>7, <1>10, <1>13, <4>1
      <3>3. CASE p \notin lo..b
        <4>1. p = a /\ Mapped(a)
          BY <1>4, <1>10, <3>3
        <4>2. QED
          BY <1>7, <1>9, <1>11, <1>13, <3>1, <3>3, <4>1
      <3>4. QED
        BY <3>2, <3>3
    <2>2. QED
      BY <2>1
  <1>15. ASSUME NEW k \in 0..(len - 1)
         PROVE  /\ v + k \in High /\ Walk(updir', tables', (v + k) \div PAGE) # None
                /\ Byte(v, k) = <<Walk(updir', tables', (v + k) \div PAGE), (v + k) % PAGE>>
    <2>1. v + k \in v..w /\ v + k \in Segments[n].vaddr..LastByte(n)
      <3>1. v + k \in v..w
        BY <1>1, <1>2
      <3>2. v..w = Segments[n].vaddr..LastByte(n)
        BY <1>0, <1>2
      <3>3. QED
        BY <3>1, <3>2
    <2>2. v + k \in High /\ (v + k) \div PAGE \in a..b
      BY <1>1, <1>7, <1>8, <2>1, ProgramIsHigh
    <2>3. PICK o \in 0..(PAGE - 1) : o = v % PAGE
      BY <1>4
    <2>4. o \in Nat /\ o + k \in Nat /\ k \in Nat
      BY <1>1, <2>3, Numbers
    <2>5. v + k = a * PAGE + (o + k)
      <3>1. a * PAGE = PAGE * a /\ PAGE * a \in Nat
        BY <1>4, Numbers, Commutes
      <3>2. PICK z \in Nat : z = a * PAGE
        BY <3>1
      <3>3. v = z + o
        BY <1>4, <2>3, <3>1, <3>2
      <3>4. v + k = z + (o + k)
        BY <2>4, <3>3
      <3>5. QED
        BY <3>2, <3>4
    <2>6. /\ (v + k) \div PAGE = a + ((o + k) \div PAGE) /\ (v + k) % PAGE = (o + k) % PAGE
          /\ (o + k) \div PAGE \in Nat
      <3>1. /\ (a * PAGE + (o + k)) \div PAGE = a + ((o + k) \div PAGE)
            /\ (a * PAGE + (o + k)) % PAGE = (o + k) % PAGE
        <4>1. PAGE \in Nat \ {0} /\ a \in Nat
          BY <1>4, Numbers
        <4>2. PICK r \in Nat : r = o + k
          BY <2>4
        <4>3. (a * PAGE + r) \div PAGE = a + (r \div PAGE) /\ (a * PAGE + r) % PAGE = r % PAGE
          BY <4>1, <4>2, QuotientSum
        <4>4. QED
          BY <4>2, <4>3
      <3>2. QED
        BY <2>4, <2>5, <3>1, Numbers, QuotientIs
    <2>7. f \in Nat /\ Walk(updir', tables', a) = f
      <3>1. a \in a..b
        BY <1>4
      <3>2. pf_idx >= KMEM /\ KMEM > 0
        BY Numbers DEF PagingInv, PgTypeOK
      <3>3. f \in Nat
        BY <1>7, <1>13, <3>2, Numbers
      <3>4. QED
        BY <1>4, <1>14, <3>1, <3>3
    <2>8. /\ (f * PAGE + (o + k)) \div PAGE = f + ((o + k) \div PAGE)
          /\ (f * PAGE + (o + k)) % PAGE = (o + k) % PAGE
      <3>1. PAGE \in Nat \ {0} /\ f \in Nat
        BY <2>7, Numbers
      <3>2. PICK r \in Nat : r = o + k
        BY <2>4
      <3>3. (f * PAGE + r) \div PAGE = f + (r \div PAGE) /\ (f * PAGE + r) % PAGE = r % PAGE
        BY <3>1, <3>2, QuotientSum
      <3>4. QED
        BY <3>2, <3>3
    <2>9. Walk(updir', tables', (v + k) \div PAGE) = f + ((o + k) \div PAGE)
      BY <1>4, <1>14, <2>2, <2>6, <2>7
    <2>10. Byte(v, k) = <<(f * PAGE + o + k) \div PAGE, (f * PAGE + o + k) % PAGE>>
      BY <1>3, <2>3, <2>7 DEF Byte
    <2>11. f * PAGE + o + k = f * PAGE + (o + k)
      <3>1. f * PAGE \in Nat
        BY <2>7, Numbers
      <3>2. QED
        BY <2>4, <3>1
    <2>12. Byte(v, k) = <<Walk(updir', tables', (v + k) \div PAGE), (v + k) % PAGE>>
      BY <2>6, <2>8, <2>9, <2>10, <2>11
    <2>13. QED
      BY <1>7, <2>1, <2>2, <2>12
  <1>16. Walk(updir', tables', b) = pf_idx' - 1
    <2>1. b \in a..b
      BY <1>4
    <2>2. Walk(updir', tables', b) = f + (b - a)
      BY <1>14, <2>1
    <2>3. QED
      BY <1>4, <1>7, <1>10, <1>12, <1>13, <2>2
  <1>17. \A p \in Pages : Walk(updir', tables', p) # None => p <= b
    <2>1. ASSUME NEW p \in Pages, Walk(updir', tables', p) # None
          PROVE  p <= b
      <3>1. p \in N \/ Mapped(p)
        BY <1>7, <2>1 DEF Mapped
      <3>2. p \in Nat
        BY PagePlace
      <3>3. QED
        BY <1>4, <1>9, <1>11, <3>1, <3>2
    <2>2. QED
      BY <2>1
  <1>18. QED
    BY <1>0, <1>1, <1>2, <1>3, <1>15, <1>16, <1>17

LEMMA LoadKeeps ==
    ASSUME PagingInv, Load
    PROVE  PagingInv'
  <1> DEFINE Phys(v) == <<Walk(updir', tables', v \div PAGE), v % PAGE>>
  <1>0. PICK n, v, len : n = loaded + 1 /\ v = Segments[n].vaddr /\ len = Segments[n].memsz
    OBVIOUS
  <1>1. /\ n \in 1..Len(Segments) /\ loaded \in Nat /\ loaded' = n /\ pc' = pc /\ pc = "kernel"
        /\ loaded \in 0..Len(Segments) /\ mm_malloc(v, len)
        /\ brk' = Broken(Segments[n]) /\ mem' = Placed(n, Segments[n])
        /\ UNCHANGED <<pc, heap_end, tlb, reply, stores>>
    BY <1>0, SegmentList DEF Load, PagingInv, PgTypeOK
  <1>2. /\ v \in Nat /\ len \in Nat /\ len > 0 /\ Segments[n].filesz \in Nat
        /\ Segments[n].filesz <= len /\ LastByte(n) = v + len - 1
        /\ v \in High /\ v + len - 1 \in High
    <2>1. /\ v \in Nat /\ len \in Nat /\ len > 0 /\ Segments[n].filesz \in Nat
          /\ Segments[n].filesz <= len /\ LastByte(n) = v + len - 1
      BY <1>0, <1>1, SegmentList DEF LastByte
    <2>2. v \in Segments[n].vaddr..LastByte(n) /\ LastByte(n) \in Segments[n].vaddr..LastByte(n)
      BY <1>0, <2>1
    <2>3. QED
      BY <1>1, <2>1, <2>2, ProgramIsHigh
  <1>3. /\ \A k \in 0..(len - 1) : /\ v + k \in High /\ Phys(v + k)[1] # None
                                   /\ Byte(v, k) = Phys(v + k)
        /\ Walk(updir', tables', LastByte(n) \div PAGE) = pf_idx' - 1
        /\ \A p \in Pages : Walk(updir', tables', p) # None => p <= LastByte(n) \div PAGE
    BY <1>0, SegmentInOrder
  <1>4. /\ updir' \in [Dirs -> {None} \cup Tables]
        /\ tables' \in [Tables -> [0..(NR_PTE - 1) -> Frames \cup {None}]]
        /\ pf_idx' \in KMEM..PHY_MEM
        /\ TablesSound' /\ FramesGiven' /\ FramesApart'
        /\ \A p \in Pages : Mapped(p) => Walk(updir', tables', p) = Walk(updir, tables, p)
        /\ \A w \in v..(v + len - 1) : Walk(updir', tables', w \div PAGE) # None
    <2>1. /\ PgTypeOK /\ TablesSound /\ FramesGiven /\ FramesApart /\ len \in Int
          /\ len > 0 => v \in High /\ v + len - 1 \in High
      BY <1>2 DEF PagingInv
    <2>2. QED
      BY <1>1, <1>2, <2>1, MallocKeeps
  <1>5. \A p \in Pages : Walk(updir', tables', p) # None => Walk(updir', tables', p) \in Frames
    <2>1. ASSUME NEW p \in Pages, Walk(updir', tables', p) # None
          PROVE  Walk(updir', tables', p) \in Frames
      <3>1. Dir(p) \in Dirs /\ Entry(p) \in 0..(NR_PTE - 1)
        BY PagePlace
      <3>2. updir'[Dir(p)] # None /\ Walk(updir', tables', p) = tables'[updir'[Dir(p)]][Entry(p)]
        BY <2>1 DEF Walk
      <3>3. updir'[Dir(p)] \in Tables
        BY <1>4, <3>1, <3>2
      <3>4. tables'[updir'[Dir(p)]][Entry(p)] \in Frames \cup {None}
        BY <1>4, <3>1, <3>3
      <3>5. QED
        BY <2>1, <3>2, <3>4
    <2>2. QED
      BY <2>1
  <1>6. \A x, y \in Addresses : x # y /\ Phys(x)[1] # None => Phys(x) # Phys(y)
    <2>1. ASSUME NEW x \in Addresses, NEW y \in Addresses, x # y, Phys(x)[1] # None
          PROVE  Phys(x) # Phys(y)
      <3>1. x \div PAGE \in Pages /\ Walk(updir', tables', x \div PAGE) # None
        BY <2>1, AddressIs
      <3>2. \A q \in Pages \ {x \div PAGE} :
                Walk(updir', tables', x \div PAGE) # Walk(updir', tables', q)
        BY <1>4, <3>1 DEF FramesApart, Mapped
      <3>3. QED
        BY <2>1, <3>1, <3>2, CellsApart
    <2>2. QED
      BY <2>1
  <1>7. \A x \in Addresses : Phys(x)[1] # None => Phys(x) \in Frames \X (0..(PAGE - 1))
    BY <1>5, AddressIs
  <1>8. mem \in [Frames \X (0..(PAGE - 1)) -> Bytes]
    BY DEF PagingInv, PgTypeOK
  <1>9. ASSUME NEW k \in 0..(len - 1)
        PROVE  mem'[Phys(v + k)] = IF k < Segments[n].filesz THEN <<n, k>> ELSE ZeroByte
    <2>1. PICK c : c = Phys(v + k)
      OBVIOUS
    <2>2. v + k \in Addresses /\ c \in DOMAIN mem /\ c = Byte(v, k)
      BY <1>3, <1>7, <1>8, <2>1 DEF High
    <2>3. \A l \in 0..(len - 1) : c = Byte(v, l) => l = k
      <3>1. ASSUME NEW l \in 0..(len - 1), l # k
            PROVE  c # Byte(v, l)
        <4>1. v + l \in Addresses /\ v + k \in Addresses /\ v + l # v + k /\ Phys(v + k)[1] # None
          BY <1>2, <1>3, <3>1 DEF High
        <4>2. Phys(v + k) # Phys(v + l)
          BY <1>6, <4>1
        <4>3. QED
          BY <1>3, <2>1, <4>2
      <3>2. QED
        BY <3>1
    <2>4. (CHOOSE l \in 0..(len - 1) : c = Byte(v, l)) = k
      BY <2>2, <2>3
    <2>5. mem'[c] = IF \E l \in 0..(len - 1) : c = Byte(v, l)
                    THEN LET l == CHOOSE l \in 0..(len - 1) : c = Byte(v, l)
                         IN IF l < Segments[n].filesz THEN <<n, l>> ELSE ZeroByte
                    ELSE mem[c]
      <3>1. mem' = [d \in DOMAIN mem |->
                    IF \E l \in 0..(len - 1) : d = Byte(v, l)
                    THEN LET l == CHOOSE l \in 0..(len - 1) : d = Byte(v, l)
                         IN IF l < Segments[n].filesz THEN <<n, l>> ELSE ZeroByte
                    ELSE mem[d]]
        BY <1>0, <1>1, Zenon DEF Placed
      <3>2. QED
        BY <2>2, <3>1, Zenon
    <2>6. \E l \in 0..(len - 1) : c = Byte(v, l)
      BY <2>2
    <2>7. mem'[c] = IF k < Segments[n].filesz THEN <<n, k>> ELSE ZeroByte
      BY <2>4, <2>5, <2>6, Zenon
    <2>8. QED
      BY <2>1, <2>7
  <1>10. ASSUME NEW c \in DOMAIN mem, \A k \in 0..(len - 1) : c # Phys(v + k)
         PROVE  mem'[c] = mem[c]
    <2>1. ~ \E k \in 0..(len - 1) : c = Byte(v, k)
      BY <1>3, <1>10
    <2>2. QED
      BY <1>0, <1>1, <2>1 DEF Placed
  <1>11. mem' \in [Frames \X (0..(PAGE - 1)) -> Bytes]
    <2>1. DOMAIN mem' = DOMAIN mem /\ mem' = [c \in DOMAIN mem |-> mem'[c]]
      BY <1>1 DEF Placed
    <2>2. ASSUME NEW c \in DOMAIN mem
          PROVE  mem'[c] \in Bytes
      <3>1. CASE \E k \in 0..(len - 1) : c = Phys(v + k)
        <4>1. PICK k \in 0..(len - 1) : c = Phys(v + k)
          BY <3>1
        <4>2. CASE k < Segments[n].filesz
          <5>1. n \in DOMAIN Segments
            BY <1>1, SegmentList
          <5>2. k \in 0..(PAGE * PHY_MEM)
            <6>1. v % PAGE \in Nat /\ Walk(updir', tables', v \div PAGE) \in Nat
              <7>1. 0 \in 0..(len - 1) /\ v + 0 = v
                BY <1>2
              <7>2. v \in Addresses /\ Walk(updir', tables', v \div PAGE) # None
                BY <1>2, <1>3, <7>1 DEF High
              <7>3. QED
                BY <1>5, <7>2, AddressIs, Numbers DEF Frames
            <6>2. PICK f \in Nat, o \in Nat : f = Walk(updir', tables', v \div PAGE) /\ o = v % PAGE
              BY <6>1
            <6>3. PICK at \in Nat : at = f * PAGE + o + k
              <7>1. f * PAGE \in Nat /\ k \in Nat
                BY <1>2, <6>2, Numbers
              <7>2. QED
                BY <6>2, <7>1
            <6>4. Byte(v, k) = <<at \div PAGE, at % PAGE>>
              BY <6>2, <6>3 DEF Byte
            <6>5. at \div PAGE \in Frames
              <7>1. <<at \div PAGE, at % PAGE>> \in Frames \X (0..(PAGE - 1))
                BY <1>3, <1>7, <6>4 DEF High
              <7>2. QED
                BY <7>1
            <6>6. at < PAGE * PHY_MEM
              <7>1. at \div PAGE \in Nat /\ (at \div PAGE) + 1 <= PHY_MEM
                BY <6>5, Numbers DEF Frames
              <7>2. PAGE * ((at \div PAGE) + 1) <= PAGE * PHY_MEM
                BY <7>1, Numbers, ProductOrder
              <7>3. at = PAGE * (at \div PAGE) + (at % PAGE) /\ at % PAGE \in 0..(PAGE - 1)
                BY <6>3, Numbers, QuotientIs
              <7>4. PAGE * ((at \div PAGE) + 1) = PAGE * (at \div PAGE) + PAGE
                BY <7>1, Numbers
              <7>5. PAGE * (at \div PAGE) \in Nat /\ PAGE * PHY_MEM \in Nat
                BY <7>1, Numbers
              <7>6. PICK x, y \in Nat : x = PAGE * (at \div PAGE) /\ y = PAGE * PHY_MEM
                BY <7>5
              <7>7. QED
                BY <7>2, <7>3, <7>4, <7>6, Numbers
            <6>7. f * PAGE \in Nat /\ PAGE * PHY_MEM \in Nat /\ k \in Nat
              BY <1>2, <6>2, Numbers
            <6>8. PICK x, y \in Nat : x = f * PAGE /\ y = PAGE * PHY_MEM
              BY <6>7
            <6>9. QED
              BY <6>2, <6>3, <6>6, <6>7, <6>8
          <5>3. <<n, k>> \in (DOMAIN Segments) \X (0..(PAGE * PHY_MEM))
            BY <5>1, <5>2
          <5>4. QED
            BY <1>9, <4>1, <4>2, <5>3 DEF Bytes
        <4>3. CASE ~(k < Segments[n].filesz)
          BY <1>9, <4>1, <4>3 DEF Bytes
        <4>4. QED
          BY <4>2, <4>3
      <3>2. CASE \A k \in 0..(len - 1) : c # Phys(v + k)
        BY <1>8, <1>10, <3>2
      <3>3. QED
        BY <3>1, <3>2
    <2>3. QED
      BY <1>8, <2>1, <2>2
  <1>12. brk' = LastByte(n) /\ brk' \in Nat
    <2>1. LastByte(n) = v + len - 1 /\ LastByte(n) \in Nat
      BY <1>2
    <2>2. brk' = IF brk < LastByte(n) THEN LastByte(n) ELSE brk
      BY <1>0, <1>1, <2>1 DEF Broken
    <2>3. brk \in Nat /\ brk <= LastByte(n)
      <3>1. CASE loaded = 0
        BY <1>1, <2>1, <3>1 DEF PagingInv, LoadedInOrder
      <3>2. CASE loaded > 0
        <4>1. loaded \in 1..Len(Segments) /\ loaded \in 1..(n - 1)
          BY <1>0, <1>1, <3>2
        <4>2. v >= Segments[loaded].vaddr + Segments[loaded].memsz
          BY <1>0, <1>1, <4>1, SegmentList
        <4>3. Segments[loaded].vaddr \in Nat /\ Segments[loaded].memsz \in Nat
          BY <4>1, SegmentList
        <4>4. brk = LastByte(loaded) /\ brk \in Nat
          BY <1>1, <3>2 DEF PagingInv, LoadedInOrder, PgTypeOK
        <4>5. QED
          BY <1>2, <4>2, <4>3, <4>4 DEF LastByte
      <3>3. QED
        BY <1>1, <3>1, <3>2
    <2>4. QED
      BY <2>1, <2>2, <2>3
  <1>13. PgTypeOK'
    <2>1. loaded' \in 0..Len(Segments)
      BY <1>1
    <2>2. QED
      BY <1>1, <1>4, <1>11, <1>12, <2>1 DEF PagingInv, PgTypeOK
  <1>14. LoadedInOrder'
    <2>1. loaded' > 0 /\ loaded' # 0
      BY <1>1
    <2>2. QED
      BY <1>1, <1>3, <1>12, <2>1 DEF LoadedInOrder, Mapped
  <1>15. ASSUME NEW j \in 1..n, NEW x \in Segments[j].vaddr..LastByte(j)
         PROVE  /\ x \in Addresses /\ Phys(x)[1] # None
                /\ j # n => Mapped(x \div PAGE) /\ x < v
    <2>1. x \in Addresses /\ j \in 1..Len(Segments) /\ x \in Nat
      BY <1>1, ProgramIsHigh, AddressIs DEF High
    <2>2. CASE j = n
      BY <1>0, <1>2, <1>4, <2>1, <2>2
    <2>3. CASE j # n
      <3>1. j \in 1..loaded /\ j \in 1..(n - 1)
        BY <1>0, <1>1, <2>3
      <3>2. Mapped(x \div PAGE) /\ x \div PAGE \in Pages
        BY <2>1, <3>1, AddressIs DEF PagingInv, OwnIsMapped
      <3>3. x < v
        <4>1. v >= Segments[j].vaddr + Segments[j].memsz
          BY <1>0, <1>1, <3>1, SegmentList
        <4>2. Segments[j].vaddr \in Nat /\ Segments[j].memsz \in Nat
          BY <2>1, SegmentList
        <4>3. QED
          BY <1>2, <2>1, <4>1, <4>2 DEF LastByte
      <3>4. QED
        BY <1>4, <2>1, <3>2, <3>3 DEF Mapped
    <2>4. QED
      BY <2>2, <2>3
  <1>16. OwnIsMapped'
    <2>1. \A j \in 1..n : \A x \in Segments[j].vaddr..LastByte(j) : Mapped(x \div PAGE)'
      BY <1>15 DEF Mapped
    <2>2. QED
      BY <1>1, <2>1 DEF OwnIsMapped
  <1>17. TlbSound'
    BY <1>1 DEF PagingInv, TlbSound, Mapped
  <1>18. TlbAgrees'
    BY <1>1 DEF TlbAgrees
  <1>19. RunsInItsImage'
    <2>1. pc' # "fault"
      BY <1>1
    <2>2. ASSUME NEW j \in 1..n, NEW k \in 0..(Segments[j].memsz - 1),
                 mem'[Phys(Segments[j].vaddr + k)] # NewByte
          PROVE  mem'[Phys(Segments[j].vaddr + k)] = IF k < Segments[j].filesz THEN <<j, k>> ELSE ZeroByte
      <3>1. CASE j = n
        BY <1>0, <1>9, <3>1
      <3>2. CASE j # n
        <4>1. PICK x : x = Segments[j].vaddr + k
          OBVIOUS
        <4>2. j \in 1..Len(Segments) /\ j \in 1..loaded
          BY <1>0, <1>1, <3>2
        <4>3. x \in Segments[j].vaddr..LastByte(j)
          BY <4>1, <4>2, SegmentList DEF LastByte
        <4>4. x \in Addresses /\ Phys(x)[1] # None /\ Mapped(x \div PAGE) /\ x < v /\ x \in Nat
              /\ x \div PAGE \in Pages
          BY <1>15, <3>2, <4>3, AddressIs
        <4>5. Phys(x) = <<Walk(updir, tables, x \div PAGE), x % PAGE>>
          BY <1>4, <4>4
        <4>6. \A l \in 0..(len - 1) : Phys(x) # Phys(v + l)
          <5>1. ASSUME NEW l \in 0..(len - 1)
                PROVE  Phys(x) # Phys(v + l)
            <6>1. v + l \in Addresses /\ x # v + l
              BY <1>2, <1>3, <4>4 DEF High
            <6>2. QED
              BY <1>6, <4>4, <6>1
          <5>2. QED
            BY <5>1
        <4>7. mem'[Phys(x)] = mem[Phys(x)]
          <5>1. Phys(x) \in DOMAIN mem
            BY <1>7, <1>8, <4>4
          <5>2. QED
            BY <1>10, <4>6, <5>1
        <4>8. mem[Phys(x)] # NewByte =>
                mem[Phys(x)] = IF k < Segments[j].filesz THEN <<j, k>> ELSE ZeroByte
          BY <4>1, <4>2, <4>5 DEF PagingInv, RunsInItsImage
        <4>9. QED
          BY <2>2, <4>1, <4>7, <4>8
      <3>3. QED
        BY <3>1, <3>2
    <2>3. QED
      BY <1>1, <2>1, <2>2 DEF RunsInItsImage
  <1>20. pc' = "kernel" => reply' = <<>>
    BY <1>1 DEF PagingInv
  <1>21. QED
    BY <1>4, <1>13, <1>14, <1>16, <1>17, <1>18, <1>19, <1>20 DEF PagingInv

-----------------------------------------------------------------------------
\* The start.

LEMMA FramesArePages == Frames \subseteq Pages
  <1>1. PICK j \in 1..Len(Segments) : TRUE
    BY SegmentList
  <1>2. Segments[j].vaddr \in High
    BY ProgramIsHigh, SegmentList
  <1>3. Segments[j].vaddr \div PAGE \in Pages /\ Segments[j].vaddr \div PAGE >= PHY_MEM
    BY <1>2, AddressIs DEF High
  <1>4. QED
    BY <1>3, Numbers DEF Pages, Frames

LEMMA StartIsSound ==
    ASSUME PgInit
    PROVE  PagingInv
  <1>1. /\ pc = "kernel" /\ loaded = 0 /\ pf_idx = KMEM /\ brk = 0 /\ heap_end = 0
        /\ reply = <<>> /\ stores = 0
        /\ updir = [d \in Dirs |-> None]
        /\ tables = [t \in Tables |-> [e \in 0..(NR_PTE - 1) |-> None]]
        /\ mem = [c \in Frames \X (0..(PAGE - 1)) |-> ZeroByte]
        /\ tlb = [i \in 1..TLB_SIZE |-> Empty]
    BY DEF PgInit
  <1>2. \A p \in Pages : Walk(updir, tables, p) = None
    BY <1>1, PagePlace DEF Walk
  <1>3. PgTypeOK
    <2>1. mem \in [Frames \X (0..(PAGE - 1)) -> Bytes]
      BY <1>1 DEF Bytes
    <2>2. tlb \in [1..TLB_SIZE -> [vpn : Pages, frame : Frames] \cup {Empty}]
      BY <1>1
    <2>3. updir \in [Dirs -> {None} \cup Tables]
      BY <1>1
    <2>4. tables \in [Tables -> [0..(NR_PTE - 1) -> Frames \cup {None}]]
      BY <1>1
    <2>5. loaded \in 0..Len(Segments) /\ pf_idx \in KMEM..PHY_MEM /\ stores \in 0..MaxStores
      BY <1>1, Numbers, SegmentList
    <2>6. QED
      BY <1>1, <2>1, <2>2, <2>3, <2>4, <2>5 DEF PgTypeOK
  <1>4. TablesSound
    BY <1>1, TableNames DEF TablesSound
  <1>5. FramesGiven /\ FramesApart
    BY <1>2 DEF FramesGiven, FramesApart, Mapped
  <1>6. LoadedInOrder
    <2>1. loaded = 0 /\ pc = "kernel" /\ brk = 0
      BY <1>1
    <2>2. ~(loaded > 0)
      BY <2>1
    <2>3. \A p \in Pages : ~Mapped(p)
      BY <1>2 DEF Mapped
    <2>4. QED
      BY <2>1, <2>2, <2>3 DEF LoadedInOrder
  <1>7. OwnIsMapped /\ RunsInItsImage
    BY <1>1 DEF OwnIsMapped, RunsInItsImage
  <1>8. TlbSound /\ TlbAgrees
    BY <1>1 DEF TlbSound, TlbAgrees
  <1>9. QED
    BY <1>1, <1>3, <1>4, <1>5, <1>6, <1>7, <1>8 DEF PagingInv

LEMMA KernelAccessKeeps ==
    ASSUME PagingInv, KernelAccess
    PROVE  PagingInv'
  <1>1. PICK f \in Touched, i \in 1..TLB_SIZE :
            tlb' = [tlb EXCEPT ![i] = [vpn |-> f, frame |-> f]]
    BY DEF KernelAccess
  <1>2. /\ UNCHANGED <<pc, loaded, updir, tables, pf_idx, brk, heap_end, mem, reply, stores>>
        /\ pc = "kernel"
    BY DEF KernelAccess
  <1>3. f \in Frames /\ f \in Pages
    BY Layout, FramesArePages DEF Frames
  <1>4. tlb \in [1..TLB_SIZE -> [vpn : Pages, frame : Frames] \cup {Empty}]
    BY DEF PagingInv, PgTypeOK
  <1>5. PgTypeOK'
    <2>1. tlb' \in [1..TLB_SIZE -> [vpn : Pages, frame : Frames] \cup {Empty}]
      BY <1>1, <1>3, <1>4
    <2>2. QED
      BY <1>2, <2>1 DEF PagingInv, PgTypeOK
  <1>6. TlbSound'
    <2>1. \A l \in 1..TLB_SIZE : tlb'[l] = tlb[l] \/ tlb'[l].vpn = tlb'[l].frame
      BY <1>1, <1>4
    <2>2. QED
      BY <1>2, <2>1 DEF PagingInv, TlbSound, Mapped
  <1>7. TlbAgrees' /\ RunsInItsImage'
    BY <1>2 DEF PagingInv, TlbAgrees, RunsInItsImage
  <1>8. /\ TablesSound' /\ FramesGiven' /\ FramesApart' /\ LoadedInOrder'
    BY <1>2 DEF PagingInv, TablesSound, FramesGiven, FramesApart, LoadedInOrder, Mapped
  <1>9. OwnIsMapped'
    BY <1>2 DEF PagingInv, OwnIsMapped, Mapped
  <1>10. QED
    BY <1>2, <1>5, <1>6, <1>7, <1>8, <1>9 DEF PagingInv

-----------------------------------------------------------------------------
\* Run

\* The user directory the program starts with: the stack is added, and the
\* first entry leads to the video memory alone.
LEMMA RunWalk ==
    ASSUME PagingInv, Run
    PROVE  /\ updir' \in [Dirs -> {None} \cup Tables]
           /\ tables' \in [Tables -> [0..(NR_PTE - 1) -> Frames \cup {None}]]
           /\ pf_idx' \in KMEM..PHY_MEM
           /\ TablesSound' /\ FramesGiven' /\ FramesApart'
           /\ \A p \in Pages : Mapped(p) => Walk(updir', tables', p) = Walk(updir, tables, p)
           /\ Walk(updir', tables', VIDEO) = VIDEO
           /\ \A v \in Stack : Walk(updir', tables', v \div PAGE) # None
  <1>0. PICK v, len : v = (KOFFSET - STACK_PAGES) * PAGE /\ len = STACK_PAGES * PAGE
    OBVIOUS
  <1>1. v \in Int /\ len \in Nat /\ Stack = v..(v + len - 1)
    <2>1. KOFFSET * PAGE = (KOFFSET - STACK_PAGES) * PAGE + STACK_PAGES * PAGE
      BY Numbers
    <2>2. (KOFFSET - STACK_PAGES) * PAGE \in Int /\ STACK_PAGES * PAGE \in Nat
      BY Numbers
    <2>3. QED
      BY <1>0, <2>1, <2>2 DEF Stack
  <1>2. len > 0 => v \in High /\ v + len - 1 \in High
    <2>1. len > 0 => v \in Stack /\ v + len - 1 \in Stack
      BY <1>1
    <2>2. QED
      BY <2>1, ProgramIsHigh
  <1>3. PICK N : N = Unmapped(v, len)
    OBVIOUS
  <1>4. /\ N \in SUBSET Pages /\ \A p \in N : ~Mapped(p) /\ p >= PHY_MEM /\ p >= NR_PTE
        /\ len > 0 => N = {p \in PagesOf(v, len) : ~Mapped(p)}
        /\ len > 0 => /\ \A p \in PagesOf(v, len) : p \in Pages
                      /\ \A w \in v..(v + len - 1) : w \div PAGE \in PagesOf(v, len)
    BY <1>1, <1>2, <1>3, AreaIsHigh
  <1>5. PICK D, T : D = DirWith(N) /\ T = TablesWith(N)
    OBVIOUS
  <1>6. /\ pc = "kernel" /\ pc' = "user" /\ pf_idx + Cardinality(N) <= PHY_MEM
        /\ updir' = [D EXCEPT ![0] = vptable]
        /\ tables' = [T EXCEPT ![vptable] = [T[vptable] EXCEPT ![VIDEO] = VIDEO]]
        /\ pf_idx' = pf_idx + Cardinality(N)
    BY <1>0, <1>3, <1>5 DEF Run, VideoFrame
  <1>7. PgTypeOK /\ TablesSound /\ FramesGiven /\ FramesApart
    BY DEF PagingInv
  <1>8. /\ D \in [Dirs -> {None} \cup Tables]
        /\ T \in [Tables -> [0..(NR_PTE - 1) -> Frames \cup {None}]]
        /\ \A d \in Dirs : D[d] \in {None, d}
        /\ \A d \in Dirs, e \in 0..(NR_PTE - 1) : D[d] = None => T[d][e] = None
        /\ \A e \in 0..(NR_PTE - 1) : T[vptable][e] = None
    <2>1. /\ D \in [Dirs -> {None} \cup Tables]
          /\ T \in [Tables -> [0..(NR_PTE - 1) -> Frames \cup {None}]]
          /\ \A d \in Dirs :
              IF pc # "kernel" /\ d = 0 THEN D[d] = vptable ELSE D[d] \in {None, d}
          /\ \A d \in Dirs, e \in 0..(NR_PTE - 1) : D[d] = None => T[d][e] = None
          /\ \A e \in 0..(NR_PTE - 1) : T[vptable][e] = tables[vptable][e]
      BY <1>4, <1>5, <1>6, <1>7, WalkWith
    <2>2. \A e \in 0..(NR_PTE - 1) : tables[vptable][e] = None
      BY <1>6, <1>7 DEF TablesSound
    <2>3. QED
      BY <1>6, <2>1, <2>2
  <1>9. /\ \A p \in Pages : Walk(D, T, p) = IF p \in N THEN Given(N, p) ELSE Walk(updir, tables, p)
        /\ \A p \in Pages : Walk(D, T, p) # None =>
              Walk(D, T, p) \in KMEM..(pf_idx' - 1) /\ p >= PHY_MEM /\ p >= NR_PTE
        /\ \A p \in Pages : Walk(D, T, p) # None =>
              \A q \in Pages \ {p} : Walk(D, T, p) # Walk(D, T, q)
        /\ \A p \in N : Walk(D, T, p) # None
        /\ pf_idx' \in pf_idx..PHY_MEM
    <2>1. FramesAre(DirWith(N), TablesWith(N), pf_idx + Cardinality(N), N)
      BY <1>4, <1>6, <1>7, FramesWith
    <2>2. FramesAre(D, T, pf_idx', N)
      BY <1>5, <1>6, <2>1
    <2>3. QED
      BY <1>6, <2>2 DEF FramesAre
  <1>10. /\ updir' \in [Dirs -> {None} \cup Tables] /\ updir'[0] = vptable
         /\ \A d \in Dirs \ {0} : updir'[d] = D[d]
    BY <1>6, <1>8, TableNames
  <1>11. /\ tables' \in [Tables -> [0..(NR_PTE - 1) -> Frames \cup {None}]]
         /\ \A d \in Dirs : tables'[d] = T[d]
         /\ \A e \in 0..(NR_PTE - 1) : tables'[vptable][e] = IF e = VIDEO THEN VIDEO ELSE None
    <2>1. VIDEO \in 0..(NR_PTE - 1) /\ VIDEO \in Frames /\ vptable \in Tables
      BY VideoPage, Numbers, TableNames DEF Frames
    <2>2. PICK R : R = [T[vptable] EXCEPT ![VIDEO] = VIDEO]
      OBVIOUS
    <2>3. /\ R \in [0..(NR_PTE - 1) -> Frames \cup {None}]
          /\ \A e \in 0..(NR_PTE - 1) : R[e] = IF e = VIDEO THEN VIDEO ELSE None
      <3>1. T[vptable] \in [0..(NR_PTE - 1) -> Frames \cup {None}]
        BY <1>8, <2>1
      <3>2. QED
        BY <1>8, <2>1, <2>2, <3>1
    <2>4. tables' = [T EXCEPT ![vptable] = R]
      BY <1>6, <2>2
    <2>5. QED
      BY <1>8, <2>1, <2>3, <2>4, TableNames
  <1>12. \A p \in Pages : Walk(updir', tables', p) = IF p = VIDEO THEN VIDEO ELSE Walk(D, T, p)
    <2>1. ASSUME NEW p \in Pages
          PROVE  Walk(updir', tables', p) = IF p = VIDEO THEN VIDEO ELSE Walk(D, T, p)
      <3>1. /\ Dir(p) \in Dirs /\ Entry(p) \in 0..(NR_PTE - 1) /\ p \in Nat
            /\ (Dir(p) = 0 <=> p < NR_PTE) /\ (p < NR_PTE => Entry(p) = p)
        BY PagePlace
      <3>2. CASE Dir(p) = 0
        <4>1. Walk(updir', tables', p) = tables'[vptable][p] /\ p \in 0..(NR_PTE - 1)
          BY <1>10, <3>1, <3>2, TableNames DEF Walk
        <4>2. Walk(D, T, p) = None
          BY <1>9, <3>1, <3>2, Numbers
        <4>3. QED
          BY <1>11, <4>1, <4>2
      <3>3. CASE Dir(p) # 0
        <4>1. p # VIDEO
          BY <3>3, VideoPage
        <4>2. updir'[Dir(p)] = D[Dir(p)] /\ D[Dir(p)] \in {None, Dir(p)}
          BY <1>8, <1>10, <3>1, <3>3
        <4>3. tables'[Dir(p)] = T[Dir(p)]
          BY <1>11, <3>1
        <4>4. QED
          BY <4>1, <4>2, <4>3 DEF Walk
      <3>4. QED
        BY <3>2, <3>3
    <2>2. QED
      BY <2>1
  <1>13. Walk(D, T, VIDEO) = None
    BY <1>9, VideoPage, Numbers
  <1>14. pf_idx' \in KMEM..PHY_MEM
    BY <1>7, <1>9, Numbers DEF PgTypeOK
  <1>15. TablesSound'
    <2>1. \A d \in Dirs : IF pc' # "kernel" /\ d = 0 THEN updir'[d] = vptable
                          ELSE updir'[d] \in {None, d}
      BY <1>6, <1>8, <1>10
    <2>2. \A d \in Dirs, e \in 0..(NR_PTE - 1) : updir'[d] = None => tables'[d][e] = None
      BY <1>8, <1>10, <1>11, TableNames
    <2>3. QED
      BY <1>6, <1>11, <2>1, <2>2 DEF TablesSound
  <1>16. FramesGiven'
    BY <1>6, <1>9, <1>12 DEF FramesGiven, Mapped
  <1>17. FramesApart'
    <2>1. ASSUME NEW p \in Pages, Walk(updir', tables', p) # None
          PROVE  /\ Walk(updir', tables', p) < KMEM => p = VIDEO /\ Walk(updir', tables', p) = VIDEO
                 /\ \A q \in Pages \ {p} : Walk(updir', tables', p) # Walk(updir', tables', q)
      <3>1. \A q \in Pages : Walk(D, T, q) # VIDEO
        BY <1>9, <1>14, VideoPage, Numbers DEF None
      <3>2. CASE p = VIDEO
        BY <1>12, <3>1, <3>2
      <3>3. CASE p # VIDEO
        <4>1. Walk(updir', tables', p) = Walk(D, T, p) /\ Walk(D, T, p) # None
          BY <1>12, <2>1, <3>3
        <4>2. Walk(D, T, p) \in KMEM..(pf_idx' - 1)
          BY <1>9, <4>1
        <4>3. \A q \in Pages \ {p} : Walk(D, T, p) # Walk(updir', tables', q)
          BY <1>9, <1>12, <3>1, <4>1
        <4>4. QED
          BY <1>14, <4>1, <4>2, <4>3, Numbers
      <3>4. QED
        BY <3>2, <3>3
    <2>2. QED
      BY <2>1 DEF FramesApart, Mapped
  <1>18. \A p \in Pages : Mapped(p) => Walk(updir', tables', p) = Walk(updir, tables, p)
    <2>1. \A p \in Pages : Mapped(p) => p \notin N
      BY <1>4
    <2>2. \A p \in Pages : Mapped(p) => Walk(D, T, p) = Walk(updir, tables, p)
      BY <1>9, <2>1
    <2>3. \A p \in Pages : Mapped(p) => p # VIDEO
      BY <1>13, <2>2, VideoPage DEF Mapped
    <2>4. QED
      BY <1>12, <2>2, <2>3
  <1>19. Walk(updir', tables', VIDEO) = VIDEO
    BY <1>12, VideoPage
  <1>20. ASSUME NEW x \in Stack
         PROVE  Walk(updir', tables', x \div PAGE) # None
    <2>1. len > 0 /\ x \in v..(v + len - 1)
      BY <1>1
    <2>2. x \div PAGE \in PagesOf(v, len) /\ x \div PAGE \in Pages
      BY <1>4, <2>1
    <2>3. CASE x \div PAGE \in N
      <3>1. Walk(D, T, x \div PAGE) # None
        BY <1>9, <2>3
      <3>2. x \div PAGE # VIDEO
        BY <1>13, <3>1
      <3>3. QED
        BY <1>12, <2>2, <3>1, <3>2
    <2>4. CASE x \div PAGE \notin N
      <3>1. Mapped(x \div PAGE)
        BY <1>4, <2>1, <2>2, <2>4
      <3>2. QED
        BY <1>18, <2>2, <3>1 DEF Mapped
    <2>5. QED
      BY <2>3, <2>4
  <1>21. QED
    BY <1>10, <1>11, <1>14, <1>15, <1>16, <1>17, <1>18, <1>19, <1>20

\* A page that was mapped keeps its bytes where they are.
LEMMA RunKeeps ==
    ASSUME PagingInv, Run
    PROVE  PagingInv'
  <1>1. /\ pc = "kernel" /\ pc' = "user" /\ loaded = Len(Segments) /\ heap_end' = End
        /\ UNCHANGED <<loaded, brk, mem, tlb, reply, stores>>
    BY DEF Run
  <1>2. /\ updir' \in [Dirs -> {None} \cup Tables]
        /\ tables' \in [Tables -> [0..(NR_PTE - 1) -> Frames \cup {None}]]
        /\ pf_idx' \in KMEM..PHY_MEM
        /\ TablesSound' /\ FramesGiven' /\ FramesApart'
        /\ \A p \in Pages : Mapped(p) => Walk(updir', tables', p) = Walk(updir, tables, p)
        /\ Walk(updir', tables', VIDEO) = VIDEO
        /\ \A v \in Stack : Walk(updir', tables', v \div PAGE) # None
    BY RunWalk
  <1>3. PgTypeOK'
    BY <1>1, <1>2, ProgramIsHigh DEF PagingInv, PgTypeOK
  <1>4. LoadedInOrder'
    BY <1>1 DEF LoadedInOrder
  <1>5. \A j \in 1..loaded : \A v \in Segments[j].vaddr..LastByte(j) :
            /\ v \div PAGE \in Pages /\ Mapped(v \div PAGE)
            /\ Walk(updir', tables', v \div PAGE) = Walk(updir, tables, v \div PAGE)
    <2>1. ASSUME NEW j \in 1..loaded, NEW v \in Segments[j].vaddr..LastByte(j)
          PROVE  /\ v \div PAGE \in Pages /\ Mapped(v \div PAGE)
                 /\ Walk(updir', tables', v \div PAGE) = Walk(updir, tables, v \div PAGE)
      <3>1. v \in Addresses
        BY <1>1, <2>1, ProgramIsHigh DEF High
      <3>2. v \div PAGE \in Pages
        BY <3>1, AddressIs
      <3>3. Mapped(v \div PAGE)
        BY <2>1 DEF PagingInv, OwnIsMapped
      <3>4. QED
        BY <1>2, <3>2, <3>3
    <2>2. QED
      BY <2>1
  <1>6. brk = End - 1
    <2>1. loaded > 0 /\ loaded = Len(Segments)
      BY <1>1, SegmentList
    <2>2. brk = LastByte(Len(Segments)) /\ LastByte(Len(Segments)) \in Nat
      BY <1>1, <2>1, ProgramIsHigh, SegmentList DEF PagingInv, LoadedInOrder
    <2>3. QED
      BY <2>2, ProgramIsHigh
  <1>7. OwnIsMapped'
    <2>1. \A j \in 1..loaded' : \A v \in Segments[j].vaddr..LastByte(j) : Mapped(v \div PAGE)'
      BY <1>1, <1>5 DEF Mapped
    <2>2. ASSUME NEW v \in Own'
          PROVE  Mapped(v \div PAGE)'
      <3>1. v \in Image \/ v \in End..(End - 1) \/ v \in Stack \/ v \in Video
        BY <1>1 DEF Own, Heap
      <3>2. CASE v \in Image
        <4>1. PICK j \in 1..Len(Segments) : v \in Segments[j].vaddr..LastByte(j)
          BY <3>2, ProgramIsHigh
        <4>2. QED
          BY <1>1, <2>1, <4>1
      <3>3. CASE v \in End..(End - 1)
        BY <3>3, ProgramIsHigh
      <3>4. CASE v \in Stack
        BY <1>2, <3>4 DEF Mapped
      <3>5. CASE v \in Video
        <4>1. v \div PAGE = VIDEO /\ VIDEO # None
          BY <3>5, VideoPage, Numbers DEF None
        <4>2. QED
          BY <1>2, <4>1 DEF Mapped
      <3>6. QED
        BY <3>1, <3>2, <3>3, <3>4, <3>5
    <2>3. heap_end' \in End..(End + MaxBreak) /\ brk' = End - 1 /\ heap_end' = End
      BY <1>1, <1>6, ProgramIsHigh, Numbers
    <2>4. QED
      BY <2>1, <2>2, <2>3 DEF OwnIsMapped
  <1>8. \A i \in 1..TLB_SIZE : tlb[i] = Empty \/ (tlb[i].vpn = tlb[i].frame /\ tlb[i].vpn \in Pages)
    <2>1. \A i \in 1..TLB_SIZE : tlb[i] = Empty \/ tlb[i].vpn = tlb[i].frame
      BY <1>1 DEF PagingInv, TlbSound
    <2>2. \A i \in 1..TLB_SIZE : tlb[i] = Empty \/ tlb[i] \in [vpn : Pages, frame : Frames]
      BY DEF PagingInv, PgTypeOK
    <2>3. QED
      BY <2>1, <2>2
  <1>9. TlbSound'
    BY <1>1, <1>8 DEF TlbSound
  <1>10. TlbAgrees'
    <2>1. ASSUME NEW i \in 1..TLB_SIZE, tlb[i].vpn # None, Walk(updir', tables', tlb[i].vpn) # None
          PROVE  tlb[i].frame = Walk(updir', tables', tlb[i].vpn)
      <3>1. tlb[i] # Empty
        BY <2>1 DEF Empty
      <3>2. tlb[i].vpn = tlb[i].frame /\ tlb[i].vpn \in Pages /\ tlb[i].vpn \in Frames
        <4>1. tlb[i] \in [vpn : Pages, frame : Frames]
          BY <3>1 DEF PagingInv, PgTypeOK
        <4>2. QED
          BY <1>8, <3>1, <4>1
      <3>3. ~(tlb[i].vpn >= PHY_MEM)
        BY <3>2, Numbers DEF Frames
      <3>4. tlb[i].vpn = VIDEO
        BY <1>2, <2>1, <3>2, <3>3 DEF FramesGiven, Mapped
      <3>5. QED
        BY <1>2, <3>2, <3>4
    <2>2. QED
      BY <1>1, <2>1 DEF TlbAgrees, Mapped
  <1>11. RunsInItsImage'
    <2>1. ASSUME NEW j \in 1..loaded, NEW k \in 0..(Segments[j].memsz - 1), NEW v,
                 v = Segments[j].vaddr + k,
                 mem[<<Walk(updir', tables', v \div PAGE), v % PAGE>>] # NewByte
          PROVE  mem[<<Walk(updir', tables', v \div PAGE), v % PAGE>>] =
                    IF k < Segments[j].filesz THEN <<j, k>> ELSE ZeroByte
      <3>1. v \in Segments[j].vaddr..LastByte(j)
        BY <1>1, <2>1, SegmentList DEF LastByte
      <3>2. Walk(updir', tables', v \div PAGE) = Walk(updir, tables, v \div PAGE)
        BY <1>5, <3>1
      <3>3. QED
        BY <2>1, <3>2 DEF PagingInv, RunsInItsImage
    <2>2. QED
      BY <1>1, <2>1 DEF RunsInItsImage
  <1>12. QED
    BY <1>1, <1>2, <1>3, <1>4, <1>7, <1>9, <1>10, <1>11 DEF PagingInv

-----------------------------------------------------------------------------
\* Sbrk

\* What the break has passed stays mapped, and the pages that are new were not
\* in the TLB.
LEMMA SbrkKeeps ==
    ASSUME PagingInv, Sbrk
    PROVE  /\ PagingInv' /\ heap_end' \in Nat
           /\ \A p \in Pages : Mapped(p) => Walk(updir', tables', p) = Walk(updir, tables, p)
  <1>1. PICK new \in End..(End + MaxBreak) :
            mm_malloc(brk, new - brk) /\ brk' = new /\ heap_end' = new
    BY DEF Sbrk
  <1>2. /\ UNCHANGED <<pc, loaded, mem, tlb, stores>> /\ pc = "user" /\ reply' = <<>>
    BY DEF Sbrk
  <1>3. End \in Nat /\ MaxBreak \in Nat /\ new \in Nat /\ brk \in Nat /\ heap_end \in Nat
    BY ProgramIsHigh, Numbers DEF PagingInv, PgTypeOK
  <1>4. /\ heap_end \in End..(End + MaxBreak)
        /\ brk = heap_end \/ (brk = End - 1 /\ heap_end = End)
    BY <1>2 DEF PagingInv, OwnIsMapped
  <1>5. PICK len \in Int : len = new - brk
    BY <1>3
  <1>6. len > 0 => brk \in High /\ brk + len - 1 \in High
    <2>1. len > 0 => /\ brk \in (End - 1)..(End + MaxBreak - 1)
                     /\ brk + len - 1 \in (End - 1)..(End + MaxBreak - 1)
      BY <1>3, <1>4, <1>5
    <2>2. QED
      BY <2>1, ProgramIsHigh
  <1>7. /\ updir' \in [Dirs -> {None} \cup Tables]
        /\ tables' \in [Tables -> [0..(NR_PTE - 1) -> Frames \cup {None}]]
        /\ pf_idx' \in KMEM..PHY_MEM
        /\ TablesSound' /\ FramesGiven' /\ FramesApart'
        /\ Unmapped(brk, len) \in SUBSET Pages
        /\ \A p \in Pages : Walk(updir', tables', p) =
              IF p \in Unmapped(brk, len) THEN Given(Unmapped(brk, len), p) ELSE Walk(updir, tables, p)
        /\ \A p \in Pages : Mapped(p) => Walk(updir', tables', p) = Walk(updir, tables, p)
        /\ \A p \in Unmapped(brk, len) : Walk(updir', tables', p) # None /\ p >= PHY_MEM
        /\ len > 0 => \A w \in brk..(brk + len - 1) :
              w \div PAGE \in PagesOf(brk, len) /\ Walk(updir', tables', w \div PAGE) # None
    <2>1. PgTypeOK /\ TablesSound /\ FramesGiven /\ FramesApart
      BY DEF PagingInv
    <2>2. mm_malloc(brk, len) /\ pc' = pc
      BY <1>1, <1>2, <1>5
    <2>3. QED
      BY <1>6, <2>1, <2>2, MallocKeeps
  <1>8. PgTypeOK'
    BY <1>1, <1>2, <1>3, <1>7 DEF PagingInv, PgTypeOK
  <1>9. LoadedInOrder'
    BY <1>2 DEF PagingInv, LoadedInOrder
  <1>10. ASSUME NEW v \in Addresses, Mapped(v \div PAGE)
         PROVE  Walk(updir', tables', v \div PAGE) = Walk(updir, tables, v \div PAGE) /\ Mapped(v \div PAGE)'
    <2>1. v \div PAGE \in Pages
      BY AddressIs
    <2>2. QED
      BY <1>7, <1>10, <2>1 DEF Mapped
  <1>11. \A v \in Own : Mapped(v \div PAGE)
    BY <1>2 DEF PagingInv, OwnIsMapped
  <1>12. OwnIsMapped'
    <2>1. ASSUME NEW j \in 1..loaded, NEW v \in Segments[j].vaddr..LastByte(j)
          PROVE  Mapped(v \div PAGE)'
      <3>1. v \in Addresses
        BY <1>2, SegmentList, ProgramIsHigh DEF High, PagingInv, LoadedInOrder
      <3>2. Mapped(v \div PAGE)
        BY DEF PagingInv, OwnIsMapped
      <3>3. QED
        BY <1>10, <3>1, <3>2
    <2>2. ASSUME NEW v \in Own'
          PROVE  Mapped(v \div PAGE)'
      <3>1. v \in Image \cup Stack \cup Video \/ v \in End..(new - 1)
        BY <1>1 DEF Own, Heap
      <3>2. CASE v \in Image \cup Stack \cup Video
        <4>1. v \in Addresses
          BY <3>2, ProgramIsHigh, VideoPage DEF High
        <4>2. v \in Own
          BY <3>2 DEF Own
        <4>3. QED
          BY <1>10, <1>11, <4>1, <4>2
      <3>3. CASE v \in End..(new - 1) /\ v < heap_end
        <4>1. v \in (End - 1)..(End + MaxBreak - 1)
          BY <1>3, <3>3
        <4>2. v \in Addresses
          BY <4>1, ProgramIsHigh DEF High
        <4>3. v \in Own
          BY <1>3, <3>3 DEF Own, Heap
        <4>4. QED
          BY <1>10, <1>11, <4>2, <4>3
      <3>4. CASE v \in End..(new - 1) /\ v >= heap_end
        <4>1. len > 0 /\ v \in brk..(brk + len - 1)
          BY <1>3, <1>4, <1>5, <3>4
        <4>2. QED
          BY <1>7, <4>1 DEF Mapped
      <3>5. QED
        BY <1>3, <3>1, <3>2, <3>3, <3>4
    <2>3. heap_end' \in End..(End + MaxBreak) /\ brk' = heap_end'
      BY <1>1
    <2>4. QED
      BY <1>2, <2>1, <2>2, <2>3 DEF OwnIsMapped
  <1>13. \A i \in 1..TLB_SIZE : tlb[i] = Empty \/ tlb[i] \in [vpn : Pages, frame : Frames]
    BY DEF PagingInv, PgTypeOK
  <1>14. \A i \in 1..TLB_SIZE :
            \/ tlb[i] = Empty
            \/ tlb[i].vpn = tlb[i].frame
            \/ Mapped(tlb[i].vpn) /\ tlb[i].frame = Walk(updir, tables, tlb[i].vpn)
    BY DEF PagingInv, TlbSound
  <1>15. TlbSound'
    <2>1. ASSUME NEW i \in 1..TLB_SIZE, tlb[i] # Empty, tlb[i].vpn # tlb[i].frame
          PROVE  Mapped(tlb[i].vpn)' /\ tlb[i].frame = Walk(updir', tables', tlb[i].vpn)
      <3>1. tlb[i].vpn \in Pages /\ Mapped(tlb[i].vpn) /\ tlb[i].frame = Walk(updir, tables, tlb[i].vpn)
        BY <1>13, <1>14, <2>1
      <3>2. QED
        BY <1>2, <1>7, <3>1 DEF Mapped
    <2>2. QED
      BY <1>2, <2>1 DEF TlbSound, Mapped
  <1>16. TlbAgrees'
    <2>1. ASSUME NEW i \in 1..TLB_SIZE, tlb[i].vpn # None, Walk(updir', tables', tlb[i].vpn) # None
          PROVE  tlb[i].frame = Walk(updir', tables', tlb[i].vpn)
      <3>1. tlb[i] # Empty
        BY <2>1 DEF Empty
      <3>2. tlb[i].vpn \in Pages /\ tlb[i].frame \in Frames
        BY <1>13, <3>1
      <3>3. CASE Mapped(tlb[i].vpn)
        <4>1. tlb[i].frame = Walk(updir, tables, tlb[i].vpn)
          BY <1>2, <2>1, <3>3 DEF PagingInv, TlbAgrees
        <4>2. QED
          BY <1>7, <3>2, <3>3, <4>1
      <3>4. CASE ~Mapped(tlb[i].vpn)
        <4>1. tlb[i].vpn = tlb[i].frame
          BY <1>14, <3>1, <3>4
        <4>2. tlb[i].vpn \in Unmapped(brk, len)
          BY <1>7, <2>1, <3>2, <3>4 DEF Mapped
        <4>3. tlb[i].vpn >= PHY_MEM
          BY <1>7, <4>2
        <4>4. QED
          BY <3>2, <4>1, <4>3, Numbers DEF Frames
      <3>5. QED
        BY <3>3, <3>4
    <2>2. QED
      BY <1>2, <2>1 DEF TlbAgrees, Mapped
  <1>17. RunsInItsImage'
    <2>1. ASSUME NEW j \in 1..loaded, NEW k \in 0..(Segments[j].memsz - 1), NEW v,
                 v = Segments[j].vaddr + k,
                 mem[<<Walk(updir', tables', v \div PAGE), v % PAGE>>] # NewByte
          PROVE  mem[<<Walk(updir', tables', v \div PAGE), v % PAGE>>] =
                    IF k < Segments[j].filesz THEN <<j, k>> ELSE ZeroByte
      <3>1. j \in 1..Len(Segments)
        BY <1>2 DEF PagingInv, LoadedInOrder
      <3>2. v \in Segments[j].vaddr..LastByte(j)
        BY <2>1, <3>1, SegmentList DEF LastByte
      <3>3. v \in Addresses /\ Mapped(v \div PAGE)
        BY <3>1, <3>2, ProgramIsHigh DEF High, PagingInv, OwnIsMapped
      <3>4. Walk(updir', tables', v \div PAGE) = Walk(updir, tables, v \div PAGE)
        BY <1>10, <3>3
      <3>5. QED
        BY <2>1, <3>4 DEF PagingInv, RunsInItsImage
    <2>2. QED
      BY <1>2, <2>1 DEF RunsInItsImage
  <1>18. PagingInv'
    BY <1>2, <1>7, <1>8, <1>9, <1>12, <1>15, <1>16, <1>17 DEF PagingInv
  <1>19. QED
    BY <1>1, <1>3, <1>7, <1>18

-----------------------------------------------------------------------------
\* The program's accesses.

\* A set of numbers has a least one, which is the entry tlb_read() comes to.
LEMMA Least ==
    ASSUME NEW S \in SUBSET Nat, S # {}
    PROVE  \E x \in S : \A y \in S : x <= y
  <1>1. PICK x \in S : \A y \in S : ~(<<y, x>> \in OpToRel(<, Nat))
    <2>1. IsWellFoundedOn(OpToRel(<, Nat), Nat)
      BY NatLessThanWellFounded
    <2> DEFINE R == OpToRel(<, Nat)
    <2> HIDE DEF R
    <2>2. IsWellFoundedOn(R, Nat)
      BY <2>1 DEF R
    <2>3. \E x \in S : \A y \in S : ~(<<y, x>> \in R)
      BY <2>2, WFMin
    <2>4. QED
      BY <2>3 DEF R
  <1>2. \A y \in S : ~(y < x)
    BY <1>1 DEF OpToRel
  <1>3. QED
    BY <1>2

\* A TLB of a running program.
TlbIs(t) ==
    /\ t \in [1..TLB_SIZE -> [vpn : Pages, frame : Frames] \cup {Empty}]
    /\ \A i \in 1..TLB_SIZE :
        \/ t[i] = Empty
        \/ t[i].vpn = t[i].frame
        \/ Mapped(t[i].vpn) /\ t[i].frame = Walk(updir, tables, t[i].vpn)
    /\ \A i \in 1..TLB_SIZE : t[i].vpn # None /\ Mapped(t[i].vpn) =>
        t[i].frame = Walk(updir, tables, t[i].vpn)

\* The frames page_walk() finds are frames.
LEMMA WalkIs ==
    ASSUME PgTypeOK, NEW p \in Pages
    PROVE  Walk(updir, tables, p) \in Frames \cup {None}
  <1>1. Dir(p) \in Dirs /\ Entry(p) \in 0..(NR_PTE - 1)
    BY PagePlace
  <1>2. CASE updir[Dir(p)] = None
    BY <1>2 DEF Walk
  <1>3. CASE updir[Dir(p)] # None
    <2>1. updir[Dir(p)] \in Tables
      BY <1>1, <1>3 DEF PgTypeOK
    <2>2. tables[updir[Dir(p)]][Entry(p)] \in Frames \cup {None}
      BY <1>1, <2>1, ZenonT(60) DEF PgTypeOK
    <2>3. QED
      BY <1>3, <2>2 DEF Walk
  <1>4. QED
    BY <1>2, <1>3

\* page_translate() finds what page_walk() finds, by whatever entry.
LEMMA FilledSound ==
    ASSUME PgTypeOK, NEW t, TlbIs(t), NEW p \in Pages, Mapped(p), NEW u \in Filled(t, p)
    PROVE  TlbIs(u) /\ tlb_read(u, p) = Walk(updir, tables, p)
  <1>1. PICK f : f = Walk(updir, tables, p)
    OBVIOUS
  <1>2. f \in Frames /\ f # None /\ p # None
    BY <1>1, WalkIs, TableNames DEF Mapped
  <1>3. TlbIs(u) /\ Hits(u, p) # {}
    <2>1. CASE Hits(t, p) # {}
      BY <2>1 DEF Filled
    <2>2. CASE Hits(t, p) = {}
      <3>1. PICK i \in 1..TLB_SIZE : u = [t EXCEPT ![i] = [vpn |-> p, frame |-> f]]
        BY <1>1, <1>2, <2>2 DEF Filled
      <3>2. t \in [1..TLB_SIZE -> [vpn : Pages, frame : Frames] \cup {Empty}]
        BY DEF TlbIs
      <3>3. u \in [1..TLB_SIZE -> [vpn : Pages, frame : Frames] \cup {Empty}]
        BY <1>2, <3>1, <3>2
      <3>4. /\ u[i].vpn = p /\ u[i].frame = f
            /\ \A l \in 1..TLB_SIZE : l # i => u[l] = t[l]
        BY <3>1, <3>2
      <3>5. TlbIs(u)
        BY <1>1, <3>3, <3>4 DEF TlbIs
      <3>6. i \in Hits(u, p)
        BY <3>4 DEF Hits
      <3>7. QED
        BY <3>5, <3>6
    <2>3. QED
      BY <2>1, <2>2
  <1>4. PICK i : i = CHOOSE k \in Hits(u, p) : \A l \in Hits(u, p) : k <= l
    OBVIOUS
  <1>5. i \in Hits(u, p)
    <2>1. Hits(u, p) \in SUBSET Nat
      BY DEF Hits
    <2>2. \E k \in Hits(u, p) : \A l \in Hits(u, p) : k <= l
      BY <1>3, <2>1, Least
    <2>3. QED
      BY <1>4, <2>2
  <1>6. tlb_read(u, p) = u[i].frame
    BY <1>3, <1>4 DEF tlb_read
  <1>7. i \in 1..TLB_SIZE /\ u[i].vpn = p
    BY <1>5 DEF Hits
  <1>8. QED
    BY <1>2, <1>3, <1>6, <1>7 DEF TlbIs

\* A byte of a page.
LEMMA InPage ==
    ASSUME NEW a \in Nat, NEW r \in 0..(PAGE - 1)
    PROVE  /\ (a * PAGE + r) \div PAGE = a /\ (a * PAGE + r) % PAGE = r
           /\ a * PAGE + r \in Nat
  <1>1. r \in Nat /\ a * PAGE \in Nat
    BY Numbers
  <1>2. /\ r \div PAGE \in Nat /\ r % PAGE \in 0..(PAGE - 1)
        /\ r = PAGE * (r \div PAGE) + (r % PAGE)
    BY <1>1, Numbers, QuotientIs
  <1>3. PAGE * (r \div PAGE) + (r % PAGE) = PAGE * 0 + r
    BY <1>2, Numbers
  <1>4. r \div PAGE = 0 /\ r % PAGE = r
    BY <1>2, <1>3, Numbers, OneQuotient
  <1>5. (a * PAGE + r) \div PAGE = a + (r \div PAGE) /\ (a * PAGE + r) % PAGE = r % PAGE
    <2>1. PAGE \in Nat \ {0} /\ a \in Nat /\ r \in Nat
      BY <1>1, Numbers
    <2>2. QED
      BY <2>1, QuotientSum
  <1>6. QED
    BY <1>1, <1>4, <1>5

\* Where an access is split is where its bytes change pages.
LEMMA SplitIs ==
    ASSUME NEW v \in Nat, NEW len \in 1..PAGE, NEW j \in 1..len, NEW f, NEW g
    PROVE  LET p == (v + j - 1) \div PAGE IN
           /\ p = v \div PAGE \/ p = (v + len - 1) \div PAGE
           /\ Cells(f, g, v, len)[j] =
                <<IF p = v \div PAGE THEN f ELSE g, (v + j - 1) % PAGE>>
  <1>1. PICK a \in Nat, o \in 0..(PAGE - 1) : /\ a = v \div PAGE /\ o = v % PAGE
                                              /\ v = PAGE * a + o
    BY Numbers, QuotientIs
  <1>2. PICK z \in Nat : z = a * PAGE /\ z = PAGE * a
    BY Numbers, Commutes
  <1>3. v = z + o
    BY <1>1, <1>2
  <1>4. (a + 1) * PAGE = z + PAGE /\ a + 1 \in Nat
    BY <1>2, Numbers
  <1>5. PICK s : s = Spill(v, len)
    OBVIOUS
  <1>6. s = IF o + len > PAGE THEN o + len - PAGE ELSE 0
    BY <1>1, <1>5 DEF Spill
  <1>7. Cells(f, g, v, len)[j] =
            IF j <= len - s THEN <<f, o + j - 1>> ELSE <<g, j - 1 - (len - s)>>
    BY <1>1, <1>5 DEF Cells
  <1>8. CASE j <= len - s
    <2>1. PICK r \in 0..(PAGE - 1) : r = o + j - 1
      BY <1>6, <1>8, Numbers
    <2>2. v + j - 1 = a * PAGE + r
      BY <1>2, <1>3, <2>1, Numbers
    <2>3. (v + j - 1) \div PAGE = a /\ (v + j - 1) % PAGE = r
      BY <2>2, InPage
    <2>4. QED
      BY <1>1, <1>7, <1>8, <2>1, <2>3
  <1>9. CASE ~(j <= len - s)
    <2>1. PICK r \in 0..(PAGE - 1) : r = o + j - 1 - PAGE /\ r = j - 1 - (len - s)
      BY <1>6, <1>9, Numbers
    <2>2. v + j - 1 = (a + 1) * PAGE + r
      BY <1>3, <1>4, <2>1, Numbers
    <2>3. (v + j - 1) \div PAGE = a + 1 /\ (v + j - 1) % PAGE = r
      BY <1>4, <2>2, InPage
    <2>4. PICK e \in 0..(PAGE - 1) : e = o + len - 1 - PAGE
      BY <1>6, <1>9, Numbers
    <2>5. v + len - 1 = (a + 1) * PAGE + e
      BY <1>3, <1>4, <2>4, Numbers
    <2>6. (v + len - 1) \div PAGE = a + 1
      BY <1>4, <2>5, InPage
    <2>7. Cells(f, g, v, len)[j] = <<g, r>>
      BY <1>7, <1>9, <2>1
    <2>8. a + 1 # a
      OBVIOUS
    <2>9. (v + j - 1) \div PAGE # v \div PAGE /\ (v + j - 1) \div PAGE = (v + len - 1) \div PAGE
      BY <1>1, <2>3, <2>6, <2>8, Zenon
    <2>10. QED
      BY <2>3, <2>7, <2>9, Zenon
  <1>10. QED
    BY <1>8, <1>9

\* Own addresses are addresses whose pages are mapped, each a cell of its own.
LEMMA OwnIs ==
    ASSUME PagingInv, pc = "user", NEW v \in Own
    PROVE  /\ v \in Addresses /\ v \in Nat /\ v \div PAGE \in Pages /\ Mapped(v \div PAGE)
           /\ PhysicalOf(v) \in DOMAIN mem
           /\ \A w \in Addresses : w # v => PhysicalOf(w) # PhysicalOf(v)
  <1>1. v \in Addresses
    <2>1. CASE v \in Image \cup Stack \cup Video
      BY <2>1, ProgramIsHigh, VideoPage DEF High
    <2>2. CASE v \in Heap
      <3>1. heap_end \in End..(End + MaxBreak) /\ End \in Nat /\ MaxBreak \in Nat
        BY ProgramIsHigh, Numbers DEF PagingInv, OwnIsMapped
      <3>2. v \in (End - 1)..(End + MaxBreak - 1)
        BY <2>2, <3>1 DEF Heap
      <3>3. QED
        BY <3>2, ProgramIsHigh DEF High
    <2>3. QED
      BY <2>1, <2>2 DEF Own
  <1>2. /\ v \in Nat /\ v \div PAGE \in Pages /\ v % PAGE \in 0..(PAGE - 1)
    BY <1>1, AddressIs
  <1>3. Mapped(v \div PAGE)
    BY DEF PagingInv, OwnIsMapped
  <1>4. PhysicalOf(v) \in DOMAIN mem
    <2>1. PgTypeOK
      BY DEF PagingInv
    <2>2. Walk(updir, tables, v \div PAGE) \in Frames
      BY <1>2, <1>3, <2>1, WalkIs DEF Mapped
    <2>3. DOMAIN mem = Frames \X (0..(PAGE - 1))
      BY <2>1 DEF PgTypeOK
    <2>4. QED
      BY <1>2, <2>2, <2>3 DEF PhysicalOf
  <1>5. ASSUME NEW w \in Addresses, w # v
        PROVE  PhysicalOf(w) # PhysicalOf(v)
    <2>1. Walk(updir, tables, v \div PAGE) # None
      BY <1>3 DEF Mapped
    <2>2. \A q \in Pages \ {v \div PAGE} : Walk(updir, tables, v \div PAGE) # Walk(updir, tables, q)
      BY <1>2, <1>3 DEF PagingInv, FramesApart
    <2>3. PICK d, t : d = updir /\ t = tables
      OBVIOUS
    <2>4. <<Walk(d, t, v \div PAGE), v % PAGE>> # <<Walk(d, t, w \div PAGE), w % PAGE>>
      BY <1>1, <1>5, <2>1, <2>2, <2>3, CellsApart
    <2>5. QED
      BY <2>3, <2>4 DEF PhysicalOf
  <1>6. QED
    BY <1>1, <1>2, <1>3, <1>4, <1>5

\* However the TLB was filled, an access reaches its own bytes.
LEMMA AccessReaches ==
    ASSUME PagingInv, pc = "user", NEW a \in Accesses
    PROVE  /\ TlbIs(a.tlb) /\ a.cells # <<>>
           /\ \E v \in Own, len \in Lens :
                /\ len \in Nat \ {0} /\ v..(v + len - 1) \subseteq Own
                /\ a.cells = [j \in 1..len |-> PhysicalOf(v + j - 1)]
  <1> DEFINE Outcome(v, len, t, u) ==
                [tlb |-> u,
                 cells |-> IF None \in {tlb_read(t, v \div PAGE), tlb_read(u, (v + len - 1) \div PAGE)}
                           THEN <<>>
                           ELSE Cells(tlb_read(t, v \div PAGE), tlb_read(u, (v + len - 1) \div PAGE), v, len)]
  <1>1. PICK v \in Own, len \in Lens : v..(v + len - 1) \subseteq Own /\ a \in Reached(v, len)
    BY DEF Accesses
  <1>2. PICK p, q : p = v \div PAGE /\ q = (v + len - 1) \div PAGE
    OBVIOUS
  <1>3. PICK t, u : t \in Filled(tlb, p) /\ u \in Filled(t, q) /\ a = Outcome(v, len, t, u)
    <2>1. a \in UNION {{Outcome(v, len, t, u) : u \in Filled(t, (v + len - 1) \div PAGE)} :
                      t \in Filled(tlb, v \div PAGE)}
      BY <1>1 DEF Reached
    <2> HIDE DEF Outcome
    <2>2. PICK t \in Filled(tlb, v \div PAGE) :
            a \in {Outcome(v, len, t, u) : u \in Filled(t, (v + len - 1) \div PAGE)}
      BY <2>1
    <2>3. PICK u \in Filled(t, (v + len - 1) \div PAGE) : a = Outcome(v, len, t, u)
      BY <2>2
    <2>4. QED
      BY <1>2, <2>3
  <1>4. len \in 1..PAGE /\ len \in Nat \ {0} /\ v \in Nat
    <2>1. len \in 1..PAGE
      BY Layout
    <2>2. QED
      BY <1>1, <2>1, Numbers, OwnIs
  <1>5. v + len - 1 \in Own
    BY <1>1, <1>4
  <1>6. p \in Pages /\ q \in Pages /\ Mapped(p) /\ Mapped(q)
    <2>1. p \in Pages /\ Mapped(p)
      BY <1>1, <1>2, OwnIs
    <2>2. q \in Pages /\ Mapped(q)
      BY <1>2, <1>5, OwnIs
    <2>3. QED
      BY <2>1, <2>2
  <1>7. PgTypeOK /\ TlbIs(tlb)
    <2>1. tlb \in [1..TLB_SIZE -> [vpn : Pages, frame : Frames] \cup {Empty}]
      BY DEF PagingInv, PgTypeOK
    <2>2. \A i \in 1..TLB_SIZE :
            \/ tlb[i] = Empty
            \/ tlb[i].vpn = tlb[i].frame
            \/ Mapped(tlb[i].vpn) /\ tlb[i].frame = Walk(updir, tables, tlb[i].vpn)
      BY DEF PagingInv, TlbSound
    <2>3. \A i \in 1..TLB_SIZE : tlb[i].vpn # None /\ Mapped(tlb[i].vpn) =>
            tlb[i].frame = Walk(updir, tables, tlb[i].vpn)
      BY DEF PagingInv, TlbAgrees
    <2>4. QED
      BY <2>1, <2>2, <2>3 DEF TlbIs, PagingInv
  <1>8. TlbIs(t) /\ tlb_read(t, p) = Walk(updir, tables, p)
    BY <1>3, <1>6, <1>7, FilledSound
  <1>9. TlbIs(u) /\ tlb_read(u, q) = Walk(updir, tables, q)
    BY <1>3, <1>6, <1>7, <1>8, FilledSound
  <1>10. PICK f, g : f = Walk(updir, tables, p) /\ g = Walk(updir, tables, q)
    OBVIOUS
  <1>11. f # None /\ g # None
    BY <1>6, <1>10 DEF Mapped
  <1>12. a.tlb = u /\ a.cells = Cells(f, g, v, len)
    BY <1>2, <1>3, <1>8, <1>9, <1>10, <1>11
  <1>13. ASSUME NEW j \in 1..len
         PROVE  Cells(f, g, v, len)[j] = PhysicalOf(v + j - 1)
    <2>1. PICK r : r = (v + j - 1) \div PAGE
      OBVIOUS
    <2>2. /\ r = p \/ r = q
          /\ Cells(f, g, v, len)[j] = <<IF r = p THEN f ELSE g, (v + j - 1) % PAGE>>
      BY <1>2, <1>4, <2>1, SplitIs
    <2>3. (IF r = p THEN f ELSE g) = Walk(updir, tables, r)
      BY <1>10, <2>2
    <2>4. QED
      BY <2>1, <2>2, <2>3 DEF PhysicalOf
  <1>14. Cells(f, g, v, len) = [j \in 1..len |-> PhysicalOf(v + j - 1)]
    <2>1. Cells(f, g, v, len) = [j \in 1..len |-> Cells(f, g, v, len)[j]]
      BY DEF Cells
    <2>2. QED
      BY <1>13, <2>1
  <1>15. a.cells # <<>>
    <2>1. 1 \in DOMAIN a.cells
      BY <1>4, <1>12, <1>14
    <2>2. QED
      BY <2>1
  <1>16. QED
    BY <1>1, <1>4, <1>9, <1>12, <1>14, <1>15

\* An access changes the TLB, and nothing that is about the pages.
LEMMA AccessKeeps ==
    ASSUME PagingInv, pc = "user", NEW a \in Accesses, Access(a), UNCHANGED stores \/ stores' \in 0..MaxStores,
           mem' \in [Frames \X (0..(PAGE - 1)) -> Bytes],
           \A c \in DOMAIN mem : mem'[c] = NewByte \/ mem'[c] = mem[c]
    PROVE  PagingInv'
  <1>1. /\ pc' = "user" /\ tlb' = a.tlb /\ TlbIs(a.tlb)
        /\ UNCHANGED <<loaded, updir, tables, pf_idx, brk, heap_end>>
    BY AccessReaches DEF Access
  <1>2. PgTypeOK'
    BY <1>1 DEF PagingInv, PgTypeOK, TlbIs
  <1>3. TablesSound' /\ FramesGiven' /\ FramesApart'
    BY <1>1 DEF PagingInv, TablesSound, FramesGiven, FramesApart, Mapped
  <1>4. LoadedInOrder'
    BY <1>1 DEF PagingInv, LoadedInOrder
  <1>5. OwnIsMapped'
    <2>1. Own' = Own
      BY <1>1 DEF Own, Heap
    <2>2. \A p : Mapped(p)' <=> Mapped(p)
      BY <1>1 DEF Mapped
    <2>3. QED
      BY <1>1, <2>1, <2>2 DEF PagingInv, OwnIsMapped
  <1>6. TlbSound' /\ TlbAgrees'
    BY <1>1 DEF TlbIs, TlbSound, TlbAgrees, Mapped
  <1>7. RunsInItsImage'
    <2>1. ASSUME NEW j \in 1..loaded, NEW k \in 0..(Segments[j].memsz - 1), NEW v,
                 v = Segments[j].vaddr + k, mem'[PhysicalOf(v)] # NewByte
          PROVE  mem'[PhysicalOf(v)] = IF k < Segments[j].filesz THEN <<j, k>> ELSE ZeroByte
      <3>1. j \in 1..Len(Segments) /\ j \in DOMAIN Segments
        BY SegmentList DEF PagingInv, LoadedInOrder
      <3>2. v \in Image
        <4>1. v \in Segments[j].vaddr..(Segments[j].vaddr + Segments[j].memsz - 1)
          BY <2>1, <3>1, SegmentList
        <4>2. QED
          BY <3>1, <4>1 DEF Image
      <3>3. PhysicalOf(v) \in DOMAIN mem
        BY <3>2, OwnIs DEF Own
      <3>4. mem'[PhysicalOf(v)] = mem[PhysicalOf(v)]
        BY <2>1, <3>3
      <3>5. mem[PhysicalOf(v)] # NewByte =>
                mem[PhysicalOf(v)] = IF k < Segments[j].filesz THEN <<j, k>> ELSE ZeroByte
        BY <2>1 DEF PagingInv, RunsInItsImage, PhysicalOf
      <3>6. QED
        BY <2>1, <3>4, <3>5
    <2>2. QED
      BY <1>1, <2>1 DEF RunsInItsImage, PhysicalOf
  <1>8. QED
    BY <1>1, <1>2, <1>3, <1>4, <1>5, <1>6, <1>7 DEF PagingInv

LEMMA ReadKeeps ==
    ASSUME PagingInv, Read
    PROVE  PagingInv'
  <1>1. PICK a \in Accesses : Access(a)
    BY DEF Read
  <1>2. pc = "user" /\ mem' = mem /\ stores' = stores
    BY DEF Read
  <1>3. mem' \in [Frames \X (0..(PAGE - 1)) -> Bytes]
    BY <1>2 DEF PagingInv, PgTypeOK
  <1>4. QED
    BY <1>1, <1>2, <1>3, AccessKeeps

LEMMA WriteKeeps ==
    ASSUME PagingInv, Write
    PROVE  PagingInv'
  <1>1. PICK a \in Accesses :
            /\ Access(a)
            /\ mem' = [c \in DOMAIN mem |->
                        IF \E j \in DOMAIN a.cells : a.cells[j] = c THEN NewByte ELSE mem[c]]
    BY DEF Write
  <1>2. pc = "user" /\ stores < MaxStores /\ stores' = stores + 1 /\ stores \in 0..MaxStores
    BY DEF Write, PagingInv, PgTypeOK
  <1>3. mem \in [Frames \X (0..(PAGE - 1)) -> Bytes] /\ NewByte \in Bytes
    BY DEF PagingInv, PgTypeOK, Bytes
  <1>4. mem' \in [Frames \X (0..(PAGE - 1)) -> Bytes]
    BY <1>1, <1>3
  <1>5. \A c \in DOMAIN mem : mem'[c] = NewByte \/ mem'[c] = mem[c]
    BY <1>1
  <1>6. stores' \in 0..MaxStores
    BY <1>2, Numbers
  <1>7. QED
    BY <1>1, <1>2, <1>4, <1>5, <1>6, AccessKeeps

-----------------------------------------------------------------------------
\* The theorems about a program's memory.

\* Whatever the order in which a program is loaded, reads, writes and moves its
\* break: its pages have frames of their own, its TLB is right, its segments are
\* where their headers say, and it meets no page that is missing.
THEOREM PagingInvariance == PgSpec => []PagingInv
  <1>1. PgInit => PagingInv
    BY StartIsSound
  <1>2. PagingInv /\ [PgNext]_pgVars => PagingInv'
    <2> SUFFICES ASSUME PagingInv, [PgNext]_pgVars
                 PROVE  PagingInv'
      OBVIOUS
    <2>1. CASE KernelAccess
      BY <2>1, KernelAccessKeeps
    <2>2. CASE Load
      BY <2>2, LoadKeeps
    <2>3. CASE Run
      BY <2>3, RunKeeps
    <2>4. CASE Read
      BY <2>4, ReadKeeps
    <2>5. CASE Write
      BY <2>5, WriteKeeps
    <2>6. CASE Sbrk
      BY <2>6, SbrkKeeps
    <2>7. CASE UNCHANGED pgVars
      <3>1. UNCHANGED <<pc, loaded, updir, tables, pf_idx, brk, heap_end, mem, tlb, reply, stores>>
        BY <2>7 DEF pgVars
      <3>2. PgTypeOK' /\ LoadedInOrder'
        BY <3>1 DEF PagingInv, PgTypeOK, LoadedInOrder, Mapped
      <3>3. TablesSound' /\ FramesGiven' /\ FramesApart'
        BY <3>1 DEF PagingInv, TablesSound, FramesGiven, FramesApart, Mapped
      <3>4. OwnIsMapped'
        <4>1. Own' = Own
          BY <3>1 DEF Own, Heap
        <4>2. \A p : Mapped(p)' <=> Mapped(p)
          BY <3>1 DEF Mapped
        <4>3. QED
          BY <3>1, <4>1, <4>2 DEF PagingInv, OwnIsMapped
      <3>5. TlbSound' /\ TlbAgrees' /\ RunsInItsImage'
        BY <3>1 DEF PagingInv, TlbSound, TlbAgrees, RunsInItsImage, Mapped
      <3>6. QED
        BY <3>1, <3>2, <3>3, <3>4, <3>5 DEF PagingInv
    <2>8. QED
      BY <2>1, <2>2, <2>3, <2>4, <2>5, <2>6, <2>7 DEF PgNext
  <1>3. QED
    BY <1>1, <1>2, PTL DEF PgSpec

\* A program finds every segment where its header says until it writes there
\* itself, and never meets a page that is not present.
THEOREM ProgramsRunInTheirImage == PgSpec => []RunsInItsImage
  <1>1. PagingInv => RunsInItsImage
    BY DEF PagingInv
  <1>2. QED
    BY <1>1, PagingInvariance, PTL

\* The space of a running program: what the addresses of its mapped pages hold.
InUse == IF pc = "kernel" THEN {} ELSE {v \in 0..(KOFFSET * PAGE - 1) : Mapped(v \div PAGE)}
Space == [v \in InUse |-> mem[PhysicalOf(v)]]

LEMMA SpaceIs ==
    /\ DOMAIN Space = InUse /\ \A v \in InUse : Space[v] = mem[PhysicalOf(v)] /\ v \in Addresses
    /\ pc = "kernel" => Space = <<>>
  <1>1. DOMAIN Space = InUse /\ \A v \in InUse : Space[v] = mem[PhysicalOf(v)]
    BY DEF Space
  <1>2. \A v \in InUse : v \in Addresses
    BY DEF InUse, Addresses
  <1>3. ASSUME pc = "kernel"
        PROVE  Space = <<>>
    <2>1. InUse = {}
      BY <1>3 DEF InUse
    <2>2. Space = [v \in {} |-> mem[PhysicalOf(v)]]
      BY <2>1, Zenon DEF Space
    <2>3. QED
      BY <2>2
  <1>4. QED
    BY <1>1, <1>2, <1>3

LEMMA ReadLoads ==
    ASSUME PagingInv, Read
    PROVE  /\ \E v \in DOMAIN Space, len \in Lens :
                /\ v..(v + len - 1) \subseteq DOMAIN Space
                /\ reply' = [j \in 1..len |-> Space[v + j - 1]]
           /\ Space' = Space
  <1>1. PICK a \in Accesses :
            /\ Access(a)
            /\ reply' = IF a.cells = <<>> THEN reply ELSE [j \in DOMAIN a.cells |-> mem[a.cells[j]]]
    BY DEF Read
  <1>2. pc = "user" /\ mem' = mem /\ a.cells # <<>>
    BY AccessReaches DEF Read
  <1>3. PICK v \in Own, len \in Lens :
            /\ len \in Nat \ {0} /\ v..(v + len - 1) \subseteq Own
            /\ a.cells = [j \in 1..len |-> PhysicalOf(v + j - 1)]
    BY <1>2, AccessReaches
  <1>4. Own \subseteq InUse
    BY <1>2, OwnIs DEF InUse, Addresses
  <1>5. reply' = [j \in 1..len |-> Space[v + j - 1]]
    <2>1. reply' = [j \in 1..len |-> mem[PhysicalOf(v + j - 1)]]
      BY <1>1, <1>2, <1>3
    <2>2. \A j \in 1..len : Space[v + j - 1] = mem[PhysicalOf(v + j - 1)]
      <3>1. \A j \in 1..len : v + j - 1 \in v..(v + len - 1)
        BY <1>2, <1>3, OwnIs
      <3>2. QED
        BY <1>3, <1>4, <3>1, SpaceIs
    <2>3. QED
      BY <2>1, <2>2
  <1>6. Space' = Space
    <2>1. pc' = pc /\ UNCHANGED <<updir, tables, mem>>
      BY <1>1, <1>2 DEF Access
    <2>2. QED
      BY <2>1 DEF Space, InUse, Mapped, PhysicalOf
  <1>7. QED
    BY <1>3, <1>4, <1>5, <1>6, SpaceIs

LEMMA WriteStores ==
    ASSUME PagingInv, Write
    PROVE  /\ DOMAIN Space' = DOMAIN Space /\ reply' = <<>>
           /\ \E v \in DOMAIN Space, len \in Lens :
                /\ v..(v + len - 1) \subseteq DOMAIN Space
                /\ \A b \in DOMAIN Space : IF b \in v..(v + len - 1) THEN Space'[b] \in Bytes
                                           ELSE Space'[b] = Space[b]
  <1>1. PICK a \in Accesses :
            /\ Access(a)
            /\ mem' = [c \in DOMAIN mem |->
                        IF \E j \in DOMAIN a.cells : a.cells[j] = c THEN NewByte ELSE mem[c]]
            /\ reply' = IF a.cells = <<>> THEN reply ELSE <<>>
    BY DEF Write
  <1>2. pc = "user" /\ a.cells # <<>> /\ reply' = <<>>
    BY <1>1, AccessReaches DEF Write
  <1>3. PICK v \in Own, len \in Lens :
            /\ len \in Nat \ {0} /\ v..(v + len - 1) \subseteq Own
            /\ a.cells = [j \in 1..len |-> PhysicalOf(v + j - 1)]
    BY <1>2, AccessReaches
  <1>4. Own \subseteq InUse
    BY <1>2, OwnIs DEF InUse, Addresses
  <1>5. pc' = pc /\ UNCHANGED <<updir, tables>>
    BY <1>1, <1>2 DEF Access
  <1>6. InUse' = InUse /\ \A b : PhysicalOf(b)' = PhysicalOf(b)
    BY <1>5 DEF InUse, Mapped, PhysicalOf
  <1>7. Space' = [b \in InUse |-> mem'[PhysicalOf(b)]]
    BY <1>6 DEF Space
  <1>8. \A c \in DOMAIN mem : mem[c] \in Bytes /\ mem'[c] \in Bytes
    <2>1. PagingInv'
      BY WriteKeeps
    <2>2. /\ mem \in [Frames \X (0..(PAGE - 1)) -> Bytes]
          /\ mem' \in [Frames \X (0..(PAGE - 1)) -> Bytes]
      BY <2>1 DEF PagingInv, PgTypeOK
    <2>3. QED
      BY <2>2
  <1>9. ASSUME NEW b \in InUse
        PROVE  /\ b \in v..(v + len - 1) => Space'[b] \in Bytes
               /\ b \notin v..(v + len - 1) => Space'[b] = Space[b]
    <2>1. Space'[b] = mem'[PhysicalOf(b)] /\ Space[b] = mem[PhysicalOf(b)] /\ b \in Addresses
      BY <1>7, SpaceIs
    <2>2. PhysicalOf(b) \in DOMAIN mem
      <3>1. b \div PAGE \in Pages /\ b % PAGE \in 0..(PAGE - 1) /\ Mapped(b \div PAGE)
        BY <1>2, <2>1, AddressIs DEF InUse
      <3>2. PgTypeOK
        BY DEF PagingInv
      <3>3. Walk(updir, tables, b \div PAGE) \in Frames
        BY <3>1, <3>2, WalkIs DEF Mapped
      <3>4. DOMAIN mem = Frames \X (0..(PAGE - 1))
        BY <3>2 DEF PgTypeOK
      <3>5. QED
        BY <3>1, <3>3, <3>4 DEF PhysicalOf
    <2>3. Space'[b] \in Bytes
      BY <1>8, <2>1, <2>2
    <2>4. ASSUME b \notin v..(v + len - 1)
          PROVE  Space'[b] = Space[b]
      <3>1. \A j \in 1..len : a.cells[j] # PhysicalOf(b)
        <4>1. ASSUME NEW j \in 1..len
              PROVE  a.cells[j] # PhysicalOf(b)
          <5>1. v \in Nat
            BY <1>2, OwnIs
          <5>2. v + j - 1 \in v..(v + len - 1)
            BY <1>3, <5>1
          <5>3. PICK x \in Own : x = v + j - 1
            BY <1>3, <5>2
          <5>4. b # x
            BY <2>4, <5>2, <5>3
          <5>5. PhysicalOf(b) # PhysicalOf(x)
            BY <1>2, <2>1, <5>4, OwnIs
          <5>6. QED
            BY <1>3, <5>3, <5>5
        <4>2. QED
          BY <4>1
      <3>2. DOMAIN a.cells = 1..len
        BY <1>3
      <3>3. mem'[PhysicalOf(b)] = mem[PhysicalOf(b)]
        BY <1>1, <2>2, <3>1, <3>2
      <3>4. QED
        BY <2>1, <3>3
    <2>5. QED
      BY <2>3, <2>4
  <1>10. DOMAIN Space = InUse /\ DOMAIN Space' = InUse
    BY <1>7, SpaceIs
  <1>11. QED
    BY <1>2, <1>3, <1>4, <1>9, <1>10

LEMMA RunGrows ==
    ASSUME PagingInv, Run
    PROVE  /\ DOMAIN Space \subseteq DOMAIN Space' /\ reply' = <<>>
           /\ \A b \in DOMAIN Space : Space'[b] = Space[b]
  <1>1. pc = "kernel" /\ reply' = reply
    BY DEF Run
  <1>2. InUse = {}
    BY <1>1 DEF InUse
  <1>3. QED
    BY <1>1, <1>2, SpaceIs DEF PagingInv

LEMMA SbrkGrows ==
    ASSUME PagingInv, Sbrk
    PROVE  /\ DOMAIN Space \subseteq DOMAIN Space' /\ reply' = <<>>
           /\ \A b \in DOMAIN Space : Space'[b] = Space[b]
  <1>1. pc = "user" /\ pc' = pc /\ mem' = mem /\ reply' = <<>>
    BY DEF Sbrk
  <1>2. ASSUME NEW b \in InUse
        PROVE  b \in InUse' /\ mem'[PhysicalOf(b)'] = Space[b]
    <2>1. b \in Addresses /\ Space[b] = mem[PhysicalOf(b)] /\ Mapped(b \div PAGE)
      BY <1>1, SpaceIs DEF InUse
    <2>2. b \div PAGE \in Pages
      BY <2>1, AddressIs
    <2>3. Walk(updir', tables', b \div PAGE) = Walk(updir, tables, b \div PAGE)
      BY <2>1, <2>2, SbrkKeeps
    <2>4. Mapped(b \div PAGE)' /\ PhysicalOf(b)' = PhysicalOf(b)
      BY <2>1, <2>3 DEF Mapped, PhysicalOf
    <2>5. b \in InUse'
      BY <1>1, <2>1, <2>4 DEF InUse, Addresses
    <2>6. QED
      BY <1>1, <2>1, <2>4, <2>5
  <1>3. DOMAIN Space' = InUse' /\ \A b \in InUse' : Space'[b] = mem'[PhysicalOf(b)']
    BY DEF Space
  <1>4. QED
    BY <1>1, <1>2, <1>3, SpaceIs

\* Loader, page tables, TLB and the splitting of an access give the program a
\* plain memory: an access reaches the bytes it names and no others, and what
\* the kernel adds leaves the rest as it was.
THEOREM PagingImplementsMemory == PgSpec => ImplementsMemory
  <1>1. PgInit => Memory!Init
    <2>1. ASSUME PgInit
          PROVE  Memory!Init
      <3>1. pc = "kernel" /\ reply = <<>>
        BY <2>1 DEF PgInit
      <3>2. Space = <<>>
        BY <3>1, SpaceIs
      <3>3. QED
        BY <3>1, <3>2 DEF Memory!Init, Space, InUse
    <2>2. QED
      BY <2>1
  <1>2. PagingInv /\ [PgNext]_pgVars => [Memory!Next]_<<Space, reply>>
    <2> SUFFICES ASSUME PagingInv, [PgNext]_pgVars
                 PROVE  [Memory!Next]_<<Space, reply>>
      OBVIOUS
    <2>1. CASE KernelAccess \/ Load
      <3>1. pc = "kernel" /\ pc' = "kernel" /\ reply' = reply
        BY <2>1 DEF KernelAccess, Load
      <3>2. InUse = {} /\ InUse' = {}
        BY <3>1 DEF InUse
      <3>3. Space' = Space
        BY <3>2 DEF Space
      <3>4. QED
        BY <3>1, <3>3
    <2>2. CASE Run \/ Sbrk
      <3>1. /\ DOMAIN Space \subseteq DOMAIN Space' /\ reply' = <<>>
            /\ \A b \in DOMAIN Space : Space'[b] = Space[b]
        BY <2>2, RunGrows, SbrkGrows
      <3>2. Memory!Grow
        BY <3>1, Zenon DEF Memory!Grow, Space, InUse
      <3>3. QED
        BY <3>2 DEF Memory!Next
    <2>3. CASE Read
      <3>1. /\ \E v \in DOMAIN Space, len \in Lens :
                /\ v..(v + len - 1) \subseteq DOMAIN Space
                /\ reply' = [j \in 1..len |-> Space[v + j - 1]]
            /\ Space' = Space
        BY <2>3, ReadLoads
      <3>2. Memory!Load
        BY <3>1, Zenon DEF Memory!Load, Memory!Area, Space, InUse
      <3>3. QED
        BY <3>2 DEF Memory!Next
    <2>4. CASE Write
      <3>1. /\ DOMAIN Space' = DOMAIN Space /\ reply' = <<>>
            /\ \E v \in DOMAIN Space, len \in Lens :
                /\ v..(v + len - 1) \subseteq DOMAIN Space
                /\ \A b \in DOMAIN Space : IF b \in v..(v + len - 1) THEN Space'[b] \in Bytes
                                           ELSE Space'[b] = Space[b]
        BY <2>4, WriteStores
      <3>2. Memory!Store
        BY <3>1, Zenon DEF Memory!Store, Memory!Area, Space, InUse
      <3>3. QED
        BY <3>2 DEF Memory!Next
    <2>5. CASE UNCHANGED pgVars
      <3>1. UNCHANGED <<pc, updir, tables, mem, reply>>
        BY <2>5 DEF pgVars
      <3>2. UNCHANGED <<Space, reply>>
        BY <3>1 DEF Space, InUse, Mapped, PhysicalOf
      <3>3. QED
        BY <3>2
    <2>6. QED
      BY <2>1, <2>2, <2>3, <2>4, <2>5 DEF PgNext
  <1>3. [Memory!Next]_<<Space, reply>> =>
            [Memory!Next]_<<[v \in IF pc = "kernel" THEN {} ELSE
                    {v \in 0..(KOFFSET * PAGE - 1) : Mapped(v \div PAGE)} |-> mem[PhysicalOf(v)]], reply>>
    BY DEF Space, InUse
  <1>4. QED
    BY <1>1, <1>2, <1>3, PagingInvariance, PTL DEF PgSpec, ImplementsMemory, Memory!Spec
=============================================================================
