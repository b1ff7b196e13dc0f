---------------------------------- MODULE Fpu ----------------------------------
(***************************************************************************)
(* NEMU's floating point unit (cpu/fpu.c behind cpu/instr/x87.c): a ring   *)
(* of registers addressed from its top, and sums, differences, products    *)
(* and quotients of EXP exponent bits and FRAC fraction bits worked out on *)
(* integers with three extra bits, the last of which is sticky.            *)
(***************************************************************************)
EXTENDS Integers, FiniteSets

CONSTANTS
    EXP, FRAC,      \* bits of a float's exponent and fraction: 8, 23
    WIDE,           \* bits of the integer a quotient is worked out in: 64
    NR_REGS,        \* registers: 8
    Loadable,       \* what a program loads and gives as an operand
    MaxLoads        \* bound on the loads of a behaviour

VARIABLES
    regStack, top,
    loads,          \* number of loads so far
    last            \* the last computation: its operands and its result

fpuVars == <<regStack, top, loads, last>>

MAXE == 2^EXP - 1
BIAS == 2^(EXP - 1) - 1
Float == [sign : {0, 1}, exponent : 0..MAXE, fraction : 0..(2^FRAC - 1)]

Zero(s) == [sign |-> s, exponent |-> 0, fraction |-> 0]
Inf(s)  == [sign |-> s, exponent |-> MAXE, fraction |-> 0]
NaN(s)  == [sign |-> s, exponent |-> MAXE, fraction |-> 2^(FRAC - 1)]
Zeros == {Zero(0), Zero(1)}
Infs  == {Inf(0), Inf(1)}
NaNs  == {NaN(0), NaN(1)}

\* The floats that stand for something: numbers, two infinities, two NaNs.
Canonical == {f \in Float : f.exponent = MAXE => f \in Infs \cup NaNs}

\* A quotient's integer has room enough to begin beyond Lead (below).
ASSUME FloatShape ==
    /\ {EXP, FRAC, WIDE, NR_REGS, MaxLoads} \subseteq Nat \ {0}
    /\ FRAC >= 4 /\ WIDE > 2 * FRAC + 5
    /\ Loadable \subseteq Canonical

FpuInit ==
    /\ regStack = [i \in 0..(NR_REGS - 1) |-> Zero(0)] /\ top = 0 /\ loads = 0
    /\ last = [op |-> "none", a |-> Zero(0), b |-> Zero(0), res |-> Zero(0)]

-----------------------------------------------------------------------------
Fewest(K) == CHOOSE k \in K : \A j \in K : k <= j

sig(f) == f.fraction + IF f.exponent # 0 THEN 2^FRAC ELSE 0
scale(f) == IF f.exponent = 0 THEN 1 ELSE f.exponent
SignOf(a, b) == (a.sign + b.sign) % 2

\* x shifted right by k; a bit that falls out sticks to the lowest one.
Jammed(x, k) ==
    (x \div 2^k) + IF x % 2^k # 0 /\ (x \div 2^k) % 2 = 0 THEN 1 ELSE 0

Lead == 2^(FRAC + 3)    \* the leading 1 of a significand with its extra bits

RightShift(e, x) == Fewest({k \in 0..WIDE : LET g == Jammed(x, k) IN
                        ~(g >= 2 * Lead /\ e + k < MAXE) /\ ~(g > 4 /\ e + k < 0)})

LeftShift(e, x) == Fewest({k \in 0..e : x * 2^k >= Lead \/ k = e})

\* Exponent and significand, once the latter begins at Lead; below exponent 1
\* it does not, and is shifted once more.
Normalized(e, x) ==
    IF x >= 2 * Lead \/ e < 0 THEN
        LET k == RightShift(e, x) IN
        IF e + k >= MAXE THEN [exp |-> MAXE, sig |-> 0]
        ELSE IF e + k < 0 THEN [exp |-> 0, sig |-> 0]
        ELSE [exp |-> e + k, sig |-> Jammed(Jammed(x, k), IF e + k = 0 THEN 1 ELSE 0)]
    ELSE IF x < Lead /\ e > 0 THEN
        LET k == LeftShift(e, x) IN
        [exp |-> e - k, sig |-> Jammed(x * 2^k, IF e = k THEN 1 ELSE 0)]
    ELSE [exp |-> IF e = 0 /\ x >= Lead THEN 1 ELSE e, sig |-> x]

\* Faulty variant: half a unit is always rounded up.
RoundedHalfUp(g) == (g \div 8) + IF g % 8 >= 4 THEN 1 ELSE 0

\* The three extra bits rounded off: to the nearest, and half of one to the even.
Rounded(g) ==
    (g \div 8) + IF g % 8 > 4 \/ (g % 8 = 4 /\ (g \div 8) % 2 = 1) THEN 1 ELSE 0

Packed(s, e, q) ==
    LET carried == q >= 2^(FRAC + 1)
        exp == IF carried /\ e < MAXE THEN e + 1 ELSE e
    IN IF exp >= MAXE THEN Inf(s)
       ELSE [sign |-> s, exponent |-> exp,
             fraction |-> (IF carried THEN q \div 2 ELSE q) % 2^FRAC]

internal_normalize(s, e, x) ==
    LET n == Normalized(e, x) IN Packed(s, n.exp, Rounded(n.sig))

-----------------------------------------------------------------------------
\* The tables of corner cases: <<a, b, result>>.
Bits == {0, 1}
corner_add ==
    {<<Zero(s), Zero(t), Zero(s * t)>> : s, t \in Bits}
    \cup {<<Inf(s), Inf(1 - s), NaN(1)>> : s \in Bits}
    \cup {<<Inf(s), NaN(t), NaN(t)>> : s, t \in Bits}
    \cup {<<NaN(1), NaN(0), NaN(0)>>}
corner_sub ==
    {<<Zero(s), Zero(t), Zero(s * (1 - t))>> : s, t \in Bits}
    \cup {<<NaN(s), NaN(t), NaN(s * t)>> : s, t \in Bits}
corner_mul ==
    {<<Zero(s), Inf(t), NaN(1)>> : s, t \in Bits}
    \cup {<<Inf(s), Zero(t), NaN(1)>> : s, t \in Bits}
corner_div ==
    {<<Zero(s), Zero(t), NaN(1)>> : s, t \in Bits}
    \cup {<<Inf(s), Zero(t), Inf((s + t) % 2)>> : s, t \in Bits}
    \cup {<<Inf(s), Inf(t), NaN(1)>> : s, t \in Bits}

Covers(table, a, b) == \E r \in table : r[1] = a /\ r[2] = b
TableEntry(table, a, b) == (CHOOSE r \in table : r[1] = a /\ r[2] = b)[3]

Negated(f, x) == IF f.sign = 1 THEN -x ELSE x

\* The smaller exponent's significand is shifted to the larger one's.
Added(l, h) ==
    LET sum == Negated(l, Jammed(8 * sig(l), scale(h) - scale(l))) + Negated(h, 8 * sig(h))
    IN IF sum < 0 THEN internal_normalize(1, h.exponent, -sum)
       ELSE internal_normalize(0, h.exponent, sum)

internal_float_add(b, a) ==
    IF Covers(corner_add, a, b) THEN TableEntry(corner_add, a, b)
    ELSE IF a \in Zeros THEN b
    ELSE IF b \in Zeros THEN a
    ELSE IF a.exponent = MAXE THEN a
    ELSE IF b.exponent = MAXE THEN b
    ELSE IF a.exponent > b.exponent THEN Added(b, a) ELSE Added(a, b)

internal_float_sub(b, a) ==
    IF Covers(corner_sub, a, b) THEN TableEntry(corner_sub, a, b)
    ELSE IF a \in NaNs THEN a
    ELSE IF b \in NaNs THEN b
    ELSE internal_float_add([b EXCEPT !.sign = 1 - @], a)

NaNOf(a, b) == IF NaN(0) \in {a, b} THEN NaN(0) ELSE NaN(1)

internal_float_mul(b, a) ==
    IF Covers(corner_mul, a, b) THEN TableEntry(corner_mul, a, b)
    ELSE IF {a, b} \cap NaNs # {} THEN NaNOf(a, b)
    ELSE IF {a, b} \cap Zeros # {} THEN Zero(SignOf(a, b))
    ELSE IF {a, b} \cap Infs # {} THEN Inf(SignOf(a, b))
    ELSE internal_normalize(SignOf(a, b), scale(a) - BIAS + scale(b) - (FRAC - 3), sig(a) * sig(b))

\* The dividend is shifted to the top of its integer, the divisor to the bottom.
Up(x) == Fewest({k \in 0..WIDE : x * 2^k >= 2^(WIDE - 1)})
Down(x) == Fewest({k \in 0..FRAC : (x \div 2^k) % 2 = 1})

internal_float_div(b, a) ==
    IF Covers(corner_div, a, b) THEN TableEntry(corner_div, a, b)
    ELSE IF {a, b} \cap NaNs # {} THEN NaNOf(a, b)
    ELSE IF a \in Infs \/ b \in Zeros THEN Inf(SignOf(a, b))
    ELSE IF a \in Zeros \/ b \in Infs THEN Zero(SignOf(a, b))
    ELSE LET u == Up(sig(a))  d == Down(sig(b)) IN
         internal_normalize(SignOf(a, b), scale(a) - scale(b) + BIAS - (u + d - FRAC - 3),
                            (sig(a) * 2^u) \div (sig(b) \div 2^d))

Computed(op, b, a) == CASE op = "add" -> internal_float_add(b, a)
                        [] op = "sub" -> internal_float_sub(b, a)
                        [] op = "mul" -> internal_float_mul(b, a)
                        [] op = "div" -> internal_float_div(b, a)

-----------------------------------------------------------------------------
\* The instructions.  A program moves, computes with and pops what it has loaded.
\* A behaviour computes once: that is the end of its loads and moves, and only
\* pops follow.
Before == last.op = "none"
Moving == Before /\ loads > 0
Reg(idx) == (top + idx) % NR_REGS
Indexes == 0..(NR_REGS - 1)

\* fpu_store() after the rest of the instruction, when it pops.
Popped(pop) == top' = IF pop THEN Reg(1) ELSE top

fpu_load(val) ==
    /\ Before /\ loads < MaxLoads /\ loads' = loads + 1
    /\ top' = IF top = 0 THEN NR_REGS - 1 ELSE top - 1
    /\ regStack' = [regStack EXCEPT ![top'] = val]
    /\ UNCHANGED last

Compute(op, b, dest) ==
    LET res == Computed(op, b, regStack[top]) IN
    /\ Moving
    /\ last' = [op |-> op, a |-> regStack[top], b |-> b, res |-> res]
    /\ regStack' = [regStack EXCEPT ![dest] = res]
    /\ UNCHANGED loads

\* fpu_add(), fpu_sub(), fpu_mul(), fpu_div(): with an operand in memory.
fpu_op(op, val) == Compute(op, val, top) /\ Popped(FALSE)

\* fpu_add_idx() to the top, to the operand, and to the operand with a pop;
\* fpu_mul_idx() to the operand.
fpu_op_idx(op, idx) ==
    \/ op = "add" /\ Compute(op, regStack[Reg(idx)], top) /\ Popped(FALSE)
    \/ op = "add" /\ Compute(op, regStack[Reg(idx)], Reg(idx)) /\ Popped(TRUE)
    \/ Compute(op, regStack[Reg(idx)], Reg(idx)) /\ Popped(FALSE)

fpu_copy(idx, pop) ==
    /\ Moving /\ Popped(pop)
    /\ regStack' = [regStack EXCEPT ![Reg(idx)] = regStack[top]]
    /\ UNCHANGED <<loads, last>>

fpu_xch(idx) ==
    /\ Moving
    /\ regStack' = [regStack EXCEPT ![top] = regStack[Reg(idx)], ![Reg(idx)] = regStack[top]]
    /\ UNCHANGED <<top, loads, last>>

fpu_store == loads > 0 /\ Popped(TRUE) /\ UNCHANGED <<regStack, loads, last>>

FpuNext ==
    \/ fpu_store
    \/ \E val \in Loadable : fpu_load(val) \/ \E op \in {"add", "sub", "mul", "div"} : fpu_op(op, val)
    \/ \E idx \in Indexes :
        \/ fpu_xch(idx) \/ fpu_copy(idx, TRUE) \/ fpu_copy(idx, FALSE)
        \/ \E op \in {"add", "mul"} : fpu_op_idx(op, idx)

-----------------------------------------------------------------------------
\* The registers hold canonical floats.
FpuTypeOK == /\ regStack \in [Indexes -> Canonical] /\ top \in Indexes
             /\ loads \in 0..MaxLoads /\ {last.a, last.b, last.res} \subseteq Canonical
             /\ last.op \in {"none", "add", "sub", "mul", "div"}

\* The size of a float in units of the smallest one; an infinity counts as the
\* first number that is too large.
Size(f) == sig(f) * 2^(scale(f) - 1)
Sizable == {f \in Float : f.sign = 0 /\ f.exponent # MAXE} \cup {Inf(0)}
One == 2^(BIAS + FRAC - 1)      \* the size of 1
Distance(x, y) == IF x < y THEN y - x ELSE x - y

\* Of all floats f is the nearest in size to p/q, and the even one of two.
Nearest(f, p, q) == \A g \in Sizable :
    LET df == Distance(Size(f) * q, p)  dg == Distance(Size(g) * q, p)
    IN df < dg \/ (df = dg /\ (Size(g) = Size(f) \/ f.fraction % 2 = 0))

\* The float next to f towards zero or f itself is the nearest.
NearestOrBelow(f, p, q) == \E g \in Sizable :
    /\ Nearest(g, p, q) /\ Size(f) <= Size(g)
    /\ \A h \in Sizable : ~(Size(f) < Size(h) /\ Size(h) < Size(g))

\* p/q is below the normal numbers and is rounded up to the first of them.
UpToNormal(p, q) ==
    p < 2^FRAC * q /\ Nearest([sign |-> 0, exponent |-> 1, fraction |-> 0], p, q)

\* A product, mostly by a denormal, whose exponent comes out as 0 before it is
\* normalized and whose significand needs no shift to the right.
Unshifted(a, b) ==
    scale(a) + scale(b) = BIAS + FRAC - 3 /\ sig(a) * sig(b) < 2 * Lead

Invalid(op, a, b) ==
    \/ {a, b} \cap NaNs # {}
    \/ op = "add" /\ {a, b} = Infs
    \/ op = "sub" /\ a = b /\ a \in Infs
    \/ op = "mul" /\ {a, b} \cap Infs # {} /\ {a, b} \cap Zeros # {}
    \/ op = "div" /\ ({a, b} \subseteq Infs \/ {a, b} \subseteq Zeros)

Finite(f) == f.exponent # MAXE

\* What a sum or difference adds.
Addend(op, b) == IF op = "sub" THEN [b EXCEPT !.sign = 1 - @] ELSE b

\* The sum of a and c is rounded to nearest, in size and in sign; it is a negative
\* zero only of two of them.
SumRounds(a, c, r) ==
    LET x == Negated(a, Size(a)) + Negated(c, Size(c)) IN
    /\ Nearest(r, Distance(x, 0), 1)
    /\ r.sign = IF x = 0 THEN a.sign * c.sign ELSE IF x < 0 THEN 1 ELSE 0

ProductRounds(a, b, r) == LET p == Size(a) * Size(b) IN
    /\ Nearest(r, p, One) \/ Unshifted(a, b) \/ UpToNormal(p, One)
    /\ r.sign = SignOf(a, b)

QuotientRounds(a, b, r) == LET p == Size(a) * One IN
    /\ NearestOrBelow(r, p, Size(b)) \/ UpToNormal(p, Size(b))
    /\ r.sign = SignOf(a, b)

\* A NaN among the operands, the positive one before the negative; without one
\* the host's default, which is negative.
ResultNaN(a, b) == NaN(IF NaN(0) \in {a, b} THEN 0 ELSE 1)

\* Results that are exact although an operand is infinite or a divisor zero.
Unrounded(op, a, b) ==
    CASE op \in {"add", "sub"} -> IF a \in Infs THEN a ELSE Addend(op, b)
      [] op = "div" /\ Finite(a) /\ b \in Infs -> Zero(SignOf(a, b))
      [] OTHER -> Inf(SignOf(a, b))

\* What a program computes is what the host computes: sums and differences are
\* rounded to nearest, whatever the two exponents and signs and also where they
\* cancel to a denormal or reach infinity; products too, and quotients to that
\* or the float below, as the repository's own test admits, except for the
\* results UpToNormal and Unshifted name.  A result is a NaN if and only if the
\* operation is invalid, and then it is the NaN the host gives; infinite operands
\* and divisors that are zero leave the host's infinity or zero with its sign.
FloatsRound ==
    LET a == last.a  b == last.b  r == last.res  op == last.op IN op # "none" =>
    /\ r \in NaNs <=> Invalid(op, a, b)
    /\ IF Invalid(op, a, b) THEN r = ResultNaN(a, b)
       ELSE IF ~Finite(a) \/ ~Finite(b) \/ (op = "div" /\ b \in Zeros)
       THEN r = Unrounded(op, a, b)
       ELSE /\ op \in {"add", "sub"} => SumRounds(a, Addend(op, b), r)
            /\ op = "mul" => ProductRounds(a, b, r)
            /\ op = "div" => QuotientRounds(a, b, r)
=============================================================================
