---------------------------------- MODULE Alu ----------------------------------
(***************************************************************************)
(* NEMU's arithmetic (cpu/alu.c behind cpu/instr/*.c) and the conditions   *)
(* that jcc, setcc and cmov take from its flags: registers of W bits,      *)
(* operands of n \in Sizes bits in them, the flags computed from the       *)
(* result alone.  An instruction is two steps, so that what it left is     *)
(* there for the next one: Execute and, with the flags as they are, Fetch. *)
(***************************************************************************)
EXTENDS Integers, FiniteSets

CONSTANTS
    W,      \* bits of a register: 32
    BYTE,   \* bits that count for the parity, and of the narrowest operand: 8
    Sizes   \* {8, 16, 32}

ASSUME Widths ==
    /\ {W, BYTE} \subseteq Nat \ {0, 1} /\ Sizes \subseteq BYTE..W /\ BYTE \in Sizes

VARIABLES
    done,   \* the last instruction with its operands, the carry it found, its result
    eflags

aluVars == <<done, eflags>>

Register == 0..(2^W - 1)
Flags == [CF : {0, 1}, OF : {0, 1}, ZF : {0, 1}, SF : {0, 1}, PF : {0, 1}]
Fetched == [op |-> "fetch", n |-> W, src |-> 0, dest |-> 0, carry |-> 0, res |-> 0]

AluInit ==
    /\ done = Fetched
    /\ eflags = [CF |-> 0, OF |-> 0, ZF |-> 0, SF |-> 0, PF |-> 0]

-----------------------------------------------------------------------------
Flag(b) == IF b THEN 1 ELSE 0
Bit(x, i) == (x \div 2^i) % 2
Masked(x, n) == x % 2^n
sign(x) == Bit(x, W - 1)
sign_ext(x, n) == Masked(x, n) + IF Bit(x, n - 1) = 1 THEN 2^W - 2^n ELSE 0
Extended(x, n) == sign_ext(Masked(x, n), n)

\* The flags, from the result and an operand.
set_PF(res) == Flag(Cardinality({i \in 0..(BYTE - 1) : Bit(res, i) = 1}) % 2 = 0)
set_ZF(res, n) == Flag(Masked(res, n) = 0)
set_SF(res, n) == sign(Extended(res, n))

\* Faulty variant: the carry that came in does not count.
CF_add_always(res, src, carry, n) == Flag(Extended(res, n) < Extended(src, n))

set_CF_add(res, src, carry, n) ==
    Flag(Extended(res, n) < Extended(src, n)
         \/ (carry = 1 /\ Extended(res, n) = Extended(src, n)))

set_CF_sub(res, dest, carry, n) ==
    Flag(Extended(res, n) > Extended(dest, n)
         \/ (carry = 1 /\ Extended(res, n) = Extended(dest, n)))

set_OF_add(res, src, dest, n) ==
    Flag(/\ sign(Extended(src, n)) = sign(Extended(dest, n))
         /\ sign(Extended(res, n)) # sign(Extended(src, n)))

\* Faulty variant: the signs are compared as for a sum.
OF_sub_as_add(res, src, dest, n) == set_OF_add(res, src, dest, n)

set_OF_sub(res, src, dest, n) ==
    Flag(/\ sign(Extended(src, n)) # sign(Extended(dest, n))
         /\ sign(Extended(res, n)) = sign(Extended(src, n)))

Result(res, n, cf, of) ==
    [res |-> Masked(res, n),
     flags |-> [CF |-> cf, OF |-> of, ZF |-> set_ZF(res, n), SF |-> set_SF(res, n),
                PF |-> set_PF(res)]]

\* alu_add() is alu_adc() without a carry, and alu_sub() alu_sbb().
alu_adc(src, dest, carry, n) ==
    LET res == (dest + src + carry) % 2^W
    IN Result(res, n, set_CF_add(res, src, carry, n), set_OF_add(res, src, dest, n))

alu_sbb(src, dest, borrow, n) ==
    LET res == (dest - (src + borrow)) % 2^W
    IN Result(res, n, set_CF_sub(res, dest, borrow, n), set_OF_sub(res, src, dest, n))

\* One bit of and, or, xor.
Joined(op, a, b) == CASE op = "and" -> a * b
                      [] op = "or"  -> a + b - a * b
                      [] op = "xor" -> (a + b) % 2

alu_logic(op, src, dest, n) ==
    Result(CHOOSE r \in Register : \A i \in 0..(W - 1) :
                Bit(r, i) = Joined(op, Bit(src, i), Bit(dest, i)), n, 0, 0)

\* A shift of a W-bit register: the host takes the count modulo W.
Left(x, count) == (x * 2^(count % W)) % 2^W
Right(x, count) == x \div 2^(count % W)
Signed(x, n) == IF Bit(x, n - 1) = 1 THEN Masked(x, n) - 2^n ELSE Masked(x, n)

\* Of a left shift, the overflow bit is the top bit of the register: of the
\* exclusive or only the lowest bit fits.
alu_shl(src, dest, n) ==
    Result(Left(dest, src), n, sign(Extended(Left(dest, src - 1), n)), sign(dest))

alu_shr(src, dest, n) ==
    Result(Right(Masked(dest, n), src), n,
           Bit(Extended(Right(Masked(dest, n), src - 1), n), 0), sign(Masked(dest, n)))

alu_sar(src, dest, n) ==
    Result(Right(Signed(dest, n), src) % 2^W, n, Bit(Right(Signed(dest, n), src - 1), 0), 0)

\* A product fills two registers of n bits, and a division takes them apart into
\* quotient and remainder; what they hold together is one number of 2n bits.
\* (imul with two or three operands keeps its lower half.)
set_CF_OF_mul(res, n) == Flag(res \div 2^n # 0)

\* The cases of the switch fall through to the last one, for a whole register.
set_CF_OF_imul(res, n) ==
    Flag(Right(Signed(res % 2^W, W), n) % 2^W # (res \div 2^n) % 2^W)

Product(res, n, overflow) ==
    [Result(res % 2^W, n, overflow, overflow) EXCEPT !.res = Masked(res, 2 * n)]

alu_mul(src, dest, n) == Product(dest * src, n, set_CF_OF_mul(dest * src, n))

alu_imul(src, dest, n) ==
    LET res == Signed(dest, n) * Signed(src, n) IN Product(res, n, set_CF_OF_imul(res, n))

\* C's division, of numbers with or without a sign.
Magnitude(x) == IF x < 0 THEN -x ELSE x
Quotient(dest, src) ==
    LET q == Magnitude(dest) \div Magnitude(src)
    IN IF (dest < 0) = (src < 0) THEN q ELSE -q

\* The quotient and dest - src * quotient; the flags stay.
Division(dest, src, n, flags) ==
    [res |-> Masked(dest - src * Quotient(dest, src), n) * 2^n + Masked(Quotient(dest, src), n),
     flags |-> flags]

\* inc and dec put the carry back.
KeepCarry(r, carry) == [r EXCEPT !.flags.CF = carry]

Executed(op, n, src, dest, carry, flags) ==
    CASE op = "add" -> alu_adc(src, dest, 0, n)
      [] op = "adc" -> alu_adc(src, dest, carry, n)
      [] op = "inc" -> KeepCarry(alu_adc(1, dest, 0, n), carry)
      [] op \in {"sub", "cmp"} -> alu_sbb(src, dest, 0, n)
      [] op = "sbb" -> alu_sbb(src, dest, carry, n)
      [] op = "neg" -> alu_sbb(dest, 0, 0, n)
      [] op = "dec" -> KeepCarry(alu_sbb(1, dest, 0, n), carry)
      [] op \in {"and", "or", "xor"} -> alu_logic(op, src, dest, n)
      [] op = "test" -> alu_logic("and", src, dest, n)
      [] op = "mul" -> alu_mul(src, dest, n)
      [] op = "imul" -> alu_imul(src, dest, n)
      [] op = "div" -> Division(dest, src, n, flags)
      [] op = "idiv" -> Division(Signed(dest, 2 * n), Signed(src, n), n, flags)
      [] op = "shl" -> alu_shl(src, dest, n)
      [] op = "shr" -> alu_shr(src, dest, n)
      [] op = "sar" -> alu_sar(src, dest, n)

Unary == {"inc", "dec", "neg"}
Shifts == {"shl", "shr", "sar"}
Binary == {"add", "adc", "sub", "sbb", "cmp", "and", "or", "xor"}
Products == {"mul", "imul"}
Divisions == {"div", "idiv"}

\* operand_read() leaves n bits; only a byte that is immediate is extended to a
\* whole register, and test has no such form.  A shift is by a byte.
Operands(n) == 0..(2^n - 1)
Immediates(n) == IF n > BYTE THEN {sign_ext(b, BYTE) : b \in Operands(BYTE)} ELSE {}

Sources(op, n) == CASE op \in Unary -> {0}
                    [] op \in Shifts -> Operands(BYTE)
                    [] op \in {"test"} \cup Products \cup Divisions -> Operands(n)
                    [] op \in Binary -> Operands(n) \cup Immediates(n)

\* A division takes a dividend of two registers, and one by zero, or of the
\* least number of all by -1, ends NEMU with a signal of its host.
Destinations(op, n) == Operands(IF op \in Divisions THEN 2 * n ELSE n)

Divisible(op, n, src, dest) ==
    op \in Divisions => /\ src # 0
                        /\ ~(op = "idiv" /\ n = W /\ src = 2^W - 1 /\ dest = 2^(2 * W - 1))

\* 8, 16 and 32 bits: two registers of n < W bits fit into one of W.
SizesOf(op) == IF op \in Products \cup Divisions THEN {n \in Sizes : 2 * n <= W \/ n = W}
              ELSE Sizes

Execute ==
    /\ done = Fetched
    /\ \E op \in Unary \cup Shifts \cup Binary \cup Products \cup Divisions \cup {"test"} :
       \E n \in SizesOf(op) : \E src \in Sources(op, n), dest \in Destinations(op, n) :
            LET r == Executed(op, n, src, dest, eflags.CF, eflags) IN
            /\ Divisible(op, n, src, dest)
            /\ done' = [op |-> op, n |-> n, src |-> src, dest |-> dest,
                        carry |-> eflags.CF, res |-> r.res]
            /\ eflags' = r.flags

Fetch == done # Fetched /\ done' = Fetched /\ UNCHANGED eflags

AluNext == Execute \/ Fetch

-----------------------------------------------------------------------------
\* instr_helper.h: the conditions.
condition(cc) == LET f == eflags IN
    CASE cc = "e"  -> f.ZF = 1
      [] cc = "ne" -> f.ZF = 0
      [] cc = "a"  -> f.CF = 0 /\ f.ZF = 0
      [] cc = "ae" -> f.CF = 0
      [] cc = "b"  -> f.CF = 1
      [] cc = "be" -> f.CF = 1 \/ f.ZF = 1
      [] cc = "g"  -> f.ZF = 0 /\ f.SF = f.OF
      [] cc = "ge" -> f.SF = f.OF
      [] cc = "l"  -> f.SF # f.OF
      [] cc = "le" -> f.ZF = 1 \/ f.SF # f.OF

\* The flags are bits and the result has the operand's width.
AluTypeOK ==
    /\ eflags \in Flags
    /\ done.n \in Sizes \cup {W} /\ done.carry \in {0, 1}
    /\ done.src \in Register /\ done.dest \in Operands(2 * done.n)
    /\ done.res \in Operands(IF done.op \in Products \cup Divisions THEN 2 * done.n ELSE done.n)

CCs == {"e", "ne", "a", "ae", "b", "be", "g", "ge", "l", "le"}

\* What the name of a condition says of two numbers, u without a sign and s
\* with one.
Says(cc, d, s) ==
    CASE cc = "e" -> d.u = s.u   [] cc = "ne" -> d.u # s.u
      [] cc = "a" -> d.u > s.u   [] cc = "ae" -> d.u >= s.u
      [] cc = "b" -> d.u < s.u   [] cc = "be" -> d.u <= s.u
      [] cc = "g" -> d.s > s.s   [] cc = "ge" -> d.s >= s.s
      [] cc = "l" -> d.s < s.s   [] cc = "le" -> d.s <= s.s

Number(x, n) == [u |-> Masked(x, n), s |-> Signed(x, n)]

\* After a comparison every condition says of the two operands what its name
\* says, at every width and also where the difference overflows.
ConditionsTell == done.op = "cmp" => \A cc \in CCs :
    condition(cc) = Says(cc, Number(done.dest, done.n), Number(done.src, done.n))

\* What a sum or a difference is, without a sign and with one.
Sum(dest, src, c) == [u |-> dest.u + src.u + c, s |-> dest.s + src.s + c]
Difference(dest, src, c) == [u |-> dest.u - src.u - c, s |-> dest.s - src.s - c]
Exact == LET d == Number(done.dest, done.n)  s == Number(done.src, done.n)
             one == [u |-> 1, s |-> 1]       zero == [u |-> 0, s |-> 0] IN
    CASE done.op = "add" -> Sum(d, s, 0)
      [] done.op = "adc" -> Sum(d, s, done.carry)
      [] done.op = "inc" -> Sum(d, one, 0)
      [] done.op \in {"sub", "cmp"} -> Difference(d, s, 0)
      [] done.op = "sbb" -> Difference(d, s, done.carry)
      [] done.op = "dec" -> Difference(d, one, 0)
      [] done.op = "neg" -> Difference(zero, d, 0)

\* The bits a shift leaves, and the last one it moved out.
ShiftExact == LET d == Masked(done.dest, done.n)  k == done.src IN
    CASE done.op = "shl" -> done.res = (d * 2^k) % 2^done.n
                                /\ eflags.CF = ((d * 2^k) \div 2^done.n) % 2
      [] done.op = "shr" -> done.res = d \div 2^k /\ eflags.CF = (d \div 2^(k - 1)) % 2
      [] done.op = "sar" -> LET s == Signed(done.dest, done.n) IN
            done.res = (s \div 2^k) % 2^done.n /\ eflags.CF = (s \div 2^(k - 1)) % 2

\* A product is exact in its two words, and mul's carry tells whether the upper
\* one is needed (imul's does not).  A division whose quotient fits into its
\* word leaves it, and a remainder that is less than the divisor and has the
\* dividend's sign.
ProductExact(d, s, M) ==
    /\ done.op = "mul" => /\ done.res = d.u * s.u
                          /\ eflags.CF = Flag(done.res >= M) /\ eflags.OF = eflags.CF
    /\ done.op = "imul" => Signed(done.res, 2 * done.n) = d.s * s.s

DivisionExact(s, M) ==
    /\ done.op = "div" => \A q \in 0..(M - 1) : LET r == done.dest - q * s.u IN
            r \in 0..(s.u - 1) => done.res = r * M + q
    /\ done.op = "idiv" => \A q \in (-(M \div 2))..(M \div 2 - 1) :
            LET D == Signed(done.dest, 2 * done.n)  r == D - q * s.s IN
            Magnitude(r) < Magnitude(s.s) /\ r * D >= 0 => done.res = (r % M) * M + (q % M)

\* Numbers of several words can be added and subtracted word by word: result,
\* carry and overflow are those of the exact sum or difference of the operands
\* and the carry that was found, which inc and dec leave alone for the next
\* word.
SumsAreExact ==
    done.op \in {"add", "adc", "inc", "sub", "cmp", "sbb", "dec", "neg"} =>
        LET M == 2^done.n IN
        /\ done.res = Exact.u % M
        /\ eflags.CF = IF done.op \in {"inc", "dec"} THEN done.carry
                       ELSE Flag(Exact.u \notin 0..(M - 1))
        /\ eflags.OF = Flag(Exact.s \notin (-(M \div 2))..(M \div 2 - 1))
        /\ eflags.ZF = Flag(Exact.u % M = 0)
        /\ eflags.SF = Flag(Exact.u % M >= M \div 2)

\* For counts from 1 to the operand's width, as far as the host does not take
\* them for 0.
ShiftsAreExact == done.op \in Shifts /\ done.src \in 1..done.n /\ done.src < W => ShiftExact

ProductsAreExact == ProductExact(Number(done.dest, done.n), Number(done.src, done.n), 2^done.n)

DivisionsAreExact == DivisionExact(Number(done.src, done.n), 2^done.n)

\* What the instructions compute is exact, at every width: sums and differences
\* with their carries; a shift leaves the last bit it moved out; products and
\* divisions go through two words without a loss.
ArithmeticIsExact == SumsAreExact /\ ShiftsAreExact /\ ProductsAreExact /\ DivisionsAreExact
=============================================================================
