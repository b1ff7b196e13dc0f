---------------------------- MODULE MachineProofs ----------------------------
(***************************************************************************)
(* What an instruction of the guest relies on in NEMU (Machine): what its  *)
(* arithmetic computes, its operands being any of any width, what its      *)
(* floats are rounded to (FpuProofs), and the invariants of all the layers *)
(* side by side, for every machine.                                        *)
(***************************************************************************)
EXTENDS Machine, MemoryProofs, FpuProofs

-----------------------------------------------------------------------------
\* The layers, each with the steps of the others around its own.

LEMMA LayerSteps ==
    ASSUME [Next]_machineVars
    PROVE  [PgNext]_pgVars /\ [CacheNext]_cacheVars /\ [AluNext]_aluVars /\ [FpuNext]_fpuVars
  <1>1. CASE Next
    BY <1>1 DEF Next
  <1>2. CASE UNCHANGED machineVars
    BY <1>2 DEF machineVars
  <1>3. QED
    BY <1>1, <1>2

-----------------------------------------------------------------------------
\* Operands of n bits in registers of W bits.

LEMMA WidthIs ==
    /\ W \in Nat \ {0, 1} /\ BYTE \in Nat \ {0, 1}
    /\ \A n \in Sizes \cup {W} : n \in Nat \ {0, 1} /\ n <= W /\ BYTE <= n
    /\ BYTE \in Sizes
  <1>1. W \in Nat \ {0, 1} /\ BYTE \in Nat \ {0, 1} /\ BYTE \in Sizes
    BY Widths
  <1>2. ASSUME NEW n \in Sizes \cup {W}
        PROVE  n \in Nat \ {0, 1} /\ n <= W /\ BYTE <= n
    <2>1. BYTE \in BYTE..W
      BY Widths
    <2>2. n \in BYTE..W
      BY <1>1, <2>1, Widths
    <2>3. QED
      BY <1>1, <2>2
  <1>3. QED
    BY <1>1, <1>2

\* The top bit of n tells whether they hold half of all or more.
LEMMA TopBit ==
    ASSUME NEW n \in Nat \ {0}, NEW x \in Int
    PROVE  Bit(x, n - 1) = IF x % 2^n >= 2^(n - 1) THEN 1 ELSE 0
  <1>1. PICK H \in Nat \ {0}, M \in Nat \ {0} : H = 2^(n - 1) /\ M = 2^n /\ M = 2 * H
    BY Halves
  <1>2. PICK q \in Int, m \in 0..(M - 1) : m = x % M /\ x = M * q + m
    BY RemainderIs
  <1>3. PICK h \in {0, 1}, r \in 0..(H - 1) :
            m = H * h + r /\ (h = 1 <=> m >= H)
    <2>1. CASE m < H
      <3>1. m = H * 0 + m /\ m \in 0..(H - 1)
        BY <2>1
      <3>2. QED
        BY <2>1, <3>1
    <2>2. CASE m >= H
      <3>1. m = H * 1 + (m - H) /\ m - H \in 0..(H - 1)
        BY <1>1, <2>2
      <3>2. QED
        BY <2>2, <3>1
    <2>3. QED
      BY <2>1, <2>2
  <1>4. x = H * (2 * q + h) + r
    <2>1. M * q = H * (2 * q)
      BY <1>1
    <2>2. H * (2 * q + h) = H * (2 * q) + H * h
      OBVIOUS
    <2>3. PICK e \in Int, f \in Int : e = M * q /\ f = H * h
      OBVIOUS
    <2>4. x = e + (f + r)
      BY <1>2, <1>3, <2>3
    <2>5. H * (2 * q + h) = e + f
      BY <2>1, <2>2, <2>3, Zenon
    <2>6. PICK g \in Int : g = H * (2 * q + h) /\ g = e + f
      BY <2>3, <2>5
    <2>7. x = g + r
      BY <2>4, <2>6
    <2>8. QED
      BY <2>6, <2>7, Zenon
  <1>5. x \div H = 2 * q + h
    <2>1. 2 * q + h \in Int
      OBVIOUS
    <2>2. QED
      BY <1>4, <2>1, RemainderBy
  <1>6. (2 * q + h) % 2 = h
    OBVIOUS
  <1>7. Bit(x, n - 1) = h
    BY <1>1, <1>5, <1>6, Zenon DEF Bit
  <1>8. QED
    BY <1>1, <1>2, <1>3, <1>7

LEMMA BitIs ==
    ASSUME NEW x \in Int, NEW i \in Nat
    PROVE  Bit(x, i) \in {0, 1}
  <1>1. PICK H \in Nat \ {0} : H = 2^i
    BY PowerIs
  <1>2. x \div H \in Int
    BY RemainderIs
  <1>3. (x \div H) % 2 \in {0, 1}
    BY <1>2
  <1>4. QED
    BY <1>1, <1>3 DEF Bit

\* What n bits hold, extended to a register, and as a number with a sign.
LEMMA ExtendedIs ==
    ASSUME NEW n \in Nat \ {0, 1}, n <= W, NEW x \in Int
    PROVE  LET m == x % 2^n IN
           /\ m \in 0..(2^n - 1)
           /\ Extended(x, n) = m + IF m >= 2^(n - 1) THEN 2^W - 2^n ELSE 0
           /\ Extended(x, n) \in Register
           /\ sign(Extended(x, n)) = IF m >= 2^(n - 1) THEN 1 ELSE 0
           /\ Signed(x, n) = IF m >= 2^(n - 1) THEN m - 2^n ELSE m
  <1>1. PICK H \in Nat \ {0}, M \in Nat \ {0} : H = 2^(n - 1) /\ M = 2^n /\ M = 2 * H
    BY Halves
  <1>2. PICK G \in Nat \ {0}, V \in Nat \ {0} : G = 2^(W - 1) /\ V = 2^W /\ V = 2 * G
    BY Halves, WidthIs
  <1>3. M <= V /\ (M # V => 2 * M <= V)
    BY <1>1, <1>2, PowerOrder, WidthIs
  <1>4. PICK m \in 0..(M - 1) : m = x % M
    BY RemainderIs
  <1>5. m % M = m
    BY <1>4, RemainderSmall
  <1>6. Bit(m, n - 1) = IF m >= H THEN 1 ELSE 0
    <2>1. n \in Nat \ {0} /\ m \in Int
      OBVIOUS
    <2>2. Bit(m, n - 1) = IF m % 2^n >= 2^(n - 1) THEN 1 ELSE 0
      BY <2>1, TopBit, Zenon
    <2>3. QED
      BY <1>1, <1>5, <2>2, Zenon
  <1>7. Extended(x, n) = m + IF m >= H THEN V - M ELSE 0
    BY <1>1, <1>2, <1>4, <1>5, <1>6 DEF Extended, sign_ext, Masked
  <1>8. PICK e \in 0..(V - 1) : e = Extended(x, n) /\ e = m + IF m >= H THEN V - M ELSE 0
    BY <1>3, <1>4, <1>7
  <1>9. Bit(e, W - 1) = IF e >= G THEN 1 ELSE 0
    <2>1. e % V = e
      BY <1>8, RemainderSmall
    <2>2. W \in Nat \ {0} /\ e \in Int
      BY WidthIs
    <2>3. Bit(e, W - 1) = IF e % 2^W >= 2^(W - 1) THEN 1 ELSE 0
      BY <2>2, TopBit
    <2>4. QED
      BY <1>2, <2>1, <2>3
  <1>10. e >= G <=> m >= H
    BY <1>1, <1>2, <1>3, <1>4, <1>8
  <1>11. Signed(x, n) = IF m >= H THEN m - M ELSE m
    <2>1. Bit(x, n - 1) = IF m >= H THEN 1 ELSE 0
      BY <1>1, <1>4, TopBit
    <2>2. QED
      BY <1>1, <1>4, <2>1 DEF Signed, Masked
  <1>12. QED
    BY <1>1, <1>2, <1>4, <1>7, <1>8, <1>9, <1>10, <1>11 DEF sign, Register

LEMMA Parts ==
    ASSUME NEW n \in Nat \ {0, 1}, n <= W, NEW x \in Int,
           NEW H \in Nat \ {0}, NEW M \in Nat \ {0}, H = 2^(n - 1), M = 2^n, M = 2 * H
    PROVE  /\ x % M \in 0..(M - 1) /\ Signed(x, n) \in (-H)..(H - 1)
           /\ Signed(x, n) = IF x % M >= H THEN (x % M) - M ELSE x % M
  <1>1. PICK m \in 0..(M - 1) : m = x % M
    BY RemainderIs
  <1>2. Signed(x, n) = IF m >= H THEN m - M ELSE m
    BY <1>1, ExtendedIs
  <1>3. QED
    BY <1>1, <1>2

\* A result in a register and in n bits of it.
LEMMA MaskedIs ==
    ASSUME NEW n \in Nat \ {0, 1}, n <= W, NEW M \in Nat, M = 2^n, NEW x \in Int
    PROVE  \E R \in Register : R = x % 2^W /\ R % M = x % M /\ R \in Int
  <1>1. /\ (x % 2^W) % 2^n = x % 2^n
        /\ x % 2^W \in 0..(2^W - 1) /\ x % 2^W \in Nat
    BY MaskTwice, WidthIs
  <1>2. QED
    BY <1>1 DEF Register

LEMMA ExtendedOrder ==
    ASSUME NEW n \in Nat \ {0, 1}, n <= W, NEW x \in Int, NEW y \in Int
    PROVE  /\ Extended(x, n) < Extended(y, n) <=> x % 2^n < y % 2^n
           /\ Extended(x, n) = Extended(y, n) <=> x % 2^n = y % 2^n
  <1>1. PICK H \in Nat \ {0}, M \in Nat \ {0} : H = 2^(n - 1) /\ M = 2^n /\ M = 2 * H
    BY Halves
  <1>2. PICK V \in Nat : V = 2^W
    BY PowerIs, WidthIs
  <1>3. PICK a \in 0..(M - 1) : a = x % M
    BY RemainderIs
  <1>4. PICK b \in 0..(M - 1) : b = y % M
    BY RemainderIs
  <1>5. Extended(x, n) = a + IF a >= H THEN V - M ELSE 0
    BY <1>1, <1>2, <1>3, ExtendedIs
  <1>6. Extended(y, n) = b + IF b >= H THEN V - M ELSE 0
    BY <1>1, <1>2, <1>4, ExtendedIs
  <1>7. V >= M
    BY <1>1, <1>2, PowerOrder, WidthIs
  <1>8. /\ Extended(x, n) < Extended(y, n) <=> a < b
        /\ Extended(x, n) = Extended(y, n) <=> a = b
    BY <1>5, <1>6, <1>7
  <1>9. QED
    BY <1>1, <1>3, <1>4, <1>8, Zenon

LEMMA SignsAgree ==
    ASSUME NEW n \in Nat \ {0, 1}, n <= W, NEW x \in Int, NEW y \in Int
    PROVE  sign(Extended(x, n)) = sign(Extended(y, n)) <=>
                (Signed(x, n) < 0 <=> Signed(y, n) < 0)
  <1>1. PICK H \in Nat \ {0}, M \in Nat \ {0} : H = 2^(n - 1) /\ M = 2^n /\ M = 2 * H
    BY Halves
  <1>2. PICK a \in 0..(M - 1) : a = x % M
    BY RemainderIs
  <1>3. PICK b \in 0..(M - 1) : b = y % M
    BY RemainderIs
  <1>4. /\ sign(Extended(x, n)) = IF a >= H THEN 1 ELSE 0
        /\ Signed(x, n) = IF a >= H THEN a - M ELSE a
    BY <1>1, <1>2, ExtendedIs
  <1>5. /\ sign(Extended(y, n)) = IF b >= H THEN 1 ELSE 0
        /\ Signed(y, n) = IF b >= H THEN b - M ELSE b
    BY <1>1, <1>3, ExtendedIs
  <1>6. QED
    BY <1>4, <1>5

\* What every result says of itself.
LEMMA ResultIs ==
    ASSUME NEW n \in Nat \ {0, 1}, n <= W, NEW x \in Int, NEW cf \in {0, 1}, NEW of \in {0, 1}
    PROVE  LET r == Result(x, n, cf, of)  m == x % 2^n IN
           /\ r.res = m /\ m \in 0..(2^n - 1)
           /\ r.flags.CF = cf /\ r.flags.OF = of
           /\ r.flags.ZF = Flag(m = 0) /\ r.flags.SF = Flag(m >= 2^n \div 2)
           /\ r.flags \in Flags /\ r = [res |-> m, flags |-> r.flags]
  <1>1. PICK H \in Nat \ {0}, M \in Nat \ {0} : H = 2^(n - 1) /\ M = 2^n /\ M = 2 * H
    BY Halves
  <1>2. M \div 2 = H
    BY <1>1
  <1>3. PICK m \in 0..(M - 1) : m = x % M
    BY RemainderIs
  <1>4. sign(Extended(x, n)) = IF m >= H THEN 1 ELSE 0
    BY <1>1, <1>3, ExtendedIs
  <1>5. set_SF(x, n) = Flag(m >= M \div 2)
    BY <1>2, <1>4 DEF set_SF, Flag
  <1>6. set_ZF(x, n) = Flag(m = 0)
    BY <1>1, <1>3 DEF set_ZF, Masked
  <1>7. set_PF(x) \in {0, 1} /\ set_ZF(x, n) \in {0, 1} /\ set_SF(x, n) \in {0, 1}
    BY <1>4 DEF set_PF, set_ZF, set_SF, Flag
  <1>8. Result(x, n, cf, of) = [res |-> m, flags |-> [CF |-> cf, OF |-> of,
                ZF |-> set_ZF(x, n), SF |-> set_SF(x, n), PF |-> set_PF(x)]]
    BY <1>1, <1>3 DEF Result, Masked
  <1>9. QED
    BY <1>1, <1>3, <1>5, <1>6, <1>7, <1>8 DEF Flags

\* A sum or a difference, without a sign (u) and with one (s), fits a result
\* and its flags.
Tells(r, u, s, n) ==
    /\ r = [res |-> r.res, flags |-> r.flags]
    /\ r.res = u % 2^n /\ r.res \in 0..(2^n - 1) /\ r.flags \in Flags
    /\ r.flags.CF = Flag(u \notin 0..(2^n - 1))
    /\ r.flags.OF = Flag(s \notin (-(2^n \div 2))..(2^n \div 2 - 1))
    /\ r.flags.ZF = Flag(u % 2^n = 0) /\ r.flags.SF = Flag(u % 2^n >= 2^n \div 2)

LEMMA FlagIs == ASSUME NEW b \in BOOLEAN PROVE Flag(b) \in {0, 1}
  BY DEF Flag

LEMMA SumTells ==
    ASSUME NEW n \in Nat \ {0, 1}, n <= W, NEW src \in Int, NEW dest \in Int, NEW c \in {0, 1}
    PROVE  Tells(alu_adc(src, dest, c, n), (dest % 2^n) + (src % 2^n) + c,
                 Signed(dest, n) + Signed(src, n) + c, n)
  <1>1. PICK H \in Nat \ {0}, M \in Nat \ {0} : H = 2^(n - 1) /\ M = 2^n /\ M = 2 * H
    BY Halves
  <1>2. PICK x \in Int : x = dest + src + c
    OBVIOUS
  <1>3. PICK R \in Int : R = x % 2^W /\ R % M = x % M
    BY <1>1, MaskedIs
  <1>4. PICK a \in 0..(M - 1), sa \in (-H)..(H - 1) :
            a = src % M /\ sa = Signed(src, n) /\ sa = IF a >= H THEN a - M ELSE a
    <2>1. /\ src % M \in 0..(M - 1) /\ Signed(src, n) \in (-H)..(H - 1)
          /\ Signed(src, n) = IF src % M >= H THEN (src % M) - M ELSE src % M
      BY <1>1, Parts
    <2>2. QED
      BY <2>1, Zenon
  <1>5. PICK b \in 0..(M - 1), sb \in (-H)..(H - 1) :
            b = dest % M /\ sb = Signed(dest, n) /\ sb = IF b >= H THEN b - M ELSE b
    <2>1. /\ dest % M \in 0..(M - 1) /\ Signed(dest, n) \in (-H)..(H - 1)
          /\ Signed(dest, n) = IF dest % M >= H THEN (dest % M) - M ELSE dest % M
      BY <1>1, Parts
    <2>2. QED
      BY <2>1, Zenon
  <1>6. PICK m \in 0..(M - 1), sm \in (-H)..(H - 1) :
            m = R % M /\ sm = Signed(R, n) /\ sm = IF m >= H THEN m - M ELSE m
    <2>1. /\ R % M \in 0..(M - 1) /\ Signed(R, n) \in (-H)..(H - 1)
          /\ Signed(R, n) = IF R % M >= H THEN (R % M) - M ELSE R % M
      BY <1>1, Parts
    <2>2. QED
      BY <2>1, Zenon
  <1>7. PICK u \in Int : u = b + a + c
    OBVIOUS
  <1>8. m = u % M
    <2>1. PICK e \in Int, f \in Int : e = src + c /\ f = b + c
      OBVIOUS
    <2>2. (dest + e) % M = (b + e) % M /\ (src + f) % M = (a + f) % M
      <3>1. (dest + e) % M = ((dest % M) + e) % M
        BY RemainderOfSum, ZenonT(60)
      <3>2. (src + f) % M = ((src % M) + f) % M
        BY RemainderOfSum, ZenonT(60)
      <3>3. QED
        BY <1>4, <1>5, <3>1, <3>2, Zenon
    <2>3. x = dest + e /\ b + e = src + f /\ a + f = u
      BY <1>2, <1>7, <2>1
    <2>4. QED
      BY <1>3, <1>6, <2>2, <2>3, Zenon
  <1>9. m = IF u < M THEN u ELSE u - M
    <2>1. CASE u < M
      <3>1. u \in 0..(M - 1)
        BY <1>7, <2>1
      <3>2. QED
        BY <1>8, <2>1, <3>1, RemainderSmall
    <2>2. CASE u >= M
      <3>1. u \in M..(2 * M - 1)
        BY <1>7, <2>2
      <3>2. u % M = u - M
        BY <3>1, RemainderOver, Zenon
      <3>3. QED
        BY <1>8, <2>2, <3>2
    <2>3. QED
      BY <2>1, <2>2
  <1>10. set_CF_add(R, src, c, n) = Flag(u \notin 0..(M - 1))
    <2>1. /\ Extended(R, n) < Extended(src, n) <=> m < a
          /\ Extended(R, n) = Extended(src, n) <=> m = a
      BY <1>1, <1>4, <1>6, ExtendedOrder
    <2>2. (m < a \/ (c = 1 /\ m = a)) <=> u \notin 0..(M - 1)
      BY <1>7, <1>9
    <2>3. QED
      BY <2>1, <2>2 DEF set_CF_add
  <1>11. set_OF_add(R, src, dest, n) = Flag(sb + sa + c \notin (-H)..(H - 1))
    <2>1. sign(Extended(src, n)) = sign(Extended(dest, n)) <=> (sa < 0 <=> sb < 0)
      BY <1>4, <1>5, SignsAgree, ZenonT(60)
    <2>2. sign(Extended(R, n)) = sign(Extended(src, n)) <=> (sm < 0 <=> sa < 0)
      BY <1>4, <1>6, SignsAgree, ZenonT(60)
    <2>3. ((sa < 0 <=> sb < 0) /\ ~(sm < 0 <=> sa < 0)) <=> sb + sa + c \notin (-H)..(H - 1)
      BY <1>1, <1>4, <1>5, <1>6, <1>7, <1>9
    <2>4. QED
      BY <2>1, <2>2, <2>3 DEF set_OF_add
  <1>12. M \div 2 = H
    BY <1>1
  <1> DEFINE r == Result(R, n, set_CF_add(R, src, c, n), set_OF_add(R, src, dest, n))
  <1>13. /\ r.res = m /\ r.flags.CF = set_CF_add(R, src, c, n)
         /\ r.flags.OF = set_OF_add(R, src, dest, n)
         /\ r.flags.ZF = Flag(m = 0) /\ r.flags.SF = Flag(m >= M \div 2)
         /\ r.flags \in Flags /\ r = [res |-> r.res, flags |-> r.flags]
    <2>1. set_CF_add(R, src, c, n) \in {0, 1} /\ set_OF_add(R, src, dest, n) \in {0, 1}
      BY <1>10, <1>11, FlagIs
    <2>2. QED
      BY <1>1, <1>6, <2>1, ResultIs
  <1>14. alu_adc(src, dest, c, n) = r
    BY <1>2, <1>3 DEF alu_adc
  <1> HIDE DEF r
  <1>15. Tells(r, u, sb + sa + c, n)
    BY <1>1, <1>6, <1>8, <1>10, <1>11, <1>12, <1>13, Zenon DEF Tells
  <1>16. QED
    BY <1>1, <1>4, <1>5, <1>7, <1>14, <1>15, Zenon

LEMMA DifferenceTells ==
    ASSUME NEW n \in Nat \ {0, 1}, n <= W, NEW src \in Int, NEW dest \in Int, NEW c \in {0, 1}
    PROVE  Tells(alu_sbb(src, dest, c, n), (dest % 2^n) - (src % 2^n) - c,
                 Signed(dest, n) - Signed(src, n) - c, n)
  <1>1. PICK H \in Nat \ {0}, M \in Nat \ {0} : H = 2^(n - 1) /\ M = 2^n /\ M = 2 * H
    BY Halves
  <1>2. PICK x \in Int : x = dest - (src + c)
    OBVIOUS
  <1>3. PICK R \in Int : R = x % 2^W /\ R % M = x % M
    BY <1>1, MaskedIs
  <1>4. PICK a \in 0..(M - 1), sa \in (-H)..(H - 1) :
            a = src % M /\ sa = Signed(src, n) /\ sa = IF a >= H THEN a - M ELSE a
    <2>1. /\ src % M \in 0..(M - 1) /\ Signed(src, n) \in (-H)..(H - 1)
          /\ Signed(src, n) = IF src % M >= H THEN (src % M) - M ELSE src % M
      BY <1>1, Parts
    <2>2. QED
      BY <2>1, Zenon
  <1>5. PICK b \in 0..(M - 1), sb \in (-H)..(H - 1) :
            b = dest % M /\ sb = Signed(dest, n) /\ sb = IF b >= H THEN b - M ELSE b
    <2>1. /\ dest % M \in 0..(M - 1) /\ Signed(dest, n) \in (-H)..(H - 1)
          /\ Signed(dest, n) = IF dest % M >= H THEN (dest % M) - M ELSE dest % M
      BY <1>1, Parts
    <2>2. QED
      BY <2>1, Zenon
  <1>6. PICK m \in 0..(M - 1), sm \in (-H)..(H - 1) :
            m = R % M /\ sm = Signed(R, n) /\ sm = IF m >= H THEN m - M ELSE m
    <2>1. /\ R % M \in 0..(M - 1) /\ Signed(R, n) \in (-H)..(H - 1)
          /\ Signed(R, n) = IF R % M >= H THEN (R % M) - M ELSE R % M
      BY <1>1, Parts
    <2>2. QED
      BY <2>1, Zenon
  <1>7. PICK u \in Int : u = b - a - c
    OBVIOUS
  <1>8. m = u % M
    <2>1. PICK e \in Int, f \in Int : e = src + c /\ f = b - c
      OBVIOUS
    <2>2. (dest - e) % M = (b - e) % M /\ (f - src) % M = (f - a) % M
      BY <1>4, <1>5, RemainderOfSum, ZenonT(60)
    <2>3. x = dest - e /\ b - e = f - src /\ f - a = u
      BY <1>2, <1>7, <2>1
    <2>4. QED
      BY <1>3, <1>6, <2>2, <2>3, Zenon
  <1>9. m = IF u >= 0 THEN u ELSE u + M
    <2>1. CASE u >= 0
      <3>1. u \in 0..(M - 1)
        BY <1>7, <2>1
      <3>2. QED
        BY <1>8, <2>1, <3>1, RemainderSmall
    <2>2. CASE u < 0
      <3>1. u \in (-M)..(-1)
        BY <1>7, <2>2
      <3>2. u % M = u + M
        BY <3>1, RemainderUnder, Zenon
      <3>3. QED
        BY <1>8, <2>2, <3>2
    <2>3. QED
      BY <2>1, <2>2
  <1>10. set_CF_sub(R, dest, c, n) = Flag(u \notin 0..(M - 1))
    <2>1. /\ Extended(dest, n) < Extended(R, n) <=> b < m
          /\ Extended(R, n) = Extended(dest, n) <=> m = b
      BY <1>1, <1>5, <1>6, ExtendedOrder
    <2>2. (b < m \/ (c = 1 /\ m = b)) <=> u \notin 0..(M - 1)
      BY <1>7, <1>9
    <2>3. Extended(R, n) > Extended(dest, n) <=> Extended(dest, n) < Extended(R, n)
      BY ExtendedIs DEF Register
    <2>4. QED
      BY <2>1, <2>2, <2>3 DEF set_CF_sub
  <1>11. set_OF_sub(R, src, dest, n) = Flag(sb - sa - c \notin (-H)..(H - 1))
    <2>1. sign(Extended(src, n)) = sign(Extended(dest, n)) <=> (sa < 0 <=> sb < 0)
      BY <1>4, <1>5, SignsAgree, ZenonT(60)
    <2>2. sign(Extended(R, n)) = sign(Extended(src, n)) <=> (sm < 0 <=> sa < 0)
      BY <1>4, <1>6, SignsAgree, ZenonT(60)
    <2>3. (~(sa < 0 <=> sb < 0) /\ (sm < 0 <=> sa < 0)) <=> sb - sa - c \notin (-H)..(H - 1)
      BY <1>1, <1>4, <1>5, <1>6, <1>7, <1>9
    <2>4. QED
      BY <2>1, <2>2, <2>3 DEF set_OF_sub
  <1>12. M \div 2 = H
    BY <1>1
  <1> DEFINE r == Result(R, n, set_CF_sub(R, dest, c, n), set_OF_sub(R, src, dest, n))
  <1>13. /\ r.res = m /\ r.flags.CF = set_CF_sub(R, dest, c, n)
         /\ r.flags.OF = set_OF_sub(R, src, dest, n)
         /\ r.flags.ZF = Flag(m = 0) /\ r.flags.SF = Flag(m >= M \div 2)
         /\ r.flags \in Flags /\ r = [res |-> r.res, flags |-> r.flags]
    <2>1. set_CF_sub(R, dest, c, n) \in {0, 1} /\ set_OF_sub(R, src, dest, n) \in {0, 1}
      BY <1>10, <1>11, FlagIs
    <2>2. QED
      BY <1>1, <1>6, <2>1, ResultIs
  <1>14. alu_sbb(src, dest, c, n) = r
    BY <1>2, <1>3 DEF alu_sbb
  <1> HIDE DEF r
  <1>15. Tells(r, u, sb - sa - c, n)
    BY <1>1, <1>6, <1>8, <1>10, <1>11, <1>12, <1>13, Zenon DEF Tells
  <1>16. QED
    BY <1>1, <1>4, <1>5, <1>7, <1>14, <1>15, Zenon

-----------------------------------------------------------------------------
\* Bit by bit.

\* A bit is in the bits up to it.
LEMMA BitOf ==
    ASSUME NEW i \in Nat, NEW x \in Int, NEW y \in Int, x % 2^(i + 1) = y % 2^(i + 1)
    PROVE  Bit(x, i) = Bit(y, i)
  <1>1. i + 1 \in Nat \ {0} /\ (i + 1) - 1 = i
    OBVIOUS
  <1>2. PICK n \in Nat \ {0} : n = i + 1 /\ n - 1 = i
    BY <1>1
  <1>3. Bit(x, n - 1) = (IF x % 2^n >= 2^(n - 1) THEN 1 ELSE 0)
    BY TopBit
  <1>4. Bit(y, n - 1) = (IF y % 2^n >= 2^(n - 1) THEN 1 ELSE 0)
    BY TopBit
  <1>5. QED
    BY <1>2, <1>3, <1>4, Zenon

\* Any bits are those of a number.
LEMMA NumberOfBits ==
    ASSUME NEW f \in [Nat -> {0, 1}], NEW k \in Nat
    PROVE  \E r \in 0..(2^k - 1) : \A i \in 0..(k - 1) : Bit(r, i) = f[i]
  <1> DEFINE P(j) == \E r \in 0..(2^j - 1) : \A i \in 0..(j - 1) : Bit(r, i) = f[i]
             S == {j \in Nat : ~P(j)}
  <1>1. CASE S # {}
    <2>1. PICK n \in S : \A j \in S : n <= j
      BY <1>1, Least, Zenon
    <2>2. P(0)
      <3>1. 0 \in 0..(2^0 - 1) /\ 0..(0 - 1) = {}
        OBVIOUS
      <3>2. QED
        BY <3>1
    <2>3. PICK j \in Nat : n = j + 1
      <3>1. n \in Nat /\ n # 0
        BY <2>1, <2>2
      <3>2. n - 1 \in Nat /\ n = (n - 1) + 1
        BY <3>1
      <3>3. QED
        BY <3>2
    <2>4. P(j)
      <3>1. j \notin S
        BY <2>1, <2>3
      <3>2. QED
        BY <3>1, Zenon
    <2>5. PICK r \in 0..(2^j - 1) : \A i \in 0..(j - 1) : Bit(r, i) = f[i]
      BY <2>4
    <2>6. PICK H \in Nat \ {0}, M \in Nat \ {0} : H = 2^j /\ M = 2^n /\ M = 2 * H
      <3>1. 2^j \in Nat \ {0} /\ 2^n \in Nat \ {0}
        BY <2>3, PowerIs, Zenon
      <3>2. 2^n = 2 * 2^j
        BY <2>3, PowerNext, Zenon
      <3>3. QED
        BY <3>1, <3>2, Zenon
    <2>7. PICK b \in {0, 1} : b = f[j]
      OBVIOUS
    <2>8. PICK x \in 0..(M - 1) : x = r + H * b /\ (x >= H <=> b = 1)
      <3>1. r \in 0..(H - 1)
        BY <2>6
      <3>2. CASE b = 0
        <4>1. H * 0 = 0
          OBVIOUS
        <4>2. r + H * b = r /\ r \in 0..(M - 1)
          BY <2>6, <3>1, <3>2, <4>1
        <4>3. QED
          BY <3>1, <3>2, <4>2
      <3>3. CASE b = 1
        <4>1. H * 1 = H
          OBVIOUS
        <4>2. r + H * b = r + H /\ r + H \in 0..(M - 1) /\ r + H >= H
          BY <2>6, <3>1, <3>3, <4>1
        <4>3. QED
          BY <3>3, <4>2
      <3>4. QED
        BY <3>2, <3>3
    <2>9. ASSUME NEW i \in 0..(n - 1)
          PROVE  Bit(x, i) = f[i]
      <3>1. CASE i = j
        <4>1. n \in Nat \ {0} /\ n - 1 = j
          BY <2>3
        <4>2. Bit(x, n - 1) = IF x % 2^n >= 2^(n - 1) THEN 1 ELSE 0
          BY <4>1, TopBit
        <4>3. x % M = x
          BY RemainderSmall
        <4>4. Bit(x, j) = IF x >= H THEN 1 ELSE 0
          BY <2>6, <4>1, <4>2, <4>3, Zenon
        <4>5. QED
          BY <2>7, <2>8, <3>1, <4>4
      <3>2. CASE i # j
        <4>1. i \in Nat /\ i \in 0..(j - 1) /\ i + 1 \in Nat /\ i + 1 <= j
          BY <2>3, <3>2
        <4>2. PICK D \in Nat \ {0} : D = 2^(i + 1)
          BY <4>1, PowerIs
        <4>3. PICK e \in Nat : H = D * e
          <5>1. \E e \in Nat \ {0} : 2^j = 2^(i + 1) * e
            BY <4>1, PowerDivides, Zenon
          <5>2. QED
            BY <2>6, <4>2, <5>1
        <4>4. x = r + D * (e * b)
          <5>1. (D * e) * b = D * (e * b)
            OBVIOUS
          <5>2. QED
            BY <2>8, <4>3, <5>1, Zenon
        <4>5. x % D = r % D
          <5>1. e * b \in Int /\ x \in Int /\ r \in Int
            BY <2>6
          <5>2. \E q \in Int : x = r + D * q
            BY <4>4, <5>1, Zenon
          <5>3. QED
            BY <5>1, <5>2, RemainderSame, Zenon
        <4>6. Bit(x, i) = Bit(r, i)
          <5>1. x \in Int /\ r \in Int
            BY <2>6
          <5>2. QED
            BY <4>1, <4>2, <4>5, <5>1, BitOf, Zenon
        <4>7. QED
          BY <2>5, <4>1, <4>6
      <3>3. QED
        BY <3>1, <3>2
    <2>10. P(n)
      BY <2>6, <2>9, Zenon
    <2>11. QED
      BY <2>1, <2>10
  <1>2. CASE S = {}
    BY <1>2
  <1>3. QED
    BY <1>1, <1>2

-----------------------------------------------------------------------------
\* Instructions.

LEMMA OperandsFit ==
    ASSUME NEW n \in Sizes
    PROVE  /\ n \in Nat \ {0, 1} /\ n <= W /\ Operands(n) \subseteq Register
           /\ Operands(n) \subseteq Operands(2 * n) /\ Operands(n) \subseteq Nat
           /\ Operands(2 * n) \subseteq Nat
  <1>1. n \in Nat \ {0, 1} /\ n <= W /\ W \in Nat /\ 2 * n \in Nat /\ n <= 2 * n
    BY WidthIs
  <1>2. PICK M \in Nat \ {0}, V \in Nat \ {0}, D \in Nat \ {0} : M = 2^n /\ V = 2^W /\ D = 2^(2 * n)
    <2>1. 2^n \in Nat \ {0} /\ 2^W \in Nat \ {0} /\ 2^(2 * n) \in Nat \ {0}
      BY <1>1, PowerIs, Zenon
    <2>2. QED
      BY <2>1, Zenon
  <1>3. M <= V /\ M <= D
    <2>1. 2^n <= 2^W /\ 2^n <= 2^(2 * n)
      BY <1>1, PowerOrder, Zenon
    <2>2. QED
      BY <1>2, <2>1, Zenon
  <1>4. 0..(M - 1) \subseteq 0..(V - 1) /\ 0..(M - 1) \subseteq 0..(D - 1)
    BY <1>3
  <1>5. 0..(M - 1) \subseteq Nat /\ 0..(D - 1) \subseteq Nat
    OBVIOUS
  <1>6. QED
    BY <1>1, <1>2, <1>4, <1>5, Zenon DEF Operands, Register

Ops == Unary \cup Shifts \cup Binary \cup Products \cup Divisions \cup {"test"}

LEMMA SourcesFit ==
    ASSUME NEW n \in Sizes, NEW op \in Ops
    PROVE  Sources(op, n) \subseteq Register /\ Register \subseteq Nat
  <1>1. Operands(n) \subseteq Register /\ Operands(BYTE) \subseteq Register
    BY OperandsFit, WidthIs
  <1>2. PICK V \in Nat \ {0} : V = 2^W
    BY PowerIs, WidthIs
  <1>3. 0 \in Register /\ Register \subseteq Nat
    BY <1>2 DEF Register
  <1>4. Immediates(n) \subseteq Register
    <2>1. BYTE \in Nat \ {0, 1} /\ BYTE <= W
      BY WidthIs
    <2>2. PICK B \in Nat \ {0} : B = 2^BYTE
      BY <2>1, PowerIs
    <2>3. ASSUME NEW b \in Operands(BYTE)
          PROVE  sign_ext(b, BYTE) \in Register
      <3>1. b \in 0..(B - 1)
        BY <2>2 DEF Operands
      <3>2. b % B = b
        BY <3>1, RemainderSmall
      <3>3. Extended(b, BYTE) \in Register
        BY <2>1, <3>1, ExtendedIs
      <3>4. QED
        BY <2>2, <3>2, <3>3 DEF Extended, Masked
    <2>4. QED
      BY <2>3 DEF Immediates
  <1>5. Sources(op, n) \in {{0}, Operands(BYTE), Operands(n), Operands(n) \cup Immediates(n)}
    BY DEF Sources, Ops
  <1>6. QED
    BY <1>1, <1>3, <1>4, <1>5

\* What an instruction is.
LEMMA ExecuteIs ==
    ASSUME Execute
    PROVE  \E op \in Ops, n \in Sizes, src \in Register, dest \in Nat :
            LET r == Executed(op, n, src, dest, eflags.CF, eflags) IN
            /\ n \in Nat \ {0, 1} /\ n <= W /\ src \in Int
            /\ dest \in Operands(IF op \in Divisions THEN 2 * n ELSE n)
            /\ dest \in Operands(2 * n)
            /\ op \in {"test"} \cup Products \cup Divisions => src \in Operands(n)
            /\ op \in Shifts => src \in Operands(BYTE)
            /\ Divisible(op, n, src, dest)
            /\ done' = [op |-> op, n |-> n, src |-> src, dest |-> dest,
                        carry |-> eflags.CF, res |-> r.res]
            /\ eflags' = r.flags
  <1>1. PICK op, n, src, dest :
            LET r == Executed(op, n, src, dest, eflags.CF, eflags) IN
            /\ op \in Ops
            /\ n \in SizesOf(op) /\ src \in Sources(op, n) /\ dest \in Destinations(op, n)
            /\ Divisible(op, n, src, dest)
            /\ done' = [op |-> op, n |-> n, src |-> src, dest |-> dest,
                        carry |-> eflags.CF, res |-> r.res]
            /\ eflags' = r.flags
    BY Zenon DEF Execute, Ops
  <1>2. n \in Sizes
    BY <1>1 DEF SizesOf
  <1>3. src \in Register /\ src \in Int
    BY <1>1, <1>2, SourcesFit
  <1>4. /\ dest \in Operands(IF op \in Divisions THEN 2 * n ELSE n)
        /\ dest \in Operands(2 * n) /\ dest \in Nat
    BY <1>1, <1>2, OperandsFit DEF Destinations
  <1>5. /\ op \in {"test"} \cup Products \cup Divisions => src \in Operands(n)
        /\ op \in Shifts => src \in Operands(BYTE)
    BY <1>1 DEF Sources, Unary, Shifts, Binary, Products, Divisions
  <1>6. n \in Nat \ {0, 1} /\ n <= W
    BY <1>2, WidthIs
  <1>7. QED
    BY <1>1, <1>2, <1>3, <1>4, <1>5, <1>6, Zenon

LEMMA KeepCarryIs ==
    ASSUME NEW r, r = [res |-> r.res, flags |-> r.flags], r.flags \in Flags, NEW c \in {0, 1}
    PROVE  LET k == KeepCarry(r, c) IN
           /\ k.res = r.res /\ k.flags \in Flags /\ k.flags.CF = c
           /\ k.flags.OF = r.flags.OF /\ k.flags.ZF = r.flags.ZF /\ k.flags.SF = r.flags.SF
  BY DEF KeepCarry, Flags

LEMMA ExecutedIs ==
    ASSUME NEW n, NEW src, NEW dest, NEW c, NEW f
    PROVE  /\ Executed("add", n, src, dest, c, f) = alu_adc(src, dest, 0, n)
           /\ Executed("adc", n, src, dest, c, f) = alu_adc(src, dest, c, n)
           /\ Executed("inc", n, src, dest, c, f) = KeepCarry(alu_adc(1, dest, 0, n), c)
           /\ Executed("sub", n, src, dest, c, f) = alu_sbb(src, dest, 0, n)
           /\ Executed("cmp", n, src, dest, c, f) = alu_sbb(src, dest, 0, n)
           /\ Executed("sbb", n, src, dest, c, f) = alu_sbb(src, dest, c, n)
           /\ Executed("neg", n, src, dest, c, f) = alu_sbb(dest, 0, 0, n)
           /\ Executed("dec", n, src, dest, c, f) = KeepCarry(alu_sbb(1, dest, 0, n), c)
           /\ \A op \in {"and", "or", "xor"} :
                Executed(op, n, src, dest, c, f) = alu_logic(op, src, dest, n)
           /\ Executed("test", n, src, dest, c, f) = alu_logic("and", src, dest, n)
           /\ Executed("mul", n, src, dest, c, f) = alu_mul(src, dest, n)
           /\ Executed("imul", n, src, dest, c, f) = alu_imul(src, dest, n)
           /\ Executed("div", n, src, dest, c, f) = Division(dest, src, n, f)
           /\ Executed("idiv", n, src, dest, c, f) =
                Division(Signed(dest, 2 * n), Signed(src, n), n, f)
           /\ Executed("shl", n, src, dest, c, f) = alu_shl(src, dest, n)
           /\ Executed("shr", n, src, dest, c, f) = alu_shr(src, dest, n)
           /\ Executed("sar", n, src, dest, c, f) = alu_sar(src, dest, n)
  <1>1. /\ Executed("add", n, src, dest, c, f) = alu_adc(src, dest, 0, n)
        /\ Executed("adc", n, src, dest, c, f) = alu_adc(src, dest, c, n)
        /\ Executed("inc", n, src, dest, c, f) = KeepCarry(alu_adc(1, dest, 0, n), c)
        /\ Executed("sub", n, src, dest, c, f) = alu_sbb(src, dest, 0, n)
        /\ Executed("cmp", n, src, dest, c, f) = alu_sbb(src, dest, 0, n)
        /\ Executed("sbb", n, src, dest, c, f) = alu_sbb(src, dest, c, n)
        /\ Executed("neg", n, src, dest, c, f) = alu_sbb(dest, 0, 0, n)
        /\ Executed("dec", n, src, dest, c, f) = KeepCarry(alu_sbb(1, dest, 0, n), c)
    BY DEF Executed
  <1>2. /\ \A op \in {"and", "or", "xor"} :
                Executed(op, n, src, dest, c, f) = alu_logic(op, src, dest, n)
        /\ Executed("test", n, src, dest, c, f) = alu_logic("and", src, dest, n)
    BY DEF Executed
  <1>3. /\ Executed("mul", n, src, dest, c, f) = alu_mul(src, dest, n)
        /\ Executed("imul", n, src, dest, c, f) = alu_imul(src, dest, n)
        /\ Executed("div", n, src, dest, c, f) = Division(dest, src, n, f)
        /\ Executed("idiv", n, src, dest, c, f) =
                Division(Signed(dest, 2 * n), Signed(src, n), n, f)
    BY DEF Executed
  <1>4. /\ Executed("shl", n, src, dest, c, f) = alu_shl(src, dest, n)
        /\ Executed("shr", n, src, dest, c, f) = alu_shr(src, dest, n)
        /\ Executed("sar", n, src, dest, c, f) = alu_sar(src, dest, n)
    BY DEF Executed
  <1>5. QED
    BY <1>1, <1>2, <1>3, <1>4

\* 0 and 1 as operands.
LEMMA SmallOperands ==
    ASSUME NEW n \in Nat \ {0, 1}, n <= W
    PROVE  0 % 2^n = 0 /\ 1 % 2^n = 1 /\ Signed(0, n) = 0 /\ Signed(1, n) = 1
  <1>1. PICK H \in Nat \ {0}, M \in Nat \ {0} : H = 2^(n - 1) /\ M = 2^n /\ M = 2 * H
    BY Halves
  <1>2. H > 1
    <2>1. PICK m \in Nat \ {0} : m = n - 1
      OBVIOUS
    <2>2. 2^m = 2 * 2^(m - 1) /\ 2^(m - 1) \in Nat \ {0}
      BY Halves
    <2>3. QED
      BY <1>1, <2>1, <2>2
  <1>3. 0 % M = 0 /\ 1 % M = 1
    <2>1. 0 \in 0..(M - 1) /\ 1 \in 0..(M - 1)
      BY <1>1, <1>2
    <2>2. QED
      BY <2>1, RemainderSmall, Zenon
  <1>4. Signed(0, n) = IF 0 % 2^n >= 2^(n - 1) THEN (0 % 2^n) - 2^n ELSE 0 % 2^n
    BY ExtendedIs
  <1>5. Signed(1, n) = IF 1 % 2^n >= 2^(n - 1) THEN (1 % 2^n) - 2^n ELSE 1 % 2^n
    BY ExtendedIs
  <1>6. QED
    BY <1>1, <1>2, <1>3, <1>4, <1>5

\* A sum of any kind.
LEMMA SumStep ==
    ASSUME Execute, eflags \in Flags
    PROVE  SumsAreExact' /\ (done'.op \in {"add", "adc", "inc", "sub", "cmp", "sbb", "dec", "neg"} =>
                                eflags' \in Flags /\ done'.res \in Operands(done'.n))
  <1>1. PICK op \in Ops, n \in Sizes, src \in Register, dest \in Nat :
            LET r == Executed(op, n, src, dest, eflags.CF, eflags) IN
            /\ n \in Nat \ {0, 1} /\ n <= W /\ src \in Int
            /\ done' = [op |-> op, n |-> n, src |-> src, dest |-> dest,
                        carry |-> eflags.CF, res |-> r.res]
            /\ eflags' = r.flags
    BY ExecuteIs
  <1>2. PICK c \in {0, 1} : c = eflags.CF
    BY DEF Flags
  <1> DEFINE r == Executed(op, n, src, dest, c, eflags)
  <1>3. /\ done'.op = op /\ done'.n = n /\ done'.src = src /\ done'.dest = dest
        /\ done'.carry = c /\ done'.res = r.res /\ eflags' = r.flags
    BY <1>1, <1>2
  <1> HIDE DEF r
  <1>4. /\ n \in Nat \ {0, 1} /\ n <= W /\ src \in Int /\ dest \in Int
        /\ 0 \in Int /\ 1 \in Int /\ 0 \in {0, 1}
    BY <1>1
  <1> DEFINE d == Number(dest, n)
             s == Number(src, n)
  <1>5. d = [u |-> dest % 2^n, s |-> Signed(dest, n)] /\ s = [u |-> src % 2^n, s |-> Signed(src, n)]
    BY DEF Number, Masked
  <1> HIDE DEF d, s
  <1>6. ASSUME NEW u, NEW v, Tells(r, u, v, n), Exact' = [u |-> u, s |-> v], op \notin {"inc", "dec"}
        PROVE  SumsAreExact' /\ eflags' \in Flags /\ done'.res \in Operands(n)
    BY <1>3, <1>6 DEF Tells, SumsAreExact, Operands
  <1>7. ASSUME NEW u, NEW v, NEW t, Tells(t, u, v, n), r = KeepCarry(t, c),
               Exact' = [u |-> u, s |-> v], op \in {"inc", "dec"}
        PROVE  SumsAreExact' /\ eflags' \in Flags /\ done'.res \in Operands(n)
    <2>1. /\ r.res = t.res /\ r.flags \in Flags /\ r.flags.CF = c
          /\ r.flags.OF = t.flags.OF /\ r.flags.ZF = t.flags.ZF /\ r.flags.SF = t.flags.SF
      BY <1>7, KeepCarryIs DEF Tells
    <2>2. QED
      BY <1>3, <1>7, <2>1 DEF Tells, SumsAreExact, Operands
  <1>8. CASE op = "add"
    <2>1. r = alu_adc(src, dest, 0, n)
      BY <1>2, <1>8, ExecutedIs DEF r
    <2>2. Exact' = [u |-> (dest % 2^n) + (src % 2^n) + 0, s |-> Signed(dest, n) + Signed(src, n) + 0]
      BY <1>3, <1>5, <1>8 DEF Exact, Sum, d, s
    <2>3. Tells(alu_adc(src, dest, 0, n),
                (dest % 2^n) + (src % 2^n) + 0,
                Signed(dest, n) + Signed(src, n) + 0, n)
      BY <1>4, SumTells, Zenon
    <2>4. op \notin {"inc", "dec"}
      BY <1>8
    <2>5. QED
      BY <1>3, <1>6, <2>1, <2>2, <2>3, <2>4, Zenon
  <1>9. CASE op = "adc"
    <2>1. r = alu_adc(src, dest, c, n)
      BY <1>2, <1>9, ExecutedIs DEF r
    <2>2. Exact' = [u |-> (dest % 2^n) + (src % 2^n) + c, s |-> Signed(dest, n) + Signed(src, n) + c]
      BY <1>3, <1>5, <1>9 DEF Exact, Sum, d, s
    <2>3. Tells(alu_adc(src, dest, c, n),
                (dest % 2^n) + (src % 2^n) + c,
                Signed(dest, n) + Signed(src, n) + c, n)
      BY <1>4, SumTells, Zenon
    <2>4. op \notin {"inc", "dec"}
      BY <1>9
    <2>5. QED
      BY <1>3, <1>6, <2>1, <2>2, <2>3, <2>4, Zenon
  <1>10. CASE op = "inc"
    <2>1. r = KeepCarry(alu_adc(1, dest, 0, n), c)
      BY <1>2, <1>10, ExecutedIs DEF r
    <2>2. Exact' = [u |-> (dest % 2^n) + 1 + 0, s |-> Signed(dest, n) + 1 + 0]
      BY <1>3, <1>5, <1>10 DEF Exact, Sum, d, s
    <2>3. Tells(alu_adc(1, dest, 0, n),
                (dest % 2^n) + 1 + 0,
                Signed(dest, n) + 1 + 0, n)
      <3>1. Tells(alu_adc(1, dest, 0, n),
                  (dest % 2^n) + (1 % 2^n) + 0,
                  Signed(dest, n) + Signed(1, n) + 0, n)
        BY <1>4, SumTells, Zenon
      <3>2. QED
        BY <1>4, <3>1, SmallOperands, Zenon
    <2>4. op \in {"inc", "dec"}
      BY <1>10
    <2>5. QED
      BY <1>3, <1>7, <2>1, <2>2, <2>3, <2>4, Zenon
  <1>11. CASE op = "sub"
    <2>1. r = alu_sbb(src, dest, 0, n)
      BY <1>2, <1>11, ExecutedIs DEF r
    <2>2. Exact' = [u |-> (dest % 2^n) - (src % 2^n) - 0, s |-> Signed(dest, n) - Signed(src, n) - 0]
      BY <1>3, <1>5, <1>11 DEF Exact, Difference, d, s
    <2>3. Tells(alu_sbb(src, dest, 0, n),
                (dest % 2^n) - (src % 2^n) - 0,
                Signed(dest, n) - Signed(src, n) - 0, n)
      BY <1>4, DifferenceTells, Zenon
    <2>4. op \notin {"inc", "dec"}
      BY <1>11
    <2>5. QED
      BY <1>3, <1>6, <2>1, <2>2, <2>3, <2>4, Zenon
  <1>12. CASE op = "cmp"
    <2>1. r = alu_sbb(src, dest, 0, n)
      BY <1>2, <1>12, ExecutedIs DEF r
    <2>2. Exact' = [u |-> (dest % 2^n) - (src % 2^n) - 0, s |-> Signed(dest, n) - Signed(src, n) - 0]
      BY <1>3, <1>5, <1>12 DEF Exact, Difference, d, s
    <2>3. Tells(alu_sbb(src, dest, 0, n),
                (dest % 2^n) - (src % 2^n) - 0,
                Signed(dest, n) - Signed(src, n) - 0, n)
      BY <1>4, DifferenceTells, Zenon
    <2>4. op \notin {"inc", "dec"}
      BY <1>12
    <2>5. QED
      BY <1>3, <1>6, <2>1, <2>2, <2>3, <2>4, Zenon
  <1>13. CASE op = "sbb"
    <2>1. r = alu_sbb(src, dest, c, n)
      BY <1>2, <1>13, ExecutedIs DEF r
    <2>2. Exact' = [u |-> (dest % 2^n) - (src % 2^n) - c, s |-> Signed(dest, n) - Signed(src, n) - c]
      BY <1>3, <1>5, <1>13 DEF Exact, Difference, d, s
    <2>3. Tells(alu_sbb(src, dest, c, n),
                (dest % 2^n) - (src % 2^n) - c,
                Signed(dest, n) - Signed(src, n) - c, n)
      BY <1>4, DifferenceTells, Zenon
    <2>4. op \notin {"inc", "dec"}
      BY <1>13
    <2>5. QED
      BY <1>3, <1>6, <2>1, <2>2, <2>3, <2>4, Zenon
  <1>14. CASE op = "dec"
    <2>1. r = KeepCarry(alu_sbb(1, dest, 0, n), c)
      BY <1>2, <1>14, ExecutedIs DEF r
    <2>2. Exact' = [u |-> (dest % 2^n) - 1 - 0, s |-> Signed(dest, n) - 1 - 0]
      BY <1>3, <1>5, <1>14 DEF Exact, Difference, d, s
    <2>3. Tells(alu_sbb(1, dest, 0, n),
                (dest % 2^n) - 1 - 0,
                Signed(dest, n) - 1 - 0, n)
      <3>1. Tells(alu_sbb(1, dest, 0, n),
                  (dest % 2^n) - (1 % 2^n) - 0,
                  Signed(dest, n) - Signed(1, n) - 0, n)
        BY <1>4, DifferenceTells, Zenon
      <3>2. QED
        BY <1>4, <3>1, SmallOperands, Zenon
    <2>4. op \in {"inc", "dec"}
      BY <1>14
    <2>5. QED
      BY <1>3, <1>7, <2>1, <2>2, <2>3, <2>4, Zenon
  <1>15. CASE op = "neg"
    <2>1. r = alu_sbb(dest, 0, 0, n)
      BY <1>2, <1>15, ExecutedIs DEF r
    <2>2. Exact' = [u |-> 0 - (dest % 2^n) - 0, s |-> 0 - Signed(dest, n) - 0]
      BY <1>3, <1>5, <1>15 DEF Exact, Difference, d, s
    <2>3. Tells(alu_sbb(dest, 0, 0, n),
                0 - (dest % 2^n) - 0,
                0 - Signed(dest, n) - 0, n)
      <3>1. Tells(alu_sbb(dest, 0, 0, n),
                  (0 % 2^n) - (dest % 2^n) - 0,
                  Signed(0, n) - Signed(dest, n) - 0, n)
        BY <1>4, DifferenceTells, Zenon
      <3>2. QED
        BY <1>4, <3>1, SmallOperands, Zenon
    <2>4. op \notin {"inc", "dec"}
      BY <1>15
    <2>5. QED
      BY <1>3, <1>6, <2>1, <2>2, <2>3, <2>4, Zenon
  <1>16. CASE op \notin {"add", "adc", "inc", "sub", "cmp", "sbb", "dec", "neg"}
    BY <1>3, <1>16 DEF SumsAreExact
  <1>17. done'.res \in Operands(done'.n) <=> done'.res \in Operands(n)
    BY <1>3
  <1>18. QED
    BY <1>3, <1>8, <1>9, <1>10, <1>11, <1>12, <1>13, <1>14, <1>15, <1>16, <1>17

-----------------------------------------------------------------------------
\* What a comparison leaves is what the conditions read.

LEMMA Conditions ==
    ASSUME SumsAreExact, eflags \in Flags, done.n \in Sizes \cup {W},
           done.src \in Int, done.dest \in Int
    PROVE  ConditionsTell
  <1> SUFFICES ASSUME done.op = "cmp", NEW cc \in CCs
               PROVE  condition(cc) = Says(cc, Number(done.dest, done.n), Number(done.src, done.n))
    BY DEF ConditionsTell
  <1>1. PICK n \in Nat \ {0, 1} : n = done.n /\ n <= W
    BY WidthIs
  <1>2. PICK H \in Nat \ {0}, M \in Nat \ {0} : H = 2^(n - 1) /\ M = 2^n /\ M = 2 * H
    BY Halves
  <1>3. PICK x \in Int, y \in Int : x = done.src /\ y = done.dest
    OBVIOUS
  <1>4. PICK a \in 0..(M - 1), sa \in (-H)..(H - 1) :
            a = x % M /\ sa = Signed(x, n) /\ sa = IF a >= H THEN a - M ELSE a
    <2>1. /\ x % M \in 0..(M - 1) /\ Signed(x, n) \in (-H)..(H - 1)
          /\ Signed(x, n) = IF x % M >= H THEN (x % M) - M ELSE x % M
      BY <1>1, <1>2, Parts
    <2>2. QED
      BY <2>1, Zenon
  <1>5. PICK b \in 0..(M - 1), sb \in (-H)..(H - 1) :
            b = y % M /\ sb = Signed(y, n) /\ sb = IF b >= H THEN b - M ELSE b
    <2>1. /\ y % M \in 0..(M - 1) /\ Signed(y, n) \in (-H)..(H - 1)
          /\ Signed(y, n) = IF y % M >= H THEN (y % M) - M ELSE y % M
      BY <1>1, <1>2, Parts
    <2>2. QED
      BY <2>1, Zenon
  <1>6. Number(done.dest, done.n) = [u |-> b, s |-> sb] /\ Number(done.src, done.n) = [u |-> a, s |-> sa]
    BY <1>1, <1>2, <1>3, <1>4, <1>5 DEF Number, Masked
  <1>7. Exact = [u |-> b - a - 0, s |-> sb - sa - 0]
    BY <1>6 DEF Exact, Difference
  <1>8. Exact.u = b - a /\ Exact.s = sb - sa /\ M \div 2 = H
    BY <1>2, <1>7
  <1>9. /\ eflags.CF = Flag(b - a \notin 0..(M - 1))
        /\ eflags.OF = Flag(sb - sa \notin (-H)..(H - 1))
        /\ eflags.ZF = Flag((b - a) % M = 0)
        /\ eflags.SF = Flag((b - a) % M >= H)
    BY <1>1, <1>2, <1>8 DEF SumsAreExact
  <1>10. /\ eflags.CF = Flag(b < a) /\ eflags.ZF = Flag(b = a)
         /\ eflags.SF = eflags.OF <=> ~(sb < sa)
    <2>1. PICK m \in Int : m = (b - a) % M /\ m = IF b - a >= 0 THEN b - a ELSE b - a + M
      <3>1. PICK u \in Int : u = b - a
        OBVIOUS
      <3>2. u % M = IF u >= 0 THEN u ELSE u + M
        <4>1. CASE u >= 0
          <5>1. u \in 0..(M - 1)
            BY <3>1, <4>1
          <5>2. QED
            BY <4>1, <5>1, RemainderSmall
        <4>2. CASE u < 0
          <5>1. u \in (-M)..(-1)
            BY <3>1, <4>2
          <5>2. u % M = u + M
            BY <5>1, RemainderUnder, Zenon
          <5>3. QED
            BY <4>2, <5>2
        <4>3. QED
          BY <4>1, <4>2
      <3>3. QED
        BY <3>1, <3>2
    <2>2. /\ b - a \notin 0..(M - 1) <=> b < a
          /\ m = 0 <=> b = a
          /\ (m >= H <=> sb - sa \in (-H)..(H - 1)) <=> sb < sa
      BY <1>2, <1>4, <1>5, <2>1
    <2>3. QED
      BY <1>9, <2>1, <2>2 DEF Flag
  <1>11. /\ (eflags.CF = 0 <=> ~(b < a)) /\ (eflags.CF = 1 <=> b < a)
         /\ (eflags.ZF = 0 <=> b # a) /\ (eflags.ZF = 1 <=> b = a)
    BY <1>10 DEF Flag
  <1>12. sb = sa <=> b = a
    BY <1>2, <1>4, <1>5
  <1>13. QED
    BY <1>6, <1>10, <1>11, <1>12 DEF condition, Says, CCs

-----------------------------------------------------------------------------
\* Logic and shifts.

LEMMA LogicIs ==
    ASSUME NEW n \in Nat \ {0, 1}, n <= W, NEW src \in Int, NEW dest \in Int,
           NEW op \in {"and", "or", "xor"}
    PROVE  alu_logic(op, src, dest, n).res \in 0..(2^n - 1) /\ alu_logic(op, src, dest, n).flags \in Flags
  <1> DEFINE f == [i \in Nat |-> Joined(op, Bit(src, i), Bit(dest, i))]
             C == CHOOSE r \in Register : \A i \in 0..(W - 1) :
                        Bit(r, i) = Joined(op, Bit(src, i), Bit(dest, i))
  <1>1. f \in [Nat -> {0, 1}]
    <2>1. ASSUME NEW a \in {0, 1}, NEW b \in {0, 1}
          PROVE  Joined(op, a, b) \in {0, 1}
      <3>1. (a = 0 \/ a = 1) /\ (b = 0 \/ b = 1)
        OBVIOUS
      <3>2. CASE op = "and"
        BY <3>1, <3>2 DEF Joined
      <3>3. CASE op = "or"
        BY <3>1, <3>3 DEF Joined
      <3>4. CASE op = "xor"
        BY <3>1, <3>4 DEF Joined
      <3>5. QED
        BY <3>2, <3>3, <3>4
    <2>2. QED
      BY <2>1, BitIs
  <1>2. W \in Nat
    BY WidthIs
  <1>3. \E r \in Register : \A i \in 0..(W - 1) : Bit(r, i) = f[i]
    <2> HIDE DEF f
    <2>1. QED
      BY <1>1, <1>2, NumberOfBits, Zenon DEF Register
  <1>4. \E r \in Register : \A i \in 0..(W - 1) : Bit(r, i) = Joined(op, Bit(src, i), Bit(dest, i))
    <2>1. \A i \in 0..(W - 1) : f[i] = Joined(op, Bit(src, i), Bit(dest, i))
      BY <1>2
    <2> HIDE DEF f
    <2>2. QED
      BY <1>3, <2>1
  <1>5. C \in Register
    BY <1>4, Zenon
  <1>6. C \in Int
    <2>1. 2^W \in Nat
      BY <1>2, PowerIs
    <2> HIDE DEF C
    <2>2. QED
      BY <1>5, <2>1 DEF Register
  <1>7. alu_logic(op, src, dest, n) = Result(C, n, 0, 0)
    BY DEF alu_logic
  <1> HIDE DEF C
  <1>8. Result(C, n, 0, 0).res = C % 2^n /\ C % 2^n \in 0..(2^n - 1) /\ Result(C, n, 0, 0).flags \in Flags
    BY <1>6, ResultIs
  <1>9. QED
    BY <1>7, <1>8

\* The count that the host makes of one, and what is shifted by it.
LEMMA CountIs ==
    ASSUME NEW k \in Int
    PROVE  k % W \in Nat /\ 2^(k % W) \in Nat \ {0} /\ (k \in 0..(W - 1) => k % W = k)
  <1>1. k % W \in Nat /\ (k \in 0..(W - 1) => k % W = k)
    BY WidthIs, RemainderIs, RemainderSmall
  <1>2. QED
    BY <1>1, PowerIs

LEMMA ShiftedIs ==
    ASSUME NEW n \in Nat \ {0, 1}, n <= W, NEW x \in Int, NEW k \in Int
    PROVE  /\ Left(x, k) \in Int /\ Right(x, k) \in Int
           /\ k \in 0..(W - 1) => /\ Left(x, k) % 2^n = (x * 2^k) % 2^n
                                  /\ Right(x, k) = x \div 2^k
  <1>1. PICK S \in Nat \ {0} : S = 2^(k % W)
    BY CountIs
  <1>2. PICK y \in Int : y = x * S
    OBVIOUS
  <1>3. PICK M \in Nat \ {0} : M = 2^n
    BY PowerIs
  <1>4. PICK R \in Int : R = y % 2^W /\ R % M = y % M
    BY <1>3, MaskedIs
  <1>5. Left(x, k) = R
    BY <1>1, <1>2, <1>4 DEF Left
  <1>6. Right(x, k) = x \div S /\ x \div S \in Int
    BY <1>1, RemainderIs DEF Right
  <1>7. k \in 0..(W - 1) => S = 2^k
    BY <1>1, CountIs
  <1>8. QED
    BY <1>2, <1>3, <1>4, <1>5, <1>6, <1>7

LEMMA ShlIs ==
    ASSUME NEW n \in Nat \ {0, 1}, n <= W, NEW dest \in Int, NEW k \in Int
    PROVE  LET r == alu_shl(k, dest, n) IN
           /\ r.res \in 0..(2^n - 1) /\ r.flags \in Flags
           /\ k \in 1..n /\ k < W => /\ r.res = (dest * 2^k) % 2^n
                                     /\ r.flags.CF = ((dest * 2^k) \div 2^n) % 2
  <1>1. PICK H \in Nat \ {0}, M \in Nat \ {0} : H = 2^(n - 1) /\ M = 2^n /\ M = 2 * H
    BY Halves
  <1>2. PICK x \in Int, y \in Int : x = Left(dest, k) /\ y = Left(dest, k - 1)
    <2>1. k - 1 \in Int
      OBVIOUS
    <2>2. Left(dest, k) \in Int /\ Left(dest, k - 1) \in Int
      BY <2>1, ShiftedIs, Zenon
    <2>3. QED
      BY <2>2, Zenon
  <1>3. PICK cf \in {0, 1} : cf = sign(Extended(y, n)) /\ cf = IF y % M >= H THEN 1 ELSE 0
    BY <1>1, ExtendedIs
  <1>4. sign(dest) \in {0, 1}
    <2>1. W - 1 \in Nat
      BY WidthIs
    <2>2. QED
      BY <2>1, BitIs DEF sign
  <1>5. alu_shl(k, dest, n) = Result(x, n, cf, sign(dest))
    BY <1>2, <1>3 DEF alu_shl
  <1>6. LET r == alu_shl(k, dest, n) IN
        r.res = x % M /\ r.res \in 0..(M - 1) /\ r.flags \in Flags /\ r.flags.CF = cf
    BY <1>1, <1>4, <1>5, ResultIs
  <1>7. ASSUME k \in 1..n, k < W
        PROVE  x % M = (dest * 2^k) % M /\ cf = ((dest * 2^k) \div M) % 2
    <2>1. k \in 0..(W - 1) /\ k - 1 \in 0..(W - 1) /\ k \in Nat \ {0} /\ k - 1 \in Nat
      BY <1>7, WidthIs
    <2>2. PICK S \in Nat \ {0}, T \in Nat \ {0} : S = 2^(k - 1) /\ T = 2^k /\ T = 2 * S
      BY <2>1, Halves
    <2>3. PICK z \in Int : z = dest * S
      OBVIOUS
    <2>4. dest * T = 2 * z
      BY <2>2, <2>3
    <2>5. x % M = (2 * z) % M /\ y % M = z % M
      <3>1. Left(dest, k) % 2^n = (dest * 2^k) % 2^n /\ Left(dest, k - 1) % 2^n = (dest * 2^(k - 1)) % 2^n
        <4>1. k - 1 \in Int
          OBVIOUS
        <4>2. QED
          BY <2>1, <4>1, ShiftedIs, Zenon
      <3>2. QED
        BY <1>1, <1>2, <2>2, <2>3, <2>4, <3>1
    <2>6. (2 * z) \div M = z \div H
      <3>1. PICK q \in Int, t \in 0..(H - 1) : q = z \div H /\ z = H * q + t
        BY RemainderIs, ZenonT(60)
      <3>2. PICK p \in Int : p = H * q
        OBVIOUS
      <3>3. M * q = 2 * p
        BY <1>1, <3>2
      <3>4. 2 * z = M * q + 2 * t /\ 2 * t \in 0..(M - 1) /\ 2 * z \in Int
        BY <1>1, <3>1, <3>2, <3>3
      <3>5. (2 * z) \div M = q
        BY <3>4, RemainderBy, Zenon
      <3>6. QED
        BY <3>1, <3>5
    <2>7. (z \div H) % 2 = IF z % M >= H THEN 1 ELSE 0
      BY <1>1, TopBit DEF Bit
    <2>8. QED
      BY <1>3, <2>2, <2>4, <2>5, <2>6, <2>7
  <1>8. QED
    BY <1>1, <1>6, <1>7

LEMMA LowBit ==
    ASSUME NEW n \in Nat \ {0, 1}, n <= W, NEW x \in Int
    PROVE  Bit(Extended(x, n), 0) = x % 2 /\ Bit(x, 0) = x % 2
  <1>1. PICK M \in Nat \ {0}, V \in Nat \ {0} : M = 2^n /\ V = 2^W
    BY PowerIs, WidthIs
  <1>2. PICK e \in Nat \ {0} : V = M * e
    <2>1. \E e \in Nat \ {0} : 2^W = 2^n * e
      BY WidthIs, PowerDivides
    <2>2. QED
      BY <1>1, <2>1, Zenon
  <1>3. PICK m \in 0..(M - 1), E \in Int :
            m = x % M /\ E = Extended(x, n) /\ (E = m \/ E = m + (V - M))
    <2>1. V \in Nat /\ 0..(V - 1) \subseteq Int
      OBVIOUS
    <2>2. Extended(x, n) \in Int
      BY <1>1, <2>1, ExtendedIs DEF Register
    <2>3. /\ x % M \in 0..(M - 1)
          /\ Extended(x, n) = (x % M) + IF x % M >= 2^(n - 1) THEN V - M ELSE 0
      BY <1>1, ExtendedIs
    <2>4. PICK m \in 0..(M - 1) : m = x % M
      BY <2>3
    <2>5. Extended(x, n) = m \/ Extended(x, n) = m + (V - M)
      BY <2>3, <2>4
    <2>6. QED
      BY <2>2, <2>4, <2>5
  <1>4. E % M = m % M
    <2>1. CASE E = m
      BY <2>1
    <2>2. CASE E = m + (V - M)
      <3>1. e - 1 \in Int /\ M * (e - 1) = M * e - M
        OBVIOUS
      <3>2. E = m + M * (e - 1)
        BY <1>2, <2>2, <3>1
      <3>3. \E k \in Int : E = m + M * k
        BY <3>1, <3>2, Zenon
      <3>4. QED
        BY <3>3, RemainderSame
    <2>3. QED
      BY <1>3, <2>1, <2>2
  <1>5. m % M = x % M
    BY <1>3, RemainderSmall
  <1>6. E % 2^(0 + 1) = x % 2^(0 + 1)
    <2>1. /\ 1 \in Nat /\ n \in Nat /\ 1 <= n /\ 0 + 1 = 1
      OBVIOUS
    <2>2. (E % 2^n) % 2^1 = E % 2^1 /\ (x % 2^n) % 2^1 = x % 2^1
      BY <2>1, MaskTwice, ZenonT(60)
    <2>3. QED
      BY <1>1, <1>4, <1>5, <2>1, <2>2, Zenon
  <1>7. Bit(E, 0) = Bit(x, 0)
    BY <1>6, BitOf, 0 \in Nat, Zenon
  <1>8. Bit(x, 0) = x % 2
    <2>1. 2^0 = 1 /\ x \div 1 = x
      OBVIOUS
    <2>2. QED
      BY <2>1 DEF Bit
  <1>9. QED
    BY <1>3, <1>7, <1>8

LEMMA ShrIs ==
    ASSUME NEW n \in Nat \ {0, 1}, n <= W, NEW dest \in Int, NEW k \in Int
    PROVE  LET r == alu_shr(k, dest, n)  d == Masked(dest, n) IN
           /\ r.res \in 0..(2^n - 1) /\ r.flags \in Flags
           /\ k \in 1..n /\ k < W => /\ r.res = d \div 2^k
                                     /\ r.flags.CF = (d \div 2^(k - 1)) % 2
  <1>1. PICK M \in Nat \ {0} : M = 2^n
    BY PowerIs
  <1>2. PICK d \in 0..(M - 1) : d = Masked(dest, n)
    BY <1>1, RemainderIs DEF Masked
  <1>3. d \in Int /\ k - 1 \in Int
    OBVIOUS
  <1>4. PICK x \in Int, y \in Int : x = Right(d, k) /\ y = Right(d, k - 1)
    <2>1. Right(d, k) \in Int /\ Right(d, k - 1) \in Int
      BY <1>3, ShiftedIs, Zenon
    <2>2. QED
      BY <2>1, Zenon
  <1>5. Bit(Extended(y, n), 0) = y % 2 /\ y % 2 \in {0, 1}
    BY LowBit
  <1>6. sign(d) \in {0, 1}
    <2>1. W - 1 \in Nat
      BY WidthIs
    <2>2. QED
      BY <1>3, <2>1, BitIs DEF sign
  <1>7. alu_shr(k, dest, n) = Result(x, n, y % 2, sign(d))
    BY <1>2, <1>4, <1>5 DEF alu_shr
  <1>8. LET r == alu_shr(k, dest, n) IN
        r.res = x % M /\ r.res \in 0..(M - 1) /\ r.flags \in Flags /\ r.flags.CF = y % 2
    BY <1>1, <1>5, <1>6, <1>7, ResultIs
  <1>9. ASSUME k \in 1..n, k < W
        PROVE  x % M = d \div 2^k /\ y % 2 = (d \div 2^(k - 1)) % 2
    <2>1. k \in 0..(W - 1) /\ k - 1 \in 0..(W - 1) /\ k \in Nat
      BY <1>9, WidthIs
    <2>2. x = d \div 2^k /\ y = d \div 2^(k - 1)
      BY <1>3, <1>4, <2>1, ShiftedIs, Zenon
    <2>3. PICK S \in Nat \ {0} : S = 2^k
      BY <2>1, PowerIs
    <2>4. x \in 0..(M - 1)
      <3>1. d \in Nat /\ x = d \div S
        BY <2>2, <2>3
      <3>2. x \in 0..d
        BY <3>1, NoLarger, Zenon
      <3>3. QED
        BY <3>2
    <2>5. x % M = x
      BY <2>4, RemainderSmall
    <2>6. QED
      BY <2>2, <2>5
  <1>10. QED
    BY <1>1, <1>2, <1>8, <1>9

LEMMA SarIs ==
    ASSUME NEW n \in Nat \ {0, 1}, n <= W, NEW dest \in Int, NEW k \in Int
    PROVE  LET r == alu_sar(k, dest, n)  s == Signed(dest, n) IN
           /\ r.res \in 0..(2^n - 1) /\ r.flags \in Flags
           /\ k \in 1..n /\ k < W => /\ r.res = (s \div 2^k) % 2^n
                                     /\ r.flags.CF = (s \div 2^(k - 1)) % 2
  <1>1. PICK M \in Nat \ {0} : M = 2^n
    BY PowerIs
  <1>2. PICK s \in Int : s = Signed(dest, n)
    <2>1. PICK H \in Nat \ {0}, N \in Nat \ {0} : H = 2^(n - 1) /\ N = 2^n /\ N = 2 * H
      BY Halves
    <2>2. Signed(dest, n) \in (-H)..(H - 1)
      BY <2>1, Parts
    <2>3. QED
      BY <2>2
  <1>3. k - 1 \in Int
    OBVIOUS
  <1>4. PICK x \in Int, y \in Int : x = Right(s, k) /\ y = Right(s, k - 1)
    <2>1. Right(s, k) \in Int /\ Right(s, k - 1) \in Int
      BY <1>3, ShiftedIs, Zenon
    <2>2. QED
      BY <2>1, Zenon
  <1>5. Bit(y, 0) = y % 2 /\ y % 2 \in {0, 1}
    BY LowBit
  <1>6. PICK R \in Int : R = x % 2^W /\ R % M = x % M
    BY <1>1, MaskedIs
  <1>7. alu_sar(k, dest, n) = Result(R, n, y % 2, 0)
    BY <1>2, <1>4, <1>5, <1>6 DEF alu_sar
  <1>8. LET r == alu_sar(k, dest, n) IN
        r.res = x % M /\ r.res \in 0..(M - 1) /\ r.flags \in Flags /\ r.flags.CF = y % 2
    BY <1>1, <1>5, <1>6, <1>7, ResultIs
  <1>9. ASSUME k \in 1..n, k < W
        PROVE  x = s \div 2^k /\ y = s \div 2^(k - 1)
    <2>1. k \in 0..(W - 1) /\ k - 1 \in 0..(W - 1)
      BY <1>9, WidthIs
    <2>2. QED
      BY <1>3, <1>4, <2>1, ShiftedIs, Zenon
  <1>10. QED
    BY <1>1, <1>2, <1>8, <1>9

-----------------------------------------------------------------------------
\* Products.

LEMMA SignedIs ==
    ASSUME NEW n \in Nat \ {0}, NEW x \in Int
    PROVE  Signed(x, n) = IF x % 2^n >= 2^(n - 1) THEN (x % 2^n) - 2^n ELSE x % 2^n
  <1>1. Bit(x, n - 1) = IF x % 2^n >= 2^(n - 1) THEN 1 ELSE 0
    BY TopBit
  <1>2. QED
    BY <1>1 DEF Signed, Masked

LEMMA SignedProductBelow ==
    ASSUME NEW H \in Nat \ {0}, NEW a \in (-H)..(H - 1), NEW b \in (-H)..(H - 1)
    PROVE  a * b \in (-(H * H))..(H * H)
  <1>1. ASSUME NEW p \in 0..H, NEW q \in 0..H
        PROVE  p * q \in 0..(H * H)
    <2>1. H + 1 \in Nat \ {0}
      OBVIOUS
    <2>2. p \in Nat /\ q \in Nat /\ p \in Int /\ q \in Int /\ H \in Int /\ H \in Nat
      OBVIOUS
    <2>3. p * q <= p * H
      <3>1. CASE q < H
        <4>1. p * q + p <= p * H
          BY <2>2, <3>1, SmallerProduct, Zenon
        <4>2. PICK x \in Int, y \in Int : x = p * q /\ y = p * H
          OBVIOUS
        <4>3. QED
          BY <4>1, <4>2
      <3>2. CASE q = H
        BY <3>2
      <3>3. QED
        BY <3>1, <3>2
    <2>4. H * p <= H * H
      <3>1. CASE p < H
        <4>1. H * p + H <= H * H
          BY <2>2, <3>1, SmallerProduct, Zenon
        <4>2. PICK x \in Int, y \in Int : x = H * p /\ y = H * H
          OBVIOUS
        <4>3. QED
          BY <4>1, <4>2
      <3>2. CASE p = H
        BY <3>2
      <3>3. QED
        BY <3>1, <3>2
    <2>5. p * H = H * p /\ p * q \in Nat
      BY <2>2
    <2>6. PICK x \in Nat, y \in Int, z \in Int : x = p * q /\ y = H * p /\ z = H * H
      BY <2>5
    <2>7. x \in 0..z
      BY <2>3, <2>4, <2>5, <2>6
    <2>8. QED
      BY <2>6, <2>7, Zenon
  <1>2. PICK p \in 0..H, q \in 0..H : (a = p \/ a = -p) /\ (b = q \/ b = -q)
    <2>1. \E p \in 0..H : a = p \/ a = -p
      <3>1. CASE a >= 0
        BY <3>1
      <3>2. CASE a < 0
        <4>1. -a \in 0..H /\ a = -(-a)
          BY <3>2
        <4>2. QED
          BY <4>1
      <3>3. QED
        BY <3>1, <3>2
    <2>2. \E q \in 0..H : b = q \/ b = -q
      <3>1. CASE b >= 0
        BY <3>1
      <3>2. CASE b < 0
        <4>1. -b \in 0..H /\ b = -(-b)
          BY <3>2
        <4>2. QED
          BY <4>1
      <3>3. QED
        BY <3>1, <3>2
    <2>3. QED
      BY <2>1, <2>2, Zenon
  <1>3. a * b = p * q \/ a * b = -(p * q)
    BY <1>2
  <1>4. PICK x \in Nat, z \in Nat : x = p * q /\ z = H * H /\ x \in 0..z
    BY <1>1, <1>2
  <1>5. a * b \in (-z)..z
    BY <1>3, <1>4
  <1>6. QED
    BY <1>4, <1>5, Zenon

\* Two words hold as much as one of twice the width.
LEMMA TwoWords ==
    ASSUME NEW n \in Nat \ {0}
    PROVE  /\ 2 * n \in Nat \ {0, 1} /\ 2^(2 * n) \in Nat \ {0}
           /\ 2^(2 * n) = 2^n * 2^n
           /\ 2^(2 * n - 1) = 2 * (2^(n - 1) * 2^(n - 1))
           /\ 2^(2 * n) = 4 * (2^(n - 1) * 2^(n - 1))
  <1>1. n \in Nat /\ n + n = 2 * n /\ 2 * n \in Nat \ {0, 1} /\ 2 * n \in Nat
    OBVIOUS
  <1>2. 2^(n + n) = 2^n * 2^n /\ 2^(2 * n) \in Nat \ {0}
    BY <1>1, PowerSplit, PowerIs, Zenon
  <1>3. PICK H \in Nat \ {0}, M \in Nat \ {0} : H = 2^(n - 1) /\ M = 2^n /\ M = 2 * H
    BY Halves
  <1>4. M * M = 4 * (H * H)
    BY <1>3
  <1>5. 2^(2 * n) = 2 * 2^(2 * n - 1) /\ 2^(2 * n - 1) \in Nat
    BY <1>1, Halves
  <1>6. PICK Q \in Nat, h \in Nat : Q = H * H /\ h = 2^(2 * n - 1)
    BY <1>5
  <1>7. 2^(2 * n) = M * M /\ 2^(2 * n) = 4 * Q
    BY <1>1, <1>2, <1>3, <1>4, <1>6, Zenon
  <1>8. h = 2 * Q
    BY <1>5, <1>6, <1>7
  <1>9. QED
    BY <1>1, <1>2, <1>3, <1>6, <1>7, <1>8, Zenon

LEMMA ProductIs ==
    ASSUME NEW n \in Nat \ {0, 1}, n <= W, NEW x \in Int, NEW b \in {0, 1}
    PROVE  LET r == Product(x, n, b) IN
           /\ r.res = x % 2^(2 * n) /\ r.res \in 0..(2^(2 * n) - 1)
           /\ r.flags \in Flags /\ r.flags.CF = b /\ r.flags.OF = b
  <1>1. PICK V \in Nat \ {0} : V = 2^W
    BY PowerIs, WidthIs
  <1>2. PICK y \in Int : y = x % V
    <2>1. x % V \in Int
      OBVIOUS
    <2>2. QED
      BY <2>1, Zenon
  <1>3. LET q == Result(y, n, b, b) IN
        q = [res |-> q.res, flags |-> q.flags] /\ q.flags \in Flags /\ q.flags.CF = b /\ q.flags.OF = b
    BY ResultIs
  <1>4. Product(x, n, b) = [Result(y, n, b, b) EXCEPT !.res = x % 2^(2 * n)]
    BY <1>1, <1>2 DEF Product, Masked
  <1>5. x % 2^(2 * n) \in 0..(2^(2 * n) - 1)
    BY TwoWords, RemainderIs
  <1>6. QED
    BY <1>3, <1>4, <1>5

LEMMA MulIs ==
    ASSUME NEW n \in Nat \ {0, 1}, n <= W, NEW d \in Operands(n), NEW s \in Operands(n)
    PROVE  LET r == alu_mul(s, d, n) IN
           /\ r.res \in 0..(2^(2 * n) - 1) /\ r.flags \in Flags
           /\ r.res = d * s /\ r.flags.CF = Flag(d * s >= 2^n) /\ r.flags.OF = r.flags.CF
  <1>1. PICK M \in Nat \ {0}, D \in Nat \ {0} : M = 2^n /\ D = 2^(2 * n) /\ D = M * M
    <2>1. 2^n \in Nat \ {0} /\ 2^(2 * n) \in Nat \ {0} /\ 2^(2 * n) = 2^n * 2^n
      BY PowerIs, TwoWords
    <2>2. QED
      BY <2>1, Zenon
  <1>2. d \in 0..(M - 1) /\ s \in 0..(M - 1)
    BY <1>1 DEF Operands
  <1>3. PICK x \in 0..(D - 1) : x = d * s
    BY <1>1, <1>2, ProductBelow
  <1>4. x % D = x
    BY RemainderSmall
  <1>5. x \div M # 0 <=> x >= M
    <2>1. PICK q \in Int, t \in 0..(M - 1) : q = x \div M /\ x = M * q + t
      <3>1. x \in Int
        OBVIOUS
      <3>2. x \div M \in Int /\ x % M \in 0..(M - 1) /\ x = M * (x \div M) + (x % M)
        BY <3>1, RemainderIs, Zenon
      <3>3. QED
        BY <3>2, Zenon
    <2>2. CASE x < M
      <3>1. x \in 0..(M - 1)
        BY <2>2
      <3>2. QED
        BY <2>2, <3>1, RemainderSmall
    <2>3. CASE x >= M
      <3>1. q # 0
        <4>1. M * 0 = 0
          OBVIOUS
        <4>2. QED
          BY <2>1, <2>3, <4>1
      <3>2. QED
        BY <2>1, <2>3, <3>1
    <2>4. QED
      BY <2>2, <2>3
  <1>6. set_CF_OF_mul(x, n) = Flag(x >= M) /\ Flag(x >= M) \in {0, 1}
    BY <1>1, <1>5 DEF set_CF_OF_mul, Flag
  <1>7. alu_mul(s, d, n) = Product(x, n, Flag(x >= M))
    BY <1>3, <1>6 DEF alu_mul
  <1>8. x \in Int
    OBVIOUS
  <1>9. QED
    BY <1>1, <1>3, <1>4, <1>6, <1>7, <1>8, ProductIs, SMTT(60)

LEMMA ImulIs ==
    ASSUME NEW n \in Nat \ {0, 1}, n <= W, NEW dest \in Int, NEW src \in Int
    PROVE  LET r == alu_imul(src, dest, n) IN
           /\ r.res \in 0..(2^(2 * n) - 1) /\ r.flags \in Flags
           /\ Signed(r.res, 2 * n) = Signed(dest, n) * Signed(src, n)
  <1>1. PICK H \in Nat \ {0}, M \in Nat \ {0} : H = 2^(n - 1) /\ M = 2^n /\ M = 2 * H
    BY Halves
  <1>2. PICK Q \in Nat \ {0} : Q = H * H
    OBVIOUS
  <1>3. PICK N \in Nat \ {0}, D \in Nat \ {0} :
            N = 2 * n /\ D = 2^N /\ D = 4 * Q /\ 2^(N - 1) = 2 * Q
    <2>1. /\ 2 * n \in Nat \ {0} /\ 2^(2 * n) \in Nat \ {0}
          /\ 2^(2 * n - 1) = 2 * (2^(n - 1) * 2^(n - 1))
          /\ 2^(2 * n) = 4 * (2^(n - 1) * 2^(n - 1))
      BY TwoWords
    <2>2. QED
      BY <1>1, <1>2, <2>1, Zenon
  <1>4. PICK a \in (-H)..(H - 1), b \in (-H)..(H - 1) : a = Signed(dest, n) /\ b = Signed(src, n)
    BY <1>1, Parts
  <1>5. PICK x \in (-Q)..Q : x = a * b
    BY <1>2, SignedProductBelow
  <1>6. x \in Int
    OBVIOUS
  <1>7. set_CF_OF_imul(x, n) \in {0, 1}
    BY DEF set_CF_OF_imul, Flag
  <1>8. alu_imul(src, dest, n) = Product(x, n, set_CF_OF_imul(x, n))
    BY <1>4, <1>5 DEF alu_imul
  <1>9. PICK y \in 0..(D - 1) : y = x % D /\ y = alu_imul(src, dest, n).res
    BY <1>3, <1>6, <1>7, <1>8, ProductIs, ZenonT(60)
  <1>10. y = IF x >= 0 THEN x ELSE x + D
    <2>1. CASE x >= 0
      <3>1. x \in 0..(D - 1)
        BY <1>3, <2>1
      <3>2. QED
        BY <1>9, <2>1, <3>1, RemainderSmall
    <2>2. CASE x < 0
      <3>1. x \in (-D)..(-1)
        BY <1>3, <2>2
      <3>2. x % D = x + D
        BY <3>1, RemainderUnder, Zenon
      <3>3. QED
        BY <1>9, <2>2, <3>2
    <2>3. QED
      BY <2>1, <2>2
  <1>11. y \in Int /\ y % D = y
    BY RemainderSmall
  <1>12. Signed(y, N) = IF y % 2^N >= 2^(N - 1) THEN (y % 2^N) - 2^N ELSE y % 2^N
    BY <1>11, SignedIs
  <1>13. Signed(y, N) = x
    BY <1>3, <1>10, <1>11, <1>12
  <1>14. alu_imul(src, dest, n).flags \in Flags
    BY <1>6, <1>7, <1>8, ProductIs
  <1>15. QED
    BY <1>3, <1>4, <1>5, <1>9, <1>13, <1>14

-----------------------------------------------------------------------------
\* Divisions.

\* The quotient is the one number that leaves a remainder less than the divisor
\* and of the dividend's sign.
LEMMA TruncatedIs ==
    ASSUME NEW D \in Int, NEW S \in Int, S # 0, NEW q \in Int, NEW r \in Int, r = D - q * S,
           Magnitude(r) < Magnitude(S), r * D >= 0
    PROVE  Quotient(D, S) = q
  <1>1. PICK b \in Nat \ {0}, c \in Int :
            /\ b = Magnitude(S) /\ r = D - b * c
            /\ (S > 0 /\ c = q) \/ (S < 0 /\ c = -q)
    <2>1. CASE S > 0
      <3>1. S \in Nat \ {0} /\ Magnitude(S) = S /\ r = D - S * q
        BY <2>1 DEF Magnitude
      <3>2. QED
        BY <2>1, <3>1
    <2>2. CASE S < 0
      <3>1. -S \in Nat \ {0} /\ Magnitude(S) = -S /\ -q \in Int
        BY <2>2 DEF Magnitude
      <3>2. r = D - (-S) * (-q)
        OBVIOUS
      <3>3. QED
        BY <2>2, <3>1, <3>2
    <2>3. QED
      BY <2>1, <2>2
  <1>2. PICK p \in Int : p = b * c /\ r = D - p
    BY <1>1
  <1>3. r < b /\ -r < b
    BY <1>1 DEF Magnitude
  <1>4. b \in Nat /\ 0 \in Int /\ b * 0 = 0
    OBVIOUS
  <1>5. (D >= 0 /\ r >= 0) \/ (D < 0 /\ r <= 0)
    <2>1. CASE D = 0
      <3>1. ~(0 < c)
        <4>1. 0 < c => b * 0 + b <= b * c
          BY <1>4, SmallerProduct, Zenon
        <4>2. QED
          BY <1>2, <1>3, <1>4, <2>1, <4>1
      <3>2. ~(c < 0)
        <4>1. c < 0 => b * c + b <= b * 0
          BY <1>4, SmallerProduct, Zenon
        <4>2. QED
          BY <1>2, <1>3, <1>4, <2>1, <4>1
      <3>3. c = 0
        BY <3>1, <3>2
      <3>4. QED
        BY <1>2, <1>4, <2>1, <3>3
    <2>2. CASE D > 0
      <3>1. D \in Nat /\ D * 0 = 0 /\ D * r = r * D
        BY <2>2
      <3>2. r < 0 => D * r + D <= D * 0
        BY <1>4, <3>1, SmallerProduct, Zenon
      <3>3. PICK x \in Int : x = r * D
        OBVIOUS
      <3>4. r >= 0
        BY <2>2, <3>1, <3>2, <3>3
      <3>5. QED
        BY <2>2, <3>4
    <2>3. CASE D < 0
      <3>1. PICK E \in Nat \ {0} : E = -D /\ D = -E
        <4>1. -D \in Nat \ {0} /\ D = -(-D)
          BY <2>3
        <4>2. QED
          BY <4>1
      <3>2. E \in Nat /\ E * 0 = 0 /\ r * D = -(E * r)
        BY <3>1
      <3>3. 0 < r => E * 0 + E <= E * r
        BY <1>4, <3>2, SmallerProduct, Zenon
      <3>4. PICK x \in Int : x = E * r
        OBVIOUS
      <3>5. r <= 0
        BY <3>2, <3>3, <3>4
      <3>6. QED
        BY <2>3, <3>5
    <2>4. QED
      BY <2>1, <2>2, <2>3
  <1>6. CASE D >= 0 /\ r >= 0
    <2>1. D = b * c + r /\ r \in 0..(b - 1)
      BY <1>2, <1>3, <1>6
    <2>2. D \div b = c
      BY <2>1, RemainderBy, ZenonT(60)
    <2>3. Magnitude(D) \div Magnitude(S) = c /\ ~(D < 0)
      BY <1>1, <1>6, <2>2 DEF Magnitude
    <2>4. QED
      BY <1>1, <2>3 DEF Quotient
  <1>7. CASE D < 0 /\ r <= 0
    <2>1. PICK e \in Int, t \in 0..(b - 1), f \in Int : e = -D /\ t = -r /\ f = -c
      BY <1>3, <1>7
    <2>2. b * f = -p
      BY <1>2, <2>1
    <2>3. e = b * f + t
      BY <1>2, <2>1, <2>2
    <2>4. e \div b = f
      BY <2>3, RemainderBy, Zenon
    <2>5. Magnitude(D) \div Magnitude(S) = f /\ D < 0
      BY <1>1, <1>7, <2>1, <2>4 DEF Magnitude
    <2>6. QED
      BY <1>1, <2>1, <2>5 DEF Quotient
  <1>8. QED
    BY <1>5, <1>6, <1>7

LEMMA DivisionIs ==
    ASSUME NEW n \in Nat \ {0, 1}, NEW dest \in Int, NEW src \in Int, src # 0, NEW flags
    PROVE  LET r == Division(dest, src, n, flags)  q == Quotient(dest, src)  M == 2^n IN
           /\ r.flags = flags /\ r.res \in 0..(2^(2 * n) - 1) /\ q \in Int
           /\ r.res = ((dest - q * src) % M) * M + (q % M)
  <1>1. PICK M \in Nat \ {0}, D \in Nat \ {0} : M = 2^n /\ D = 2^(2 * n) /\ D = M * M
    <2>1. 2^n \in Nat \ {0} /\ 2^(2 * n) \in Nat \ {0} /\ 2^(2 * n) = 2^n * 2^n
      BY PowerIs, TwoWords
    <2>2. QED
      BY <2>1, Zenon
  <1>2. PICK q \in Int : q = Quotient(dest, src)
    <2>1. Magnitude(dest) \in Int /\ Magnitude(src) \in Nat \ {0}
      BY DEF Magnitude
    <2>2. PICK p \in Int : p = Magnitude(dest) \div Magnitude(src)
      BY <2>1, RemainderIs
    <2>3. p \in Int /\ -p \in Int
      OBVIOUS
    <2>4. QED
      BY <2>2, <2>3 DEF Quotient
  <1>3. PICK r \in Int : r = dest - src * q /\ r = dest - q * src
    <2>1. dest - src * q \in Int /\ src * q = q * src
      OBVIOUS
    <2>2. QED
      BY <2>1
  <1>4. PICK a \in 0..(M - 1), b \in 0..(M - 1) : a = r % M /\ b = q % M
    <2>1. r % M \in 0..(M - 1) /\ q % M \in 0..(M - 1)
      BY RemainderIs
    <2>2. QED
      BY <2>1, Zenon
  <1>5. Division(dest, src, n, flags) = [res |-> a * M + b, flags |-> flags]
    BY <1>1, <1>2, <1>3, <1>4 DEF Division, Masked
  <1>6. a * M + b \in 0..(D - 1)
    <2>1. M \in Nat /\ a \in Int /\ M \in Int /\ a < M /\ a \in Nat
      OBVIOUS
    <2>2. M * a + M <= M * M
      BY <2>1, SmallerProduct, Zenon
    <2>3. a * M = M * a /\ M * a \in Nat
      BY <2>1
    <2>4. PICK x \in Nat : x = M * a
      BY <2>3
    <2>5. QED
      BY <1>1, <2>2, <2>3, <2>4
  <1>7. QED
    BY <1>1, <1>2, <1>3, <1>4, <1>5, <1>6

-----------------------------------------------------------------------------
\* An instruction that is no sum.

LEMMA OtherStep ==
    ASSUME Execute, eflags \in Flags
    PROVE  /\ ShiftsAreExact' /\ ProductsAreExact' /\ DivisionsAreExact'
           /\ done'.op \in (Unary \cup Binary) \ {"and", "or", "xor"} \/
              /\ eflags' \in Flags
              /\ done'.res \in Operands(IF done'.op \in Products \cup Divisions
                                        THEN 2 * done'.n ELSE done'.n)
  <1>1. PICK op \in Ops, n \in Sizes, src \in Register, dest \in Nat :
            LET r == Executed(op, n, src, dest, eflags.CF, eflags) IN
            /\ n \in Nat \ {0, 1} /\ n <= W /\ src \in Int
            /\ dest \in Operands(IF op \in Divisions THEN 2 * n ELSE n)
            /\ op \in {"test"} \cup Products \cup Divisions => src \in Operands(n)
            /\ Divisible(op, n, src, dest)
            /\ done' = [op |-> op, n |-> n, src |-> src, dest |-> dest,
                        carry |-> eflags.CF, res |-> r.res]
            /\ eflags' = r.flags
    BY ExecuteIs
  <1> DEFINE r == Executed(op, n, src, dest, eflags.CF, eflags)
  <1>2. /\ done'.op = op /\ done'.n = n /\ done'.src = src /\ done'.dest = dest
        /\ done'.res = r.res /\ eflags' = r.flags
    BY <1>1
  <1> HIDE DEF r
  <1>3. PICK M \in Nat \ {0} : M = 2^n
    BY <1>1, PowerIs
  <1>4. /\ n \in Nat \ {0, 1} /\ n <= W /\ src \in Int /\ dest \in Int
        /\ 2 * n \in Nat \ {0} /\ 2^(2 * n) \in Nat \ {0}
    <2>1. n \in Nat \ {0} /\ n \in Nat \ {0, 1} /\ src \in Int /\ dest \in Int
      BY <1>1
    <2>2. 2 * n \in Nat \ {0} /\ 2^(2 * n) \in Nat \ {0}
      BY <2>1, TwoWords
    <2>3. QED
      BY <1>1, <2>1, <2>2
  <1>5. op \notin Divisions => dest \in Operands(n) /\ Masked(dest, n) = dest
    <2>1. op \notin Divisions => dest \in 0..(M - 1)
      BY <1>1, <1>3 DEF Operands
    <2>2. op \notin Divisions => dest % M = dest
      BY <2>1, RemainderSmall
    <2>3. QED
      BY <1>3, <2>1, <2>2 DEF Operands, Masked
  <1>6. op \in Products \cup Divisions => src \in Operands(n) /\ Masked(src, n) = src
    <2>1. op \in Products \cup Divisions => src \in 0..(M - 1)
      BY <1>1, <1>3 DEF Operands
    <2>2. op \in Products \cup Divisions => src % M = src
      BY <2>1, RemainderSmall
    <2>3. QED
      BY <1>3, <2>1, <2>2 DEF Operands, Masked
  <1>7. op \notin Shifts => ShiftsAreExact'
    BY <1>2 DEF ShiftsAreExact
  <1>8. op \notin Products => ProductsAreExact'
    BY <1>2 DEF ProductsAreExact, ProductExact, Products
  <1>9. op \notin Divisions => DivisionsAreExact'
    BY <1>2 DEF DivisionsAreExact, DivisionExact, Divisions
  <1>10. CASE op \in {"and", "or", "xor", "test"}
    <2>1. \E o \in {"and", "or", "xor"} : r = alu_logic(o, src, dest, n)
      BY <1>10, ExecutedIs DEF r
    <2>2. r.res \in Operands(n) /\ r.flags \in Flags
      BY <1>4, <2>1, LogicIs DEF Operands
    <2>3. op \notin Shifts \cup Products \cup Divisions
      BY <1>10 DEF Shifts, Products, Divisions
    <2>4. QED
      BY <1>2, <1>7, <1>8, <1>9, <2>2, <2>3
  <1>11. CASE op \in Shifts
    <2>1. op \notin Products \cup Divisions
      BY <1>11 DEF Shifts, Products, Divisions
    <2>2. CASE op = "shl"
      <3>1. r = alu_shl(src, dest, n)
        BY <2>2, ExecutedIs DEF r
      <3>2. /\ r.res \in 0..(2^n - 1) /\ r.flags \in Flags
            /\ src \in 1..n /\ src < W => /\ r.res = (dest * 2^src) % 2^n
                                          /\ r.flags.CF = ((dest * 2^src) \div 2^n) % 2
        BY <1>4, <3>1, ShlIs, Zenon
      <3>3. ShiftsAreExact'
        BY <1>2, <1>5, <2>1, <2>2, <3>2 DEF ShiftsAreExact, ShiftExact
      <3>4. QED
        BY <1>2, <1>8, <1>9, <2>1, <3>2, <3>3 DEF Operands
    <2>3. CASE op = "shr"
      <3>1. r = alu_shr(src, dest, n)
        BY <2>3, ExecutedIs DEF r
      <3>2. /\ r.res \in 0..(2^n - 1) /\ r.flags \in Flags
            /\ src \in 1..n /\ src < W => /\ r.res = Masked(dest, n) \div 2^src
                                          /\ r.flags.CF = (Masked(dest, n) \div 2^(src - 1)) % 2
        BY <1>4, <3>1, ShrIs, Zenon
      <3>3. ShiftsAreExact'
        BY <1>2, <2>1, <2>3, <3>2 DEF ShiftsAreExact, ShiftExact
      <3>4. QED
        BY <1>2, <1>8, <1>9, <2>1, <3>2, <3>3 DEF Operands
    <2>4. CASE op = "sar"
      <3>1. r = alu_sar(src, dest, n)
        BY <2>4, ExecutedIs DEF r
      <3>2. /\ r.res \in 0..(2^n - 1) /\ r.flags \in Flags
            /\ src \in 1..n /\ src < W => /\ r.res = (Signed(dest, n) \div 2^src) % 2^n
                                          /\ r.flags.CF = (Signed(dest, n) \div 2^(src - 1)) % 2
        BY <1>4, <3>1, SarIs, Zenon
      <3>3. ShiftsAreExact'
        BY <1>2, <2>1, <2>4, <3>2 DEF ShiftsAreExact, ShiftExact
      <3>4. QED
        BY <1>2, <1>8, <1>9, <2>1, <3>2, <3>3 DEF Operands
    <2>5. QED
      BY <1>11, <2>2, <2>3, <2>4 DEF Shifts
  <1>12. CASE op = "mul"
    <2>1. op \notin Shifts \cup Divisions /\ op \in Products /\ op # "imul"
      BY <1>12 DEF Shifts, Products, Divisions
    <2>2. r = alu_mul(src, dest, n)
      BY <1>12, ExecutedIs DEF r
    <2>3. /\ r.res \in 0..(2^(2 * n) - 1) /\ r.flags \in Flags
          /\ r.res = dest * src /\ r.flags.CF = Flag(dest * src >= 2^n) /\ r.flags.OF = r.flags.CF
      BY <1>4, <1>5, <1>6, <2>1, <2>2, MulIs
    <2>4. ProductsAreExact'
      BY <1>2, <1>5, <1>6, <2>1, <2>3 DEF ProductsAreExact, ProductExact, Number
    <2>5. QED
      BY <1>2, <1>7, <1>9, <2>1, <2>3, <2>4 DEF Operands
  <1>13. CASE op = "imul"
    <2>1. op \notin Shifts \cup Divisions /\ op \in Products /\ op # "mul"
      BY <1>13 DEF Shifts, Products, Divisions
    <2>2. r = alu_imul(src, dest, n)
      BY <1>13, ExecutedIs DEF r
    <2>3. /\ r.res \in 0..(2^(2 * n) - 1) /\ r.flags \in Flags
          /\ Signed(r.res, 2 * n) = Signed(dest, n) * Signed(src, n)
      BY <1>4, <2>2, ImulIs, Zenon
    <2>4. ProductsAreExact'
      BY <1>2, <2>1, <2>3 DEF ProductsAreExact, ProductExact, Number
    <2>5. QED
      BY <1>2, <1>7, <1>9, <2>1, <2>3, <2>4 DEF Operands
  <1>14. CASE op = "div"
    <2>1. op \notin Shifts \cup Products /\ op \in Divisions /\ op # "idiv"
      BY <1>14 DEF Shifts, Products, Divisions
    <2>2. src # 0 /\ r = Division(dest, src, n, eflags)
      BY <1>1, <1>14, <2>1, ExecutedIs DEF r, Divisible
    <2>3. PICK q \in Int : q = Quotient(dest, src) /\ r.flags = eflags
                    /\ r.res \in 0..(2^(2 * n) - 1)
                    /\ r.res = ((dest - q * src) % 2^n) * 2^n + (q % 2^n)
      <3>1. /\ r.flags = eflags /\ r.res \in 0..(2^(2 * n) - 1) /\ Quotient(dest, src) \in Int
            /\ r.res = ((dest - Quotient(dest, src) * src) % 2^n) * 2^n + (Quotient(dest, src) % 2^n)
        <4>1. src # 0 /\ dest \in Int /\ src \in Int /\ n \in Nat \ {0, 1}
          BY <1>4, <2>2
        <4>2. /\ Division(dest, src, n, eflags).flags = eflags
              /\ Division(dest, src, n, eflags).res \in 0..(2^(2 * n) - 1)
              /\ Quotient(dest, src) \in Int
              /\ Division(dest, src, n, eflags).res =
                    ((dest - Quotient(dest, src) * src) % 2^n) * 2^n + (Quotient(dest, src) % 2^n)
          BY <4>1, DivisionIs
        <4>3. QED
          BY <2>2, <4>2, Zenon
      <3>2. QED
        BY <3>1, Zenon
    <2>4. ASSUME NEW p \in 0..(M - 1), dest - p * src \in 0..(src - 1)
          PROVE  r.res = (dest - p * src) * M + p
      <3>1. src \in 0..(M - 1)
        BY <1>3, <1>6, <2>1 DEF Operands
      <3>2. PICK t \in Int : t = dest - p * src /\ t \in 0..(src - 1) /\ t \in 0..(M - 1)
        BY <2>4, <3>1
      <3>3. p = q
        <4>1. Magnitude(t) < Magnitude(src) /\ t * dest >= 0 /\ p \in Int
          <5>1. dest \in Nat /\ t \in Nat
            BY <3>2
          <5>2. t * dest \in Nat
            BY <5>1
          <5>3. Magnitude(t) < Magnitude(src)
            BY <3>1, <3>2 DEF Magnitude
          <5>4. QED
            BY <5>2, <5>3
        <4>2. QED
          BY <1>4, <2>2, <2>3, <3>2, <4>1, TruncatedIs, Zenon
      <3>4. t % M = t /\ p % M = p
        BY <3>2, RemainderSmall
      <3>5. QED
        BY <1>3, <2>3, <3>2, <3>3, <3>4
    <2>5. DivisionsAreExact'
      BY <1>2, <1>3, <1>6, <2>1, <2>4 DEF DivisionsAreExact, DivisionExact, Number
    <2>6. QED
      BY <1>2, <1>7, <1>8, <2>1, <2>3, <2>5 DEF Operands
  <1>15. CASE op = "idiv"
    <2>1. op \notin Shifts \cup Products /\ op \in Divisions /\ op # "div"
      BY <1>15 DEF Shifts, Products, Divisions
    <2>2. PICK D \in Int, S \in Int : D = Signed(dest, 2 * n) /\ S = Signed(src, n) /\ S # 0
      <3>1. src \in 0..(M - 1) /\ src # 0
        BY <1>1, <1>3, <1>6, <2>1 DEF Operands, Divisible
      <3>2. src % M = src
        BY <3>1, RemainderSmall
      <3>3. Signed(src, n) \in Int /\ Signed(src, n) # 0
        <4>1. Signed(src, n) = IF src % 2^n >= 2^(n - 1) THEN (src % 2^n) - 2^n ELSE src % 2^n
          BY <1>4, SignedIs
        <4>2. QED
          BY <1>3, <3>1, <3>2, <4>1
      <3>4. Signed(dest, 2 * n) \in Int
        <4>1. Signed(dest, 2 * n) = IF dest % 2^(2 * n) >= 2^(2 * n - 1)
                                    THEN (dest % 2^(2 * n)) - 2^(2 * n) ELSE dest % 2^(2 * n)
          BY <1>4, SignedIs
        <4>2. PICK N \in Nat \ {0} : N = 2^(2 * n)
          BY <1>4
        <4>3. dest % N \in Int
          BY <1>4, RemainderIs
        <4>4. QED
          BY <4>1, <4>2, <4>3
      <3>5. QED
        BY <3>3, <3>4
    <2>3. r = Division(D, S, n, eflags)
      BY <1>15, <2>2, ExecutedIs DEF r
    <2>4. PICK q \in Int : q = Quotient(D, S) /\ r.flags = eflags
                    /\ r.res \in 0..(2^(2 * n) - 1)
                    /\ r.res = ((D - q * S) % 2^n) * 2^n + (q % 2^n)
      <3>1. /\ r.flags = eflags /\ r.res \in 0..(2^(2 * n) - 1) /\ Quotient(D, S) \in Int
            /\ r.res = ((D - Quotient(D, S) * S) % 2^n) * 2^n + (Quotient(D, S) % 2^n)
        <4>1. S # 0 /\ D \in Int /\ S \in Int /\ n \in Nat \ {0, 1}
          BY <1>4, <2>2
        <4>2. /\ Division(D, S, n, eflags).flags = eflags
              /\ Division(D, S, n, eflags).res \in 0..(2^(2 * n) - 1)
              /\ Quotient(D, S) \in Int
              /\ Division(D, S, n, eflags).res =
                    ((D - Quotient(D, S) * S) % 2^n) * 2^n + (Quotient(D, S) % 2^n)
          BY <4>1, DivisionIs
        <4>3. QED
          BY <2>3, <4>2, Zenon
      <3>2. QED
        BY <3>1, Zenon
    <2>5. ASSUME NEW p \in (-(M \div 2))..(M \div 2 - 1),
                 Magnitude(D - p * S) < Magnitude(S), (D - p * S) * D >= 0
          PROVE  r.res = ((D - p * S) % M) * M + (p % M)
      <3>1. p \in Int
        OBVIOUS
      <3>2. D - p * S \in Int
        BY <3>1
      <3>3. Quotient(D, S) = p
        BY <2>2, <2>5, <3>1, <3>2, TruncatedIs, Zenon
      <3>4. QED
        BY <1>3, <2>4, <3>3, Zenon
    <2>6. DivisionsAreExact'
      BY <1>2, <1>3, <2>1, <2>2, <2>5 DEF DivisionsAreExact, DivisionExact, Number
    <2>7. QED
      BY <1>2, <1>7, <1>8, <2>1, <2>4, <2>6 DEF Operands
  <1>16. CASE op \in (Unary \cup Binary) \ {"and", "or", "xor"}
    <2>1. op \notin Shifts \cup Products \cup Divisions
      BY <1>16 DEF Unary, Binary, Shifts, Products, Divisions
    <2>2. QED
      BY <1>2, <1>7, <1>8, <1>9, <1>16, <2>1
  <1>17. QED
    BY <1>10, <1>11, <1>12, <1>13, <1>14, <1>15, <1>16 DEF Ops, Unary, Binary, Products, Divisions

-----------------------------------------------------------------------------
\* Every step of the arithmetic.

AluInv == AluTypeOK /\ ArithmeticIsExact /\ ConditionsTell

\* Nothing is said of an instruction that has not been executed.
LEMMA FetchedIs ==
    ASSUME done = Fetched, eflags \in Flags
    PROVE  AluInv
  <1>1. /\ done.op = "fetch" /\ done.n = W /\ done.src = 0 /\ done.dest = 0
        /\ done.carry = 0 /\ done.res = 0
    BY DEF Fetched
  <1>2. W \in Nat /\ 2 * W \in Nat
    BY WidthIs
  <1>3. 2^W \in Nat \ {0} /\ 2^(2 * W) \in Nat \ {0}
    BY <1>2, PowerIs
  <1>4. 0 \in Register /\ 0 \in Operands(W) /\ 0 \in Operands(2 * W)
    BY <1>3 DEF Register, Operands
  <1>5. AluTypeOK
    BY <1>1, <1>4 DEF AluTypeOK, Products, Divisions
  <1>6. SumsAreExact /\ ShiftsAreExact /\ ConditionsTell
    BY <1>1 DEF SumsAreExact, ShiftsAreExact, Shifts, ConditionsTell
  <1>7. ProductsAreExact /\ DivisionsAreExact
    BY <1>1 DEF ProductsAreExact, DivisionsAreExact, ProductExact, DivisionExact
  <1>8. QED
    BY <1>5, <1>6, <1>7 DEF AluInv, ArithmeticIsExact

LEMMA ExecuteExactly ==
    ASSUME AluInv, Execute
    PROVE  AluInv'
  <1>1. eflags \in Flags
    BY DEF AluInv, AluTypeOK
  <1>2. PICK op \in Ops, n \in Sizes, src \in Register, dest \in Nat :
            /\ dest \in Operands(2 * n)
            /\ done'.op = op /\ done'.n = n /\ done'.src = src /\ done'.dest = dest
            /\ done'.carry = eflags.CF
    <2>1. PICK op \in Ops, n \in Sizes, src \in Register, dest \in Nat :
            LET r == Executed(op, n, src, dest, eflags.CF, eflags) IN
            /\ dest \in Operands(2 * n)
            /\ done' = [op |-> op, n |-> n, src |-> src, dest |-> dest,
                        carry |-> eflags.CF, res |-> r.res]
      BY ExecuteIs
    <2>2. QED
      BY <2>1
  <1>3. eflags' \in Flags
        /\ done'.res \in Operands(IF op \in Products \cup Divisions THEN 2 * n ELSE n)
    <2>1. CASE op \in (Unary \cup Binary) \ {"and", "or", "xor"}
      <3>1. /\ op \in {"add", "adc", "inc", "sub", "cmp", "sbb", "dec", "neg"}
            /\ op \notin Products \cup Divisions
        BY <2>1 DEF Unary, Binary, Products, Divisions
      <3>2. QED
        BY <1>1, <1>2, <3>1, SumStep
    <2>2. CASE op \notin (Unary \cup Binary) \ {"and", "or", "xor"}
      BY <1>1, <1>2, <2>2, OtherStep
    <2>3. QED
      BY <2>1, <2>2
  <1>4. AluTypeOK'
    <2>1. eflags.CF \in {0, 1}
      BY <1>1 DEF Flags
    <2>2. QED
      BY <1>2, <1>3, <2>1 DEF AluTypeOK
  <1>5. SumsAreExact'
    BY <1>1, SumStep
  <1>6. ShiftsAreExact' /\ ProductsAreExact' /\ DivisionsAreExact'
    BY <1>1, OtherStep
  <1>7. ConditionsTell'
    <2>1. src \in Int /\ dest \in Int
      BY SourcesFit
    <2>2. done'.n \in Sizes \cup {W} /\ done'.src \in Int /\ done'.dest \in Int
      BY <1>2, <2>1
    <2>3. (SumsAreExact /\ eflags \in Flags /\ done.n \in Sizes \cup {W}
             /\ done.src \in Int /\ done.dest \in Int => ConditionsTell)'
      BY Conditions, PTL
    <2>4. QED
      BY <1>3, <1>5, <2>2, <2>3
  <1>8. QED
    BY <1>4, <1>5, <1>6, <1>7 DEF AluInv, ArithmeticIsExact

LEMMA AluStep ==
    ASSUME AluInv, [AluNext]_aluVars
    PROVE  AluInv'
  <1>1. CASE Execute
    BY <1>1, ExecuteExactly
  <1>2. CASE Fetch
    <2>1. done' = Fetched /\ eflags' \in Flags
      BY <1>2 DEF Fetch, AluInv, AluTypeOK
    <2>2. (done = Fetched /\ eflags \in Flags => AluInv)'
      BY FetchedIs, PTL
    <2>3. QED
      BY <2>1, <2>2 DEF Fetched
  <1>3. CASE UNCHANGED aluVars
    <2>1. done' = done /\ eflags' = eflags
      BY <1>3 DEF aluVars
    <2>2. AluTypeOK'
      BY <2>1 DEF AluInv, AluTypeOK
    <2>3. SumsAreExact' /\ ShiftsAreExact' /\ ProductsAreExact' /\ DivisionsAreExact'
      BY <2>1, Zenon DEF AluInv, ArithmeticIsExact, SumsAreExact, ShiftsAreExact, ProductsAreExact,
            DivisionsAreExact, Exact, ShiftExact, ProductExact, DivisionExact
    <2>4. ConditionsTell'
      BY <2>1, Zenon DEF AluInv, ConditionsTell, condition
    <2>5. QED
      BY <2>2, <2>3, <2>4 DEF AluInv, ArithmeticIsExact
  <1>4. QED
    BY <1>1, <1>2, <1>3 DEF AluNext

LEMMA ArithmeticInvariance == Spec => []AluInv
  <1>1. Init => AluInv
    <2>1. ASSUME Init
          PROVE  done = Fetched /\ eflags \in Flags
      BY <2>1 DEF Init, AluInit, Flags
    <2>2. QED
      BY <2>1, FetchedIs
  <1>2. AluInv /\ [Next]_machineVars => AluInv'
    BY LayerSteps, AluStep
  <1>3. QED
    BY <1>1, <1>2, PTL DEF Spec

\* At every width, for every value of the operands: sums and differences of
\* several words come out right word by word, shifts leave the last bit they
\* moved out, products and divisions lose nothing on their way through two words
\* (cpu/alu.c and the instructions that call it).
THEOREM InstructionsAreExact == Spec => []ArithmeticIsExact
  <1>1. AluInv => ArithmeticIsExact
    BY DEF AluInv
  <1>2. QED
    BY <1>1, ArithmeticInvariance, PTL

\* After a comparison jcc, setcc and cmov find the order of the two numbers, with
\* and without a sign, also where their difference overflows (instr_helper.h).
THEOREM ConditionsTellTheOrder == Spec => []ConditionsTell
  <1>1. AluInv => ConditionsTell
    BY DEF AluInv
  <1>2. QED
    BY <1>1, ArithmeticInvariance, PTL

-----------------------------------------------------------------------------
\* The layers together: no two pages share a frame and the TLB holds what the
\* tables say, a line is in one way and its copy is only stale where a store tore
\* it, and flags, operands, results and registers are what their types say.
THEOREM MachineInvariance == Spec => []MachineInv
  <1>1. Init => PgInit /\ CacheInit /\ FpuInit
    BY DEF Init
  <1>2. [Next]_machineVars => [PgNext]_pgVars /\ [CacheNext]_cacheVars /\ [FpuNext]_fpuVars
    BY LayerSteps
  <1>3. PgSpec => []PagingInv
    BY PagingInvariance
  <1>4. CacheSpec => []CacheInv
    BY CacheIsSound
  <1>5. FpuInit /\ [][FpuNext]_fpuVars => [](FpuTypeOK /\ FloatsRound)
    BY FpuIsSound
  <1>6. AluInv => AluTypeOK
    BY DEF AluInv
  <1>7. PagingInv /\ AluTypeOK /\ FpuTypeOK /\ CacheInv => MachineInv
    BY DEF MachineInv
  <1>8. QED
    BY <1>1, <1>2, <1>3, <1>4, <1>5, <1>6, <1>7, ArithmeticInvariance, PTL
       DEF Spec, PgSpec, CacheSpec

\* A program's sums, differences, products and quotients are rounded, or are the
\* NaN, infinity or zero that their operands call for, for floats of any widths.
THEOREM FloatsAreRounded == Spec => []FloatsRound
  <1>1. Init => FpuInit
    BY DEF Init
  <1>2. [Next]_machineVars => [FpuNext]_fpuVars
    BY LayerSteps
  <1>3. FpuInit /\ [][FpuNext]_fpuVars => [](FpuTypeOK /\ FloatsRound)
    BY FpuIsSound
  <1>4. QED
    BY <1>1, <1>2, <1>3, PTL DEF Spec

\* Programs find what they were loaded with and what they stored, by way of
\* page tables and TLB, and by way of the data cache but for torn bytes.
THEOREM MemoryOfTheMachine ==
    Spec => ImplementsMemory /\ []RunsInItsImage /\ []LoadsAreCurrent
  <1>1. Init => PgInit /\ CacheInit
    BY DEF Init
  <1>2. [Next]_machineVars => [PgNext]_pgVars /\ [CacheNext]_cacheVars
    BY LayerSteps
  <1>3. PgSpec => ImplementsMemory
    BY PagingImplementsMemory
  <1>4. PgSpec => []RunsInItsImage
    BY ProgramsRunInTheirImage
  <1>5. CacheSpec => []LoadsAreCurrent
    BY CacheReturnsTheLastStore
  <1>6. QED
    BY <1>1, <1>2, <1>3, <1>4, <1>5, PTL DEF Spec, PgSpec, CacheSpec
=============================================================================
