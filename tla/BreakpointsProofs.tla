--------------------------- MODULE BreakpointsProofs ---------------------------
(***************************************************************************)
(* The monitor for any pool, program and places of breakpoints: the pool   *)
(* keeps its entries, the program its bytes, a listed breakpoint stops the *)
(* program, and the end of the program is final.                           *)
(***************************************************************************)
EXTENDS Breakpoints, SequenceTheorems, FiniteSetTheorems, TLAPS

-----------------------------------------------------------------------------
\* Lists without repetitions.

Elems(s) == {s[j] : j \in 1..Len(s)}
OneEach(s) == \A i, j \in 1..Len(s) : s[i] = s[j] => i = j

LEMMA Put ==
    ASSUME NEW S, NEW s \in Seq(S), NEW p \in S
    PROVE  /\ <<p>> \o s \in Seq(S) /\ Len(<<p>> \o s) = Len(s) + 1
           /\ (<<p>> \o s)[1] = p
           /\ \A j \in 1..Len(s) : (<<p>> \o s)[j + 1] = s[j]
           /\ Elems(<<p>> \o s) = {p} \cup Elems(s)
           /\ OneEach(s) /\ p \notin Elems(s) => OneEach(<<p>> \o s)
  <1> DEFINE t == <<p>> \o s
  <1>1. <<p>> \in Seq(S) /\ Len(<<p>>) = 1 /\ Len(s) \in Nat
    BY LenProperties
  <1>2. /\ t \in Seq(S) /\ Len(t) = Len(s) + 1
        /\ \A j \in 1..(Len(s) + 1) : t[j] = IF j <= 1 THEN <<p>>[j] ELSE s[j - 1]
    BY <1>1, ConcatProperties
  <1>3. t[1] = p /\ \A j \in 2..(Len(s) + 1) : t[j] = s[j - 1]
    BY <1>1, <1>2
  <1> HIDE DEF t
  <1>4. \A j \in 1..Len(s) : t[j + 1] = s[j]
    BY <1>1, <1>3
  <1>5. Elems(t) = {p} \cup Elems(s)
    <2>1. ASSUME NEW e \in Elems(t) PROVE e \in {p} \cup Elems(s)
      <3>1. PICK j \in 1..(Len(s) + 1) : e = t[j]
        BY <1>2 DEF Elems
      <3>2. CASE j = 1
        BY <1>3, <3>1, <3>2
      <3>3. CASE j # 1
        <4>1. e = s[j - 1] /\ j - 1 \in 1..Len(s)
          BY <1>1, <1>3, <3>1, <3>3
        <4>2. QED
          BY <4>1 DEF Elems
      <3>4. QED
        BY <3>2, <3>3
    <2>2. p \in Elems(t)
      <3>1. 1 \in 1..Len(t)
        BY <1>1, <1>2
      <3>2. QED
        BY <1>3, <3>1 DEF Elems
    <2>3. ASSUME NEW j \in 1..Len(s) PROVE s[j] \in Elems(t)
      <3>1. j + 1 \in 1..Len(t)
        BY <1>1, <1>2
      <3>2. QED
        BY <1>4, <3>1 DEF Elems
    <2>4. QED
      BY <2>1, <2>2, <2>3 DEF Elems
  <1>6. ASSUME OneEach(s), p \notin Elems(s) PROVE OneEach(t)
    <2>1. ASSUME NEW i \in 1..Len(t), NEW j \in 1..Len(t), t[i] = t[j], i # 1, j # 1
          PROVE  i = j
      <3>1. i - 1 \in 1..Len(s) /\ j - 1 \in 1..Len(s) /\ t[i] = s[i - 1] /\ t[j] = s[j - 1]
        BY <1>1, <1>2, <1>3, <2>1
      <3>2. i - 1 = j - 1
        BY <1>6, <2>1, <3>1 DEF OneEach
      <3>3. QED
        BY <3>2
    <2>2. ASSUME NEW j \in 1..Len(t), j # 1 PROVE t[j] # t[1]
      <3>1. j - 1 \in 1..Len(s) /\ t[j] = s[j - 1]
        BY <1>1, <1>2, <1>3, <2>2
      <3>2. QED
        BY <1>3, <1>6, <3>1 DEF Elems
    <2>3. QED
      BY <2>1, <2>2 DEF OneEach
  <1>7. QED
    BY <1>2, <1>3, <1>4, <1>5, <1>6 DEF t

LEMMA Popped ==
    ASSUME NEW S, NEW s \in Seq(S), s # <<>>, OneEach(s)
    PROVE  /\ Head(s) \in S /\ Head(s) \in Elems(s)
           /\ Tail(s) \in Seq(S) /\ Len(Tail(s)) = Len(s) - 1
           /\ Elems(Tail(s)) = Elems(s) \ {Head(s)} /\ OneEach(Tail(s))
  <1>1. Len(s) \in Nat \ {0} /\ Head(s) = s[1] /\ Head(s) \in S
    BY EmptySeq, HeadTailProperties, LenProperties
  <1>2. /\ Tail(s) \in Seq(S) /\ Len(Tail(s)) = Len(s) - 1
        /\ \A j \in 1..(Len(s) - 1) : Tail(s)[j] = s[j + 1]
    BY HeadTailProperties
  <1>3. Head(s) \in Elems(s)
    BY <1>1 DEF Elems
  <1>4. Elems(Tail(s)) = Elems(s) \ {Head(s)}
    <2>1. ASSUME NEW j \in 1..(Len(s) - 1) PROVE Tail(s)[j] \in Elems(s) \ {Head(s)}
      <3>1. j + 1 \in 1..Len(s) /\ j + 1 # 1 /\ 1 \in 1..Len(s)
        BY <1>1
      <3>2. s[j + 1] # s[1]
        BY <3>1 DEF OneEach
      <3>3. QED
        BY <1>1, <1>2, <3>1, <3>2 DEF Elems
    <2>2. ASSUME NEW j \in 1..Len(s), s[j] # Head(s) PROVE s[j] \in Elems(Tail(s))
      <3>1. j - 1 \in 1..(Len(s) - 1) /\ Tail(s)[j - 1] = s[j]
        BY <1>1, <1>2, <2>2
      <3>2. QED
        BY <1>2, <3>1 DEF Elems
    <2>3. QED
      BY <1>2, <2>1, <2>2 DEF Elems
  <1>5. OneEach(Tail(s))
    <2>1. ASSUME NEW i \in 1..(Len(s) - 1), NEW j \in 1..(Len(s) - 1), Tail(s)[i] = Tail(s)[j]
          PROVE  i = j
      <3>1. i + 1 \in 1..Len(s) /\ j + 1 \in 1..Len(s)
        BY <1>1
      <3>2. s[i + 1] = s[j + 1]
        BY <1>2, <2>1
      <3>3. i + 1 = j + 1
        BY <3>1, <3>2 DEF OneEach
      <3>4. QED
        BY <3>3
    <2>2. QED
      BY <1>2, <2>1 DEF OneEach
  <1>6. QED
    BY <1>1, <1>2, <1>3, <1>4, <1>5

LEMMA Joined ==
    ASSUME NEW S, NEW s \in Seq(S), NEW t \in Seq(S)
    PROVE  /\ s \o t \in Seq(S) /\ Len(s \o t) = Len(s) + Len(t)
           /\ Elems(s \o t) = Elems(s) \cup Elems(t)
           /\ OneEach(s) /\ OneEach(t) /\ Elems(s) \cap Elems(t) = {} => OneEach(s \o t)
  <1> DEFINE u == s \o t
  <1>1. Len(s) \in Nat /\ Len(t) \in Nat
    BY LenProperties
  <1>2. /\ u \in Seq(S) /\ Len(u) = Len(s) + Len(t)
        /\ \A j \in 1..(Len(s) + Len(t)) : u[j] = IF j <= Len(s) THEN s[j] ELSE t[j - Len(s)]
    BY ConcatProperties
  <1> HIDE DEF u
  <1>3. ASSUME NEW j \in 1..Len(u)
        PROVE  \/ j \in 1..Len(s) /\ u[j] = s[j]
               \/ j - Len(s) \in 1..Len(t) /\ u[j] = t[j - Len(s)]
    BY <1>1, <1>2
  <1>4. /\ \A j \in 1..Len(s) : j \in 1..Len(u) /\ u[j] = s[j]
        /\ \A j \in 1..Len(t) : j + Len(s) \in 1..Len(u) /\ u[j + Len(s)] = t[j]
    <2>1. \A j \in 1..Len(s) : j \in 1..Len(u) /\ u[j] = s[j]
      BY <1>1, <1>2
    <2>2. ASSUME NEW j \in 1..Len(t) PROVE j + Len(s) \in 1..Len(u) /\ u[j + Len(s)] = t[j]
      <3>1. j + Len(s) \in 1..Len(u) /\ ~(j + Len(s) <= Len(s)) /\ (j + Len(s)) - Len(s) = j
        BY <1>1, <1>2
      <3>2. QED
        BY <1>2, <3>1
    <2>3. QED
      BY <2>1, <2>2
  <1>5. Elems(u) = Elems(s) \cup Elems(t)
    <2>1. Elems(u) \subseteq Elems(s) \cup Elems(t)
      BY <1>3 DEF Elems
    <2>2. Elems(s) \subseteq Elems(u)
      BY <1>4 DEF Elems
    <2>3. Elems(t) \subseteq Elems(u)
      BY <1>4 DEF Elems
    <2>4. QED
      BY <2>1, <2>2, <2>3
  <1>6. ASSUME OneEach(s), OneEach(t), Elems(s) \cap Elems(t) = {} PROVE OneEach(u)
    <2>1. ASSUME NEW i \in 1..Len(u), NEW j \in 1..Len(u), u[i] = u[j] PROVE i = j
      <3>1. CASE i \in 1..Len(s) /\ u[i] = s[i] /\ j \in 1..Len(s) /\ u[j] = s[j]
        BY <1>6, <2>1, <3>1 DEF OneEach
      <3>2. CASE i - Len(s) \in 1..Len(t) /\ u[i] = t[i - Len(s)]
                 /\ j - Len(s) \in 1..Len(t) /\ u[j] = t[j - Len(s)]
        <4>1. i - Len(s) = j - Len(s)
          BY <1>6, <2>1, <3>2 DEF OneEach
        <4>2. QED
          BY <1>1, <4>1
      <3>3. CASE i \in 1..Len(s) /\ u[i] = s[i] /\ j - Len(s) \in 1..Len(t) /\ u[j] = t[j - Len(s)]
        BY <1>6, <2>1, <3>3 DEF Elems
      <3>4. CASE j \in 1..Len(s) /\ u[j] = s[j] /\ i - Len(s) \in 1..Len(t) /\ u[i] = t[i - Len(s)]
        BY <1>6, <2>1, <3>4 DEF Elems
      <3>5. QED
        BY <1>3, <3>1, <3>2, <3>3, <3>4
    <2>2. QED
      BY <2>1 DEF OneEach
  <1>7. QED
    BY <1>2, <1>5, <1>6 DEF u

LEMMA Removed ==
    ASSUME NEW S, NEW s \in Seq(S), OneEach(s), NEW j \in 1..Len(s)
    PROVE  /\ RemoveAt(s, j) \in Seq(S) /\ Len(RemoveAt(s, j)) = Len(s) - 1
           /\ Elems(RemoveAt(s, j)) = Elems(s) \ {s[j]} /\ OneEach(RemoveAt(s, j))
  <1> DEFINE a == SubSeq(s, 1, j - 1)  b == SubSeq(s, j + 1, Len(s))
  <1>1. Len(s) \in Nat /\ j \in Nat /\ 1 <= j /\ j <= Len(s)
    BY LenProperties
  <1>2. \A i \in 1..Len(s) : s[i] \in S
    BY ElementOfSeq
  <1>3. /\ a \in Seq(S) /\ Len(a) = j - 1
        /\ \A i \in 1..(j - 1) : a[i] = s[i]
    <2>1. \A i \in 1..(j - 1) : i \in 1..Len(s)
      BY <1>1
    <2>2. /\ a \in Seq(S)
          /\ Len(a) = IF 1 <= j - 1 THEN (j - 1) - 1 + 1 ELSE 0
          /\ \A i \in 1..((j - 1) - 1 + 1) : a[i] = s[1 + i - 1]
      BY <1>1, <1>2, <2>1, SubSeqProperties
    <2>3. QED
      BY <1>1, <2>2
  <1>4. /\ b \in Seq(S) /\ Len(b) = Len(s) - j
        /\ \A i \in 1..(Len(s) - j) : b[i] = s[j + i]
    <2>1. \A i \in (j + 1)..Len(s) : i \in 1..Len(s)
      BY <1>1
    <2>2. /\ b \in Seq(S)
          /\ Len(b) = IF j + 1 <= Len(s) THEN Len(s) - (j + 1) + 1 ELSE 0
          /\ \A i \in 1..(Len(s) - (j + 1) + 1) : b[i] = s[j + 1 + i - 1]
      BY <1>1, <1>2, <2>1, SubSeqProperties
    <2>3. QED
      BY <1>1, <2>2
  <1>5. RemoveAt(s, j) = a \o b
    BY DEF RemoveAt
  <1> HIDE DEF a, b
  <1>6. OneEach(a)
    BY <1>1, <1>3 DEF OneEach
  <1>7. OneEach(b)
    <2>1. ASSUME NEW i \in 1..Len(b), NEW k \in 1..Len(b), b[i] = b[k] PROVE i = k
      <3>1. j + i \in 1..Len(s) /\ j + k \in 1..Len(s) /\ s[j + i] = s[j + k]
        BY <1>1, <1>4, <2>1
      <3>2. j + i = j + k
        BY <3>1 DEF OneEach
      <3>3. QED
        BY <1>1, <3>2
    <2>2. QED
      BY <2>1 DEF OneEach
  <1>8. Elems(a) = {s[i] : i \in 1..(j - 1)}
    BY <1>3 DEF Elems
  <1>9. Elems(b) = {s[i] : i \in (j + 1)..Len(s)}
    <2>1. ASSUME NEW i \in 1..Len(b) PROVE b[i] \in {s[k] : k \in (j + 1)..Len(s)}
      <3>1. b[i] = s[j + i] /\ j + i \in (j + 1)..Len(s)
        BY <1>1, <1>4
      <3>2. QED
        BY <3>1
    <2>2. ASSUME NEW k \in (j + 1)..Len(s) PROVE s[k] \in Elems(b)
      <3>1. k - j \in 1..Len(b) /\ b[k - j] = s[k]
        BY <1>1, <1>4
      <3>2. QED
        BY <3>1 DEF Elems
    <2>3. QED
      BY <2>1, <2>2 DEF Elems
  <1>10. Elems(a) \cap Elems(b) = {}
    <2>1. ASSUME NEW i \in 1..(j - 1), NEW k \in (j + 1)..Len(s) PROVE s[i] # s[k]
      BY <1>1 DEF OneEach
    <2>2. QED
      BY <1>8, <1>9, <2>1
  <1>11. Elems(a) \cup Elems(b) = Elems(s) \ {s[j]}
    <2>1. ASSUME NEW i \in 1..Len(s), s[i] # s[j] PROVE s[i] \in Elems(a) \cup Elems(b)
      <3>1. i \in 1..(j - 1) \/ i \in (j + 1)..Len(s)
        BY <1>1, <2>1
      <3>2. QED
        BY <1>8, <1>9, <3>1
    <2>2. ASSUME NEW i \in 1..(j - 1) PROVE s[i] \in Elems(s) /\ s[i] # s[j]
      BY <1>1 DEF OneEach, Elems
    <2>3. ASSUME NEW i \in (j + 1)..Len(s) PROVE s[i] \in Elems(s) /\ s[i] # s[j]
      BY <1>1 DEF OneEach, Elems
    <2>4. QED
      BY <1>8, <1>9, <2>1, <2>2, <2>3 DEF Elems
  <1>12. QED
    BY <1>1, <1>3, <1>4, <1>5, <1>6, <1>7, <1>10, <1>11, Joined

-----------------------------------------------------------------------------
\* The pool: its entries are in one of two lists, once.

Lists ==
    /\ head \in Seq(NOs) /\ free_ \in Seq(NOs) /\ OneEach(head) /\ OneEach(free_)
    /\ Elems(head) \cap Elems(free_) = {} /\ Elems(head) \cup Elems(free_) = NOs
    /\ Len(head) + Len(free_) = NR_BP

Fields(r) == r = [type |-> r.type, addr |-> r.addr, ori_byte |-> r.ori_byte,
                  old_val |-> r.old_val, in_use |-> r.in_use]

Entries ==
    /\ pool = [p \in NOs |-> pool[p]]
    /\ \A p \in NOs : Fields(pool[p]) /\ pool[p].in_use = (p \in Elems(head))

PoolInv == Lists /\ Entries

LEMMA ListedNumbers ==
    ASSUME head \in Seq(NOs)
    PROVE  DOMAIN head = 1..Len(head) /\ Elems(head) \subseteq NOs
           /\ \A j \in DOMAIN head : head[j] \in Elems(head)
  <1>1. DOMAIN head = 1..Len(head) /\ \A j \in 1..Len(head) : head[j] \in NOs
    BY LenProperties, ElementOfSeq
  <1>2. QED
    BY <1>1 DEF Elems

LEMMA TakesOne ==
    ASSUME Lists, NEW entry, Take(entry)
    PROVE  /\ Lists' /\ Head(free_) \in NOs \ Elems(head)
           /\ Elems(head)' = Elems(head) \cup {Head(free_)}
           /\ DOMAIN head' = 1..(Len(head) + 1) /\ head'[1] = Head(free_)
           /\ \A j \in 1..Len(head) : head'[j + 1] = head[j]
  <1>1. /\ Head(free_) \in NOs /\ Head(free_) \in Elems(free_)
        /\ Tail(free_) \in Seq(NOs) /\ Len(Tail(free_)) = Len(free_) - 1
        /\ Elems(Tail(free_)) = Elems(free_) \ {Head(free_)} /\ OneEach(Tail(free_))
    BY Popped DEF Lists, Take
  <1> DEFINE p == Head(free_)
  <1> HIDE DEF p
  <1>2. p \in NOs \ Elems(head)
    BY <1>1 DEF Lists, p
  <1>3. head' = <<p>> \o head /\ free_' = Tail(free_)
    BY DEF Take, p
  <1>4. /\ <<p>> \o head \in Seq(NOs) /\ Len(<<p>> \o head) = Len(head) + 1
        /\ (<<p>> \o head)[1] = p
        /\ \A j \in 1..Len(head) : (<<p>> \o head)[j + 1] = head[j]
        /\ Elems(<<p>> \o head) = {p} \cup Elems(head)
        /\ OneEach(<<p>> \o head)
    BY <1>2, Put DEF Lists
  <1>5. Elems(head)' = Elems(head) \cup {p} /\ Elems(free_)' = Elems(free_) \ {p}
    <2>1. Elems(head') = Elems(head) \cup {p}
      BY <1>3, <1>4
    <2>2. Elems(free_') = Elems(free_) \ {p}
      BY <1>1, <1>3 DEF p
    <2>3. QED
      BY <2>1, <2>2
  <1>6. Len(head') + Len(free_') = NR_BP
    <2>1. Len(head) \in Nat /\ Len(free_) \in Nat
      BY LenProperties DEF Lists
    <2>2. QED
      BY <1>1, <1>3, <1>4, <2>1 DEF Lists, p
  <1>7. Lists'
    <2>1. head' \in Seq(NOs) /\ free_' \in Seq(NOs)
      BY <1>1, <1>3, <1>4
    <2>2. OneEach(head)' /\ OneEach(free_)'
      BY <1>1, <1>3, <1>4 DEF OneEach
    <2>3. (Elems(head) \cap Elems(free_))' = {} /\ (Elems(head) \cup Elems(free_))' = NOs
      BY <1>2, <1>5 DEF Lists
    <2>4. QED
      BY <1>6, <2>1, <2>2, <2>3 DEF Lists, NOs
  <1>8. DOMAIN head' = 1..(Len(head) + 1)
    BY <1>3, <1>4, LenProperties
  <1>9. QED
    BY <1>2, <1>3, <1>4, <1>5, <1>7, <1>8 DEF p

LEMMA TakenEntry ==
    ASSUME PoolInv, NEW t, NEW a, NEW b, NEW v,
           Take([type |-> t, addr |-> a, ori_byte |-> b, old_val |-> v, in_use |-> TRUE])
    PROVE  /\ PoolInv'
           /\ pool'[Head(free_)] =
                [type |-> t, addr |-> a, ori_byte |-> b, old_val |-> v, in_use |-> TRUE]
           /\ \A p \in Elems(head) : pool'[p] = pool[p]
  <1> DEFINE r == [type |-> t, addr |-> a, ori_byte |-> b, old_val |-> v, in_use |-> TRUE]
  <1>1. /\ Lists' /\ Head(free_) \in NOs \ Elems(head)
        /\ Elems(head)' = Elems(head) \cup {Head(free_)}
    BY TakesOne DEF PoolInv
  <1>2. pool' = [pool EXCEPT ![Head(free_)] = r]
    BY DEF Take
  <1>3. Fields(r) /\ r.in_use = TRUE
    BY DEF Fields
  <1> HIDE DEF r
  <1>4. DOMAIN pool = NOs
    BY DEF PoolInv, Entries
  <1>5. \A p \in NOs : pool'[p] = IF p = Head(free_) THEN r ELSE pool[p]
    BY <1>2, <1>4
  <1>6. pool' = [p \in NOs |-> pool'[p]]
    BY <1>2, <1>4
  <1>7. Elems(head) \subseteq NOs
    BY DEF PoolInv, Lists
  <1>8. \A p \in NOs : (Fields(pool[p]))' /\ pool'[p].in_use = (p \in Elems(head)')
    <2>1. ASSUME NEW p \in NOs
          PROVE  Fields(pool'[p]) /\ pool'[p].in_use = (p \in Elems(head)')
      <3>1. CASE p = Head(free_)
        BY <1>1, <1>3, <1>5, <3>1
      <3>2. CASE p # Head(free_)
        BY <1>1, <1>5, <3>2 DEF PoolInv, Entries
      <3>3. QED
        BY <3>1, <3>2
    <2>2. QED
      BY <2>1 DEF Fields
  <1>9. Entries'
    BY <1>6, <1>8 DEF Entries, NOs
  <1>10. QED
    BY <1>1, <1>5, <1>7, <1>9 DEF PoolInv, r

LEMMA DeletesOne ==
    ASSUME PoolInv, NEW j \in DOMAIN head, Delete(j)
    PROVE  /\ PoolInv' /\ head[j] \in Elems(head)
           /\ Elems(head)' = Elems(head) \ {head[j]}
           /\ \A p \in Elems(head)' : pool'[p] = pool[p]
  <1> DEFINE q == head[j]
  <1>1. q \in Elems(head) /\ Elems(head) \subseteq NOs /\ j \in 1..Len(head)
    BY ListedNumbers DEF PoolInv, Lists
  <1>2. /\ RemoveAt(head, j) \in Seq(NOs) /\ Len(RemoveAt(head, j)) = Len(head) - 1
        /\ Elems(RemoveAt(head, j)) = Elems(head) \ {q} /\ OneEach(RemoveAt(head, j))
    BY <1>1, Removed DEF PoolInv, Lists
  <1>3. /\ pool' = [pool EXCEPT ![q].in_use = FALSE]
        /\ head' = RemoveAt(head, j) /\ free_' = <<q>> \o free_
    BY DEF Delete
  <1> HIDE DEF q
  <1>4. q \notin Elems(free_)
    BY <1>1 DEF PoolInv, Lists
  <1>5. /\ <<q>> \o free_ \in Seq(NOs) /\ Len(<<q>> \o free_) = Len(free_) + 1
        /\ Elems(<<q>> \o free_) = {q} \cup Elems(free_) /\ OneEach(<<q>> \o free_)
    BY <1>1, <1>4, Put DEF PoolInv, Lists
  <1>6. Elems(head)' = Elems(head) \ {q} /\ Elems(free_)' = Elems(free_) \cup {q}
    BY <1>2, <1>3, <1>5 DEF Elems
  <1>7. Lists'
    <2>1. head' \in Seq(NOs) /\ free_' \in Seq(NOs) /\ OneEach(head)' /\ OneEach(free_)'
      BY <1>2, <1>3, <1>5 DEF OneEach
    <2>2. (Elems(head) \cap Elems(free_))' = {} /\ (Elems(head) \cup Elems(free_))' = NOs
      BY <1>1, <1>6 DEF PoolInv, Lists
    <2>3. Len(head) \in Nat /\ Len(free_) \in Nat /\ Len(head) + Len(free_) = NR_BP
      BY LenProperties DEF PoolInv, Lists
    <2>4. Len(head') + Len(free_') = NR_BP
      <3>1. Len(head') = Len(head) - 1 /\ Len(free_') = Len(free_) + 1
        BY <1>2, <1>3, <1>5
      <3>2. QED
        BY <2>3, <3>1
    <2>5. QED
      BY <2>1, <2>2, <2>4 DEF Lists, NOs
  <1>8. DOMAIN pool = NOs /\ \A p \in NOs : Fields(pool[p])
    BY DEF PoolInv, Entries
  <1>9. /\ pool' = [p \in NOs |-> pool'[p]]
        /\ \A p \in NOs : pool'[p] = IF p = q THEN [pool[q] EXCEPT !.in_use = FALSE] ELSE pool[p]
    BY <1>1, <1>3, <1>8
  <1>10. Fields(pool'[q]) /\ pool'[q].in_use = FALSE
    BY <1>1, <1>8, <1>9 DEF Fields
  <1>11. ASSUME NEW p \in NOs
         PROVE  Fields(pool'[p]) /\ pool'[p].in_use = (p \in Elems(head)')
    <2>1. CASE p = q
      <3>1. (p \in Elems(head)') = FALSE
        BY <1>6, <2>1
      <3>2. QED
        BY <1>10, <2>1, <3>1
    <2>2. CASE p # q
      BY <1>6, <1>9, <2>2 DEF PoolInv, Entries
    <2>3. QED
      BY <2>1, <2>2
  <1>12. Entries'
    <2>1. \A p \in NOs : (Fields(pool[p]))' /\ pool'[p].in_use = (p \in Elems(head)')
      BY <1>11 DEF Fields
    <2>2. QED
      BY <1>9, <2>1 DEF Entries, NOs
  <1>13. QED
    BY <1>1, <1>6, <1>7, <1>9, <1>12 DEF PoolInv, q

LEMMA DeletesAll ==
    ASSUME PoolInv, DeleteAll
    PROVE  PoolInv' /\ Elems(head)' = {}
  <1>1. /\ head' = <<>> /\ free_' = head \o free_
        /\ pool' = [p \in NOs |-> [pool[p] EXCEPT !.in_use = FALSE]]
    BY DEF DeleteAll, NoneListed
  <1>2. /\ head \o free_ \in Seq(NOs) /\ Len(head \o free_) = Len(head) + Len(free_)
        /\ Elems(head \o free_) = Elems(head) \cup Elems(free_)
        /\ OneEach(head \o free_)
    BY Joined DEF PoolInv, Lists
  <1>3. Elems(head)' = {} /\ Elems(free_)' = NOs /\ head' \in Seq(NOs) /\ Len(head') = 0
    <2>1. head' \in Seq(NOs) /\ Len(head') = 0
      BY <1>1, EmptySeq
    <2>2. Elems(head)' = {}
      BY <2>1 DEF Elems
    <2>3. Elems(free_)' = NOs
      BY <1>1, <1>2 DEF Elems, PoolInv, Lists
    <2>4. QED
      BY <2>1, <2>2, <2>3
  <1>4. Lists'
    <2>1. OneEach(head)' /\ OneEach(free_)'
      BY <1>1, <1>2, <1>3 DEF OneEach
    <2>2. Len(head') + Len(free_') = NR_BP
      <3>1. Len(free_') = NR_BP /\ NR_BP \in Nat
        BY <1>1, <1>2, Parameters DEF PoolInv, Lists
      <3>2. QED
        BY <1>3, <3>1
    <2>3. QED
      BY <1>1, <1>2, <1>3, <2>1, <2>2 DEF Lists, NOs
  <1>5. ASSUME NEW p \in NOs PROVE Fields(pool'[p]) /\ pool'[p].in_use = (p \in Elems(head)')
    <2>1. pool'[p] = [pool[p] EXCEPT !.in_use = FALSE] /\ Fields(pool[p])
      BY <1>1 DEF PoolInv, Entries
    <2>2. Fields(pool'[p]) /\ pool'[p].in_use = FALSE
      BY <2>1 DEF Fields
    <2>3. (p \in Elems(head)') = FALSE
      BY <1>3
    <2>4. QED
      BY <2>2, <2>3
  <1>6. Entries'
    <2>1. \A p \in NOs : (Fields(pool[p]))' /\ pool'[p].in_use = (p \in Elems(head)')
      BY <1>5 DEF Fields
    <2>2. pool' = [p \in NOs |-> pool'[p]]
      BY <1>1
    <2>3. QED
      BY <2>1, <2>2 DEF Entries, NOs
  <1>7. QED
    BY <1>3, <1>4, <1>6 DEF PoolInv

LEMMA SameLists == ASSUME PoolInv, UNCHANGED list PROVE PoolInv'
  <1>1. head' = head /\ free_' = free_ /\ pool' = pool
    BY DEF list
  <1>2. Lists'
    BY <1>1 DEF PoolInv, Lists
  <1>3. Entries'
    BY <1>1 DEF PoolInv, Entries, Fields
  <1>4. QED
    BY <1>2, <1>3 DEF PoolInv

Renewed(p, q, v) ==
    /\ pool'[p].type = pool[p].type /\ pool'[p].addr = pool[p].addr
    /\ pool'[p].ori_byte = pool[p].ori_byte
    /\ pool'[p].old_val = IF p = q THEN v ELSE pool[p].old_val

LEMMA OldValue ==
    ASSUME PoolInv, NEW q, NEW v, pool' = [pool EXCEPT ![q].old_val = v],
           head' = head, free_' = free_
    PROVE  PoolInv' /\ \A p \in NOs : Renewed(p, q, v)
  <1>1. DOMAIN pool = NOs /\ \A p \in NOs : Fields(pool[p])
    BY DEF PoolInv, Entries
  <1>2. /\ pool' = [p \in NOs |-> pool'[p]]
        /\ \A p \in NOs : pool'[p] = IF p = q THEN [pool[p] EXCEPT !.old_val = v] ELSE pool[p]
    BY <1>1
  <1>3. ASSUME NEW p \in NOs
        PROVE  /\ Fields(pool'[p]) /\ pool'[p].in_use = pool[p].in_use
               /\ pool'[p].type = pool[p].type /\ pool'[p].addr = pool[p].addr
               /\ pool'[p].ori_byte = pool[p].ori_byte
               /\ pool'[p].old_val = IF p = q THEN v ELSE pool[p].old_val
    <2>1. CASE p = q
      BY <1>1, <1>2, <2>1 DEF Fields
    <2>2. CASE p # q
      BY <1>1, <1>2, <2>2
    <2>3. QED
      BY <2>1, <2>2
  <1>4. Lists'
    BY DEF PoolInv, Lists
  <1>5. Elems(head') = Elems(head)
    OBVIOUS
  <1>6. \A p \in NOs : pool'[p].in_use = (p \in Elems(head'))
    BY <1>3, <1>5 DEF PoolInv, Entries
  <1>7. Entries'
    BY <1>2, <1>3, <1>6 DEF Entries, NOs, Fields
  <1>8. \A p \in NOs : Renewed(p, q, v)
    BY <1>3 DEF Renewed
  <1>9. QED
    BY <1>4, <1>7, <1>8 DEF PoolInv

LEMMA PoolStarts == Init => PoolInv
  <1> SUFFICES ASSUME Init PROVE PoolInv
    OBVIOUS
  <1>1. NR_BP \in Nat \ {0}
    BY Parameters
  <1>2. free_ = [j \in 1..NR_BP |-> j - 1] /\ \A j \in 1..NR_BP : j - 1 \in NOs
    BY <1>1 DEF Init, NOs
  <1>3. free_ \in [1..NR_BP -> NOs]
    BY <1>2
  <1>4. free_ \in Seq(NOs)
    BY <1>1, <1>3, SeqDef
  <1>5. Len(free_) = NR_BP
    BY <1>1, <1>3, <1>4, LenProperties
  <1>6. head \in Seq(NOs) /\ Len(head) = 0 /\ Elems(head) = {} /\ OneEach(head)
    BY EmptySeq DEF Init, Elems, OneEach
  <1>7. OneEach(free_)
    BY <1>1, <1>2, <1>5 DEF OneEach
  <1>8. Elems(free_) = NOs
    <2>1. \A p \in NOs : p + 1 \in 1..NR_BP /\ (p + 1) - 1 = p
      BY <1>1 DEF NOs
    <2>2. \A p \in NOs : free_[p + 1] = p
      BY <1>2, <2>1
    <2>3. NOs \subseteq Elems(free_)
      BY <1>5, <2>1, <2>2 DEF Elems
    <2>4. Elems(free_) \subseteq NOs
      BY <1>2, <1>5 DEF Elems
    <2>5. QED
      BY <2>3, <2>4
  <1>9. Entries
    <2>1. \A p \in NOs : pool[p] = [type |-> "B", addr |-> 0, ori_byte |-> 0,
                                   old_val |-> 0, in_use |-> FALSE]
      BY DEF Init
    <2>2. pool = [p \in NOs |-> pool[p]]
      BY DEF Init
    <2>3. \A p \in NOs : (p \in Elems(head)) = FALSE
      BY <1>6
    <2>4. ASSUME NEW p \in NOs
          PROVE  Fields(pool[p]) /\ pool[p].in_use = (p \in Elems(head))
      <3>1. Fields(pool[p]) /\ pool[p].in_use = FALSE
        BY <2>1 DEF Fields
      <3>2. QED
        BY <2>3, <3>1
    <2>5. QED
      BY <2>2, <2>4 DEF Entries
  <1>10. QED
    BY <1>1, <1>4, <1>5, <1>6, <1>7, <1>8, <1>9 DEF PoolInv, Lists

LEMMA PoolSteps == PoolInv /\ [Next]_vars => PoolInv'
  <1> SUFFICES ASSUME PoolInv, [Next]_vars PROVE PoolInv'
    OBVIOUS
  <1>1. ASSUME NEW a \in Breakable, SetBreakpoint(a) PROVE PoolInv'
    BY <1>1, TakenEntry DEF SetBreakpoint
  <1>2. CASE SetWatchpoint
    BY <1>2, TakenEntry DEF SetWatchpoint
  <1>3. ASSUME NEW j \in DOMAIN head, Delete(j) PROVE PoolInv'
    BY <1>3, DeletesOne
  <1>4. CASE DeleteAll
    BY <1>4, DeletesAll
  <1>5. CASE ScanWatchpoint
    <2>1. CASE pool' = [pool EXCEPT ![First(Changed)].old_val = x]
      BY <1>5, <2>1, OldValue DEF ScanWatchpoint
    <2>2. CASE pool' = pool
      BY <1>5, <2>2, SameLists DEF ScanWatchpoint, list
    <2>3. QED
      BY <1>5, <2>1, <2>2 DEF ScanWatchpoint
  <1>6. CASE Exhausted \/ Quit \/ Ended \/ (\E k \in Runs : Exec(k))
    BY <1>6, SameLists DEF Exhausted, Quit, Ended, Exec, vars, list
  <1>7. CASE ExecInst \/ FindBreakpoint \/ Devices
    BY <1>7, SameLists DEF ExecInst, FindBreakpoint, Devices
  <1>8. CASE UNCHANGED vars
    BY <1>8, SameLists DEF vars, list
  <1>9. QED
    BY <1>1, <1>2, <1>3, <1>4, <1>5, <1>6, <1>7, <1>8 DEF Next, Edits, Steps

\* No entry is lost, listed twice, or both listed and free, and exactly the
\* listed ones are in use, for any pool, program and user (new_BP, free_BP).
THEOREM PoolIsKept == Spec => []PoolPartition
  <1>1. PoolInv => PoolPartition
    <2> SUFFICES ASSUME PoolInv PROVE PoolPartition
      OBVIOUS
    <2> DEFINE all == head \o free_
    <2>1. all \in Seq(NOs) /\ Len(all) = NR_BP /\ Elems(all) = NOs
      <3>1. /\ all \in Seq(NOs) /\ Len(all) = Len(head) + Len(free_)
            /\ Elems(all) = Elems(head) \cup Elems(free_)
        BY Joined DEF PoolInv, Lists
      <3>2. QED
        BY <3>1 DEF PoolInv, Lists
    <2>2. DOMAIN all = 1..Len(all)
      BY <2>1, LenProperties
    <2> HIDE DEF all
    <2>3. {all[j] : j \in DOMAIN all} = NOs
      BY <2>1, <2>2 DEF Elems
    <2>4. ASSUME NEW p \in NOs
          PROVE  pool[p].in_use <=> \E j \in DOMAIN head : head[j] = p
      <3>1. DOMAIN head = 1..Len(head)
        BY ListedNumbers DEF PoolInv, Lists
      <3>2. pool[p].in_use = (p \in Elems(head))
        BY DEF PoolInv, Entries
      <3>3. p \in Elems(head) <=> \E j \in DOMAIN head : head[j] = p
        BY <3>1 DEF Elems
      <3>4. QED
        BY <3>2, <3>3
    <2>5. QED
      BY <2>1, <2>3, <2>4 DEF PoolPartition, all
  <1>2. QED
    BY <1>1, PoolStarts, PoolSteps, PTL DEF Spec

-----------------------------------------------------------------------------
\* The program's bytes, when no two breakpoints are set at one address.

Marked == {p \in Elems(head) : pool[p].type = "B"}
Places == {pool[p].addr : p \in Marked}

MarksInv ==
    /\ \A p \in Marked : pool[p].addr \in Addr /\ pool[p].ori_byte = Code(pool[p].addr)
    /\ \A p, q \in Marked : pool[p].addr = pool[q].addr => p = q

BytesInv ==
    /\ mem \in [Addr -> Addr \cup {INT3}]
    /\ \A a \in Addr : mem[a] # Code(a) => mem[a] = INT3 /\ a \in Places

ProgramInv == PoolInv /\ MarksInv /\ BytesInv

LEMMA Codes ==
    /\ \A a \in Addr : Code(a) \in Addr \cup {INT3} /\ a \in Int /\ a >= 0
    /\ INT3 \notin Addr /\ Breakable \subseteq Addr
  BY Parameters DEF Code, Addr, INT3

LEMMA ListedArePlaces == PoolInv => \A a : Listed(a) <=> a \in Places
  <1> SUFFICES ASSUME PoolInv, NEW a PROVE Listed(a) <=> a \in Places
    OBVIOUS
  <1>1. DOMAIN head = 1..Len(head)
    BY ListedNumbers DEF PoolInv, Lists
  <1>2. Listed(a) <=> \E j \in 1..Len(head) : pool[head[j]].type = "B" /\ pool[head[j]].addr = a
    BY <1>1 DEF Listed, ListedAt
  <1>3. (\E j \in 1..Len(head) : pool[head[j]].type = "B" /\ pool[head[j]].addr = a)
            <=> \E p \in Elems(head) : pool[p].type = "B" /\ pool[p].addr = a
    BY DEF Elems
  <1>4. QED
    BY <1>2, <1>3 DEF Places, Marked

LEMMA FirstListed ==
    ASSUME PoolInv, MarksInv, NEW a, Listed(a)
    PROVE  a \in Addr /\ pool[First(ListedAt(a))].ori_byte = Code(a)
  <1>1. DOMAIN head = 1..Len(head) /\ Len(head) \in Nat /\ OneEach(head)
        /\ \A j \in DOMAIN head : head[j] \in Elems(head)
    BY ListedNumbers, LenProperties DEF PoolInv, Lists
  <1>2. PICK j \in ListedAt(a) : TRUE
    BY DEF Listed
  <1>3. j \in 1..Len(head) /\ head[j] \in Marked /\ pool[head[j]].addr = a
    BY <1>1, <1>2 DEF ListedAt, Marked
  <1>4. ListedAt(a) = {j}
    <2>1. ASSUME NEW i \in ListedAt(a) PROVE i = j
      <3>1. i \in 1..Len(head) /\ head[i] \in Marked /\ pool[head[i]].addr = a
        BY <1>1, <2>1 DEF ListedAt, Marked
      <3>2. head[i] = head[j]
        BY <1>3, <3>1 DEF MarksInv
      <3>3. QED
        BY <1>1, <1>3, <3>1, <3>2 DEF OneEach
    <2>2. QED
      BY <1>2, <2>1
  <1>5. (CHOOSE i \in {j} : \A l \in {j} : i <= l) = j
    <2>1. j \in {j} /\ \A l \in {j} : j <= l
      BY <1>1, <1>3
    <2>2. QED
      BY <2>1
  <1>6. First(ListedAt(a)) = head[j]
    BY <1>4, <1>5 DEF First
  <1>7. QED
    BY <1>3, <1>6 DEF MarksInv

\* What the commands do to the places.
LEMMA SetsPlace ==
    ASSUME ProgramInv, ~Same, NEW a \in Breakable, SetBreakpoint(a)
    PROVE  /\ PoolInv' /\ MarksInv' /\ a \in Addr
           /\ Places' = Places \cup {a} /\ mem' = [mem EXCEPT ![a] = INT3]
  <1>1. a \in Addr /\ a \notin Places /\ mem[a] = Code(a)
    BY ListedArePlaces, Codes DEF SetBreakpoint, ProgramInv, BytesInv
  <1> DEFINE f == Head(free_)
  <1>2. /\ PoolInv' /\ f \in NOs \ Elems(head) /\ Elems(head)' = Elems(head) \cup {f}
        /\ pool'[f] = [type |-> "B", addr |-> a, ori_byte |-> mem[a], old_val |-> 0, in_use |-> TRUE]
        /\ \A p \in Elems(head) : pool'[p] = pool[p]
    BY TakenEntry, TakesOne DEF SetBreakpoint, ProgramInv, PoolInv
  <1> HIDE DEF f
  <1>3. Marked' = Marked \cup {f} /\ f \notin Marked
    <2>1. pool'[f].type = "B"
      BY <1>2
    <2>2. QED
      BY <1>2, <2>1 DEF Marked
  <1>4. /\ pool'[f].addr = a /\ pool'[f].ori_byte = Code(a)
        /\ \A p \in Marked : pool'[p] = pool[p]
    BY <1>1, <1>2 DEF Marked
  <1>5. Places' = Places \cup {a}
    BY <1>3, <1>4 DEF Places
  <1>6. MarksInv'
    <2>1. ASSUME NEW p \in Marked' PROVE pool'[p].addr \in Addr /\ pool'[p].ori_byte = Code(pool'[p].addr)
      BY <1>1, <1>3, <1>4 DEF ProgramInv, MarksInv
    <2>2. ASSUME NEW p \in Marked PROVE pool'[p].addr # a
      BY <1>1, <1>4 DEF Places
    <2>3. ASSUME NEW p \in Marked', NEW q \in Marked', pool'[p].addr = pool'[q].addr PROVE p = q
      BY <1>3, <1>4, <2>2, <2>3 DEF ProgramInv, MarksInv
    <2>4. QED
      BY <2>1, <2>3 DEF MarksInv, Code, Addr, INT3
  <1>7. QED
    BY <1>1, <1>2, <1>5, <1>6 DEF SetBreakpoint

LEMMA SetsNoPlace ==
    ASSUME ProgramInv, SetWatchpoint
    PROVE  PoolInv' /\ MarksInv' /\ Places' = Places
  <1> DEFINE f == Head(free_)
  <1>1. /\ PoolInv' /\ f \in NOs \ Elems(head) /\ Elems(head)' = Elems(head) \cup {f}
        /\ pool'[f] = [type |-> "W", addr |-> 0, ori_byte |-> 0, old_val |-> x, in_use |-> TRUE]
        /\ \A p \in Elems(head) : pool'[p] = pool[p]
    BY TakenEntry, TakesOne DEF SetWatchpoint, ProgramInv, PoolInv
  <1> HIDE DEF f
  <1>2. Marked' = Marked
    <2>1. pool'[f].type = "W"
      BY <1>1
    <2>2. QED
      BY <1>1, <2>1 DEF Marked
  <1>3. \A p \in Marked : pool'[p] = pool[p]
    BY <1>1 DEF Marked
  <1>4. Places' = Places
    BY <1>2, <1>3 DEF Places
  <1>5. MarksInv'
    BY <1>2, <1>3 DEF ProgramInv, MarksInv, Code, Addr, INT3
  <1>6. QED
    BY <1>1, <1>4, <1>5

LEMMA DeletesPlace ==
    ASSUME ProgramInv, NEW j \in DOMAIN head, Delete(j)
    PROVE  /\ PoolInv' /\ MarksInv'
           /\ \/ Places' = Places /\ mem' = mem
              \/ \E a \in Addr : Places' = Places \ {a} /\ mem' = [mem EXCEPT ![a] = Code(a)]
  <1> DEFINE q == head[j]
  <1>1. /\ PoolInv' /\ q \in Elems(head) /\ Elems(head)' = Elems(head) \ {q}
        /\ \A p \in Elems(head)' : pool'[p] = pool[p]
    BY DeletesOne DEF ProgramInv
  <1>2. mem' = IF pool[q].type = "B" THEN [mem EXCEPT ![pool[q].addr] = pool[q].ori_byte] ELSE mem
    BY DEF Delete, Freed
  <1> HIDE DEF q
  <1>3. Marked' = Marked \ {q} /\ \A p \in Marked' : pool'[p] = pool[p]
    BY <1>1 DEF Marked
  <1>4. MarksInv'
    BY <1>3 DEF ProgramInv, MarksInv, Code, Addr, INT3
  <1>5. CASE pool[q].type = "B"
    <2>1. q \in Marked
      BY <1>1, <1>5 DEF Marked
    <2>2. pool[q].addr \in Addr /\ mem' = [mem EXCEPT ![pool[q].addr] = Code(pool[q].addr)]
      BY <1>2, <1>5, <2>1 DEF ProgramInv, MarksInv
    <2>3. Places' = Places \ {pool[q].addr}
      <3>1. \A p \in Marked : p # q => pool[p].addr # pool[q].addr
        BY <2>1 DEF ProgramInv, MarksInv
      <3>2. QED
        BY <1>3, <2>1, <3>1 DEF Places
    <2>4. QED
      BY <1>1, <1>4, <2>2, <2>3
  <1>6. CASE pool[q].type # "B"
    <2>1. Marked' = Marked
      BY <1>3, <1>6 DEF Marked
    <2>2. Places' = Places
      BY <1>3, <2>1 DEF Places
    <2>3. QED
      BY <1>1, <1>2, <1>4, <1>6, <2>2
  <1>7. QED
    BY <1>5, <1>6

LEMMA DeletesPlaces ==
    ASSUME ProgramInv, DeleteAll
    PROVE  /\ PoolInv' /\ MarksInv' /\ Places' = {}
           /\ mem' = [a \in Addr |-> Code(a)]
  <1>1. PoolInv' /\ Marked' = {}
    BY DeletesAll DEF ProgramInv, Marked
  <1>2. Places' = {} /\ MarksInv'
    BY <1>1 DEF Places, MarksInv
  <1>3. ASSUME NEW a \in Addr
        PROVE  (IF Listed(a) THEN pool[First(ListedAt(a))].ori_byte ELSE mem[a]) = Code(a)
    <2>1. CASE Listed(a)
      BY <2>1, FirstListed DEF ProgramInv
    <2>2. CASE ~Listed(a)
      BY <2>2, ListedArePlaces DEF ProgramInv, BytesInv
    <2>3. QED
      BY <2>1, <2>2
  <1>4. mem' = [a \in Addr |-> Code(a)]
    BY <1>3 DEF DeleteAll
  <1>5. QED
    BY <1>1, <1>2, <1>4

\* Steps that leave the list alone, old values excepted.
SamePlace(p) ==
    /\ pool'[p].type = pool[p].type /\ pool'[p].addr = pool[p].addr
    /\ pool'[p].ori_byte = pool[p].ori_byte

LEMMA SamePlaces ==
    ASSUME PoolInv, MarksInv, head' = head, \A p \in NOs : SamePlace(p)
    PROVE  MarksInv' /\ Places' = Places
  <1>1. Elems(head') = Elems(head) /\ Elems(head) \subseteq NOs
    BY DEF PoolInv, Lists
  <1>2. Marked' = Marked /\ Marked \subseteq NOs
    BY <1>1 DEF Marked, SamePlace
  <1>3. \A p \in Marked : pool'[p].addr = pool[p].addr /\ pool'[p].ori_byte = pool[p].ori_byte
    BY <1>2 DEF SamePlace
  <1>4. QED
    BY <1>2, <1>3 DEF MarksInv, Places, Code, Addr, INT3

LEMMA ScanKeepsPlaces ==
    ASSUME PoolInv, MarksInv, ScanWatchpoint
    PROVE  PoolInv' /\ MarksInv' /\ Places' = Places /\ mem' = mem
  <1>1. CASE pool' = [pool EXCEPT ![First(Changed)].old_val = x]
    <2>1. PoolInv' /\ \A p \in NOs : Renewed(p, First(Changed), x)
      BY <1>1, OldValue DEF ScanWatchpoint
    <2>2. head' = head /\ mem' = mem /\ \A p \in NOs : SamePlace(p)
      BY <2>1 DEF ScanWatchpoint, SamePlace, Renewed
    <2>3. QED
      BY <2>1, <2>2, SamePlaces
  <1>2. CASE pool' = pool
    <2>1. UNCHANGED list /\ mem' = mem /\ \A p \in NOs : SamePlace(p)
      BY <1>2 DEF ScanWatchpoint, list, SamePlace
    <2>2. QED
      BY <2>1, SamePlaces, SameLists DEF list
  <1>3. QED
    BY <1>1, <1>2 DEF ScanWatchpoint

LEMMA ListKeepsPlaces ==
    ASSUME PoolInv, MarksInv, UNCHANGED list
    PROVE  PoolInv' /\ MarksInv' /\ Places' = Places
  <1>1. head' = head /\ \A p \in NOs : SamePlace(p)
    BY DEF list, SamePlace
  <1>2. QED
    BY <1>1, SamePlaces, SameLists

\* What the steps of exec() do to memory.
LEMMA ExecutionMemory ==
    ASSUME ProgramInv
    PROVE  /\ Resumed = [a \in Addr |-> IF a \in Places THEN INT3 ELSE mem[a]]
           /\ ExecInst => mem' = IF rerun THEN Resumed ELSE mem
           /\ FindBreakpoint =>
                IF nemu_state = "BREAK" /\ eip - 1 \in Places
                THEN /\ mem' = [mem EXCEPT ![eip - 1] = Code(eip - 1)]
                     /\ eip' = eip - 1 /\ eip - 1 \in Addr
                ELSE mem' = mem /\ eip' = eip
  <1>1. Resumed = [a \in Addr |-> IF a \in Places THEN INT3 ELSE mem[a]]
    BY ListedArePlaces DEF Resumed, ProgramInv
  <1>2. ExecInst => mem' = IF rerun THEN Resumed ELSE mem
    BY DEF ExecInst
  <1>3. ASSUME FindBreakpoint
        PROVE  IF nemu_state = "BREAK" /\ eip - 1 \in Places
                THEN /\ mem' = [mem EXCEPT ![eip - 1] = Code(eip - 1)]
                     /\ eip' = eip - 1 /\ eip - 1 \in Addr
                ELSE mem' = mem /\ eip' = eip
    <2>1. Listed(eip - 1) <=> eip - 1 \in Places
      BY ListedArePlaces DEF ProgramInv
    <2>2. Listed(eip - 1) => eip - 1 \in Addr /\ Restored(eip - 1) = [mem EXCEPT ![eip - 1] = Code(eip - 1)]
      BY FirstListed DEF ProgramInv, Restored
    <2>3. QED
      BY <1>3, <2>1, <2>2 DEF FindBreakpoint, Back
  <1>4. QED
    BY <1>1, <1>2, <1>3

\* One way or another, memory changes in one of these ways.
Armed(a)   == Places' = Places \cup {a} /\ mem' = [mem EXCEPT ![a] = INT3]
Disarmed(a) == Places' \in {Places, Places \ {a}} /\ mem' = [mem EXCEPT ![a] = Code(a)]
Cleared    == Places' = {} /\ mem' = [a \in Addr |-> Code(a)]
Rearmed    == /\ Places' = Places
              /\ mem' = [a \in Addr |-> IF a \in Places THEN INT3 ELSE mem[a]]

LEMMA BytesChange ==
    ASSUME BytesInv,
           \/ \E a \in Addr : Armed(a) \/ Disarmed(a)
           \/ Cleared \/ Rearmed
           \/ Places' = Places /\ mem' = mem
    PROVE  BytesInv'
  <1>1. mem \in [Addr -> Addr \cup {INT3}]
        /\ \A a \in Addr : Code(a) \in Addr \cup {INT3}
    BY Codes DEF BytesInv
  <1>2. ASSUME NEW a \in Addr, Armed(a) PROVE BytesInv'
    <2>1. mem' \in [Addr -> Addr \cup {INT3}]
          /\ \A b \in Addr : mem'[b] = IF b = a THEN INT3 ELSE mem[b]
      BY <1>1, <1>2 DEF Armed
    <2>2. \A b \in Addr : mem'[b] # Code(b) => mem'[b] = INT3 /\ b \in Places'
      BY <1>2, <2>1 DEF Armed, BytesInv
    <2>3. QED
      BY <2>1, <2>2 DEF BytesInv, Code, Addr, INT3
  <1>3. ASSUME NEW a \in Addr, Disarmed(a) PROVE BytesInv'
    <2>1. mem' \in [Addr -> Addr \cup {INT3}]
          /\ \A b \in Addr : mem'[b] = IF b = a THEN Code(a) ELSE mem[b]
      BY <1>1, <1>3 DEF Disarmed
    <2>2. \A b \in Addr : mem'[b] # Code(b) => mem'[b] = INT3 /\ b \in Places'
      BY <1>3, <2>1 DEF Disarmed, BytesInv
    <2>3. QED
      BY <2>1, <2>2 DEF BytesInv, Code, Addr, INT3
  <1>4. CASE Cleared
    <2>1. mem' \in [Addr -> Addr \cup {INT3}] /\ \A b \in Addr : mem'[b] = Code(b)
      BY <1>1, <1>4 DEF Cleared
    <2>2. QED
      BY <2>1 DEF BytesInv, Code, Addr, INT3
  <1>5. CASE Rearmed
    <2>1. mem' \in [Addr -> Addr \cup {INT3}]
          /\ \A b \in Addr : mem'[b] = IF b \in Places THEN INT3 ELSE mem[b]
      BY <1>1, <1>5 DEF Rearmed
    <2>2. \A b \in Addr : mem'[b] # Code(b) => mem'[b] = INT3 /\ b \in Places'
      BY <1>5, <2>1 DEF Rearmed, BytesInv
    <2>3. QED
      BY <2>1, <2>2 DEF BytesInv, Code, Addr, INT3
  <1>6. CASE Places' = Places /\ mem' = mem
    BY <1>6 DEF BytesInv, Code, Addr, INT3
  <1>7. QED
    BY <1>2, <1>3, <1>4, <1>5, <1>6

LEMMA ProgramStarts == Init => ProgramInv
  <1> SUFFICES ASSUME Init PROVE ProgramInv
    OBVIOUS
  <1>1. Elems(head) = {}
    BY EmptySeq DEF Init, Elems
  <1>2. MarksInv
    BY <1>1 DEF MarksInv, Marked
  <1>3. BytesInv
    BY Codes DEF Init, BytesInv
  <1>4. QED
    BY <1>2, <1>3, PoolStarts DEF ProgramInv

\* Every step but a command's edit keeps the places, and every step changes
\* memory in one of the ways above.
LEMMA StepsOnMemory ==
    ASSUME ProgramInv, ~Same, [Next]_vars
    PROVE  /\ PoolInv' /\ MarksInv'
           /\ \/ \E a \in Addr : Armed(a) \/ Disarmed(a)
              \/ Cleared \/ Rearmed
              \/ Places' = Places /\ mem' = mem
  <1> USE DEF ProgramInv
  <1>1. ASSUME NEW a \in Breakable, SetBreakpoint(a)
        PROVE  PoolInv' /\ MarksInv' /\ a \in Addr /\ Armed(a)
    BY <1>1, SetsPlace DEF Armed
  <1>2. CASE SetWatchpoint
    BY <1>2, SetsNoPlace DEF SetWatchpoint
  <1>3. ASSUME NEW j \in DOMAIN head, Delete(j)
        PROVE  /\ PoolInv' /\ MarksInv'
               /\ (\E a \in Addr : Disarmed(a)) \/ (Places' = Places /\ mem' = mem)
    BY <1>3, DeletesPlace DEF Disarmed
  <1>4. CASE DeleteAll
    BY <1>4, DeletesPlaces DEF Cleared
  <1>5. CASE ScanWatchpoint
    BY <1>5, ScanKeepsPlaces
  <1>6. CASE Exhausted \/ Quit \/ Ended \/ (\E k \in Runs : Exec(k)) \/ Devices \/ UNCHANGED vars
    <2>1. UNCHANGED list /\ mem' = mem
      BY <1>6 DEF Exhausted, Quit, Ended, Exec, Devices, vars
    <2>2. QED
      BY <2>1, ListKeepsPlaces
  <1>7. CASE ExecInst
    <2>1. UNCHANGED list
      BY <1>7 DEF ExecInst
    <2>2. PoolInv' /\ MarksInv' /\ Places' = Places
      BY <2>1, ListKeepsPlaces
    <2>3. QED
      BY <1>7, <2>2, ExecutionMemory DEF Rearmed
  <1>8. CASE FindBreakpoint
    <2>1. UNCHANGED list
      BY <1>8 DEF FindBreakpoint
    <2>2. PoolInv' /\ MarksInv' /\ Places' = Places
      BY <2>1, ListKeepsPlaces
    <2>3. QED
      BY <1>8, <2>2, ExecutionMemory DEF Disarmed
  <1>9. QED
    BY <1>1, <1>2, <1>3, <1>4, <1>5, <1>6, <1>7, <1>8 DEF Next, Edits, Steps

LEMMA ProgramSteps == ~Same /\ ProgramInv /\ [Next]_vars => ProgramInv'
  BY StepsOnMemory, BytesChange DEF ProgramInv

LEMMA ProgramIs == ProgramInv => MemoryIsProgram
  <1> SUFFICES ASSUME ProgramInv PROVE MemoryIsProgram
    OBVIOUS
  <1>1. \A a \in Addr : mem[a] # Code(a) => mem[a] = INT3 /\ Listed(a)
    BY ListedArePlaces DEF ProgramInv, BytesInv
  <1>2. ASSUME NEW j \in DOMAIN head, pool[head[j]].type = "B"
        PROVE  pool[head[j]].ori_byte = Code(pool[head[j]].addr)
    <2>1. head[j] \in Marked
      BY <1>2, ListedNumbers DEF ProgramInv, PoolInv, Lists, Marked
    <2>2. QED
      BY <2>1 DEF ProgramInv, MarksInv
  <1>3. QED
    BY <1>1, <1>2 DEF MemoryIsProgram

\* Whatever is set, hit, passed and deleted, a byte that is not the program's
\* is a listed breakpoint's, which remembers the program's (set_breakpoint,
\* free_BP, exec).  Two breakpoints at one address are excluded.
THEOREM ProgramIsKept == ASSUME ~Same PROVE Spec => []MemoryIsProgram
  <1>1. ProgramInv /\ [Next]_vars => ProgramInv'
    BY ProgramSteps
  <1>2. QED
    BY <1>1, ProgramStarts, ProgramIs, PTL DEF Spec

-----------------------------------------------------------------------------
\* The processor under exec().

\* The instruction the program is at: an INT3 is behind eip until exec() has
\* looked for the breakpoint.
At == IF pc = "break" /\ nemu_state = "BREAK" THEN eip - 1 ELSE eip

CpuInv ==
    /\ pool \in [NOs -> Entry]
    /\ x \in {0, 1} /\ n \in Int /\ rerun \in BOOLEAN
    /\ nemu_state \in {"READY", "RUN", "BREAK", "STOP"}
    /\ pc \in {"monitor", "fetch", "break", "watch", "devices", "quit", "aborted"}
    /\ pc = "fetch" => nemu_state = "RUN" /\ n # 0
    /\ eip \in Int /\ At \in Addr /\ frame \in Program \cup {None}
    /\ At = Handler <=> frame # None
    /\ pc = "break" /\ nemu_state = "BREAK" => At \in Places \cup OwnBreaks

SystemInv == ProgramInv /\ CpuInv

LEMMA Lengths ==
    /\ Length \in Nat /\ Length > 1 /\ NR_BP \in Nat
    /\ Addr = 0..Length /\ Program = 0..(Length - 1) /\ Handler = Length
    /\ None = -1 /\ INT3 = -1
    /\ \A a \in OwnBreaks \cup Traps \cup Writers : a \in 0..(Length - 2)
    /\ \A k \in Runs : k \in Int /\ k # 0
  BY Parameters DEF Addr, Program, Handler, None, INT3, Runs, Forever

LEMMA SystemStarts == Init => SystemInv
  <1> SUFFICES ASSUME Init PROVE SystemInv
    OBVIOUS
  <1>1. pool \in [NOs -> Entry]
    BY Lengths DEF Init, Entry
  <1>2. CpuInv
    <2>1. At = 0 /\ eip = 0 /\ frame = None /\ pc = "monitor" /\ nemu_state = "READY"
          /\ x = 0 /\ n = 0 /\ rerun = FALSE
      BY DEF Init, At
    <2>2. 0 \in Addr /\ 0 # Handler
      BY Lengths
    <2>3. At \in Addr /\ (At = Handler <=> frame # None) /\ frame \in Program \cup {None}
      BY <2>1, <2>2
    <2>4. x \in {0, 1} /\ n \in Int /\ eip \in Int
      BY <2>1
    <2>5. rerun \in BOOLEAN
      BY <2>1
    <2>6. QED
      BY <1>1, <2>1, <2>3, <2>4, <2>5 DEF CpuInv
  <1>3. QED
    BY <1>2, ProgramStarts DEF SystemInv

\* Entries keep their types.
LEMMA EntryFreed ==
    ASSUME NEW e \in Entry
    PROVE  [e EXCEPT !.in_use = FALSE] \in Entry
  BY Zenon DEF Entry

LEMMA EntryTypes ==
    ASSUME SystemInv, ~Same, [Next]_vars
    PROVE  pool' \in [NOs -> Entry]
  <1>1. pool \in [NOs -> Entry] /\ x \in {0, 1} /\ mem \in [Addr -> Addr \cup {INT3}]
    BY DEF SystemInv, CpuInv, ProgramInv, BytesInv
  <1>2. ASSUME NEW a \in Breakable, SetBreakpoint(a) PROVE pool' \in [NOs -> Entry]
    <2> DEFINE r == [type |-> "B", addr |-> a, ori_byte |-> mem[a], old_val |-> 0, in_use |-> TRUE]
    <2>1. r \in Entry
      BY <1>1, Codes DEF Entry
    <2>2. pool' = [pool EXCEPT ![Head(free_)] = r]
      BY <1>2 DEF SetBreakpoint, Take
    <2> HIDE DEF r
    <2>3. QED
      BY <1>1, <2>1, <2>2
  <1>3. CASE SetWatchpoint
    <2> DEFINE r == [type |-> "W", addr |-> 0, ori_byte |-> 0, old_val |-> x, in_use |-> TRUE]
    <2>1. r \in Entry
      BY <1>1, Lengths DEF Entry
    <2>2. pool' = [pool EXCEPT ![Head(free_)] = r]
      BY <1>3 DEF SetWatchpoint, Take
    <2> HIDE DEF r
    <2>3. QED
      BY <1>1, <2>1, <2>2
  <1>4. ASSUME NEW j \in DOMAIN head, Delete(j) PROVE pool' \in [NOs -> Entry]
    <2>1. \A p \in NOs : [pool[p] EXCEPT !.in_use = FALSE] \in Entry
      BY <1>1, EntryFreed
    <2>2. pool' = [pool EXCEPT ![head[j]] = [pool[head[j]] EXCEPT !.in_use = FALSE]]
      BY <1>1, <1>4 DEF Delete
    <2>3. QED
      BY <1>1, <2>1, <2>2
  <1>5. CASE DeleteAll
    <2>1. \A p \in NOs : [pool[p] EXCEPT !.in_use = FALSE] \in Entry
      BY <1>1, EntryFreed
    <2>2. QED
      BY <1>5, <2>1 DEF DeleteAll
  <1>6. CASE ScanWatchpoint
    <2>1. pool' = pool \/ pool' = [pool EXCEPT ![First(Changed)].old_val = x]
      BY <1>6 DEF ScanWatchpoint
    <2>2. QED
      BY <1>1, <2>1 DEF Entry
  <1>7. CASE Exhausted \/ Quit \/ Ended \/ (\E k \in Runs : Exec(k)) \/ ExecInst
             \/ FindBreakpoint \/ Devices \/ UNCHANGED vars
    BY <1>1, <1>7 DEF Exhausted, Quit, Ended, Exec, ExecInst, FindBreakpoint, Devices, vars, list
  <1>8. QED
    BY <1>2, <1>3, <1>4, <1>5, <1>6, <1>7 DEF Next, Edits, Steps

\* A byte that stops the program is a listed breakpoint's or its own.
LEMMA StopsAt ==
    ASSUME SystemInv, eip \in Addr, mem[eip] = INT3
    PROVE  eip \in Places \cup OwnBreaks
  BY Codes DEF SystemInv, ProgramInv, BytesInv, Code

LEMMA CpuSteps ==
    ASSUME SystemInv, ~Same, [Next]_vars
    PROVE  CpuInv'
  <1>1. pool' \in [NOs -> Entry]
    BY EntryTypes
  <1>2. CpuInv
    BY DEF SystemInv
  <1>3. CASE Edits
    <2>1. pc = "monitor" /\ UNCHANGED <<machine, nemu_state, n, rerun, pc>>
      BY <1>3 DEF Edits, SetBreakpoint, SetWatchpoint, Delete, DeleteAll, Command
    <2>2. QED
      BY <1>1, <1>2, <2>1 DEF CpuInv, At, machine
  <1>4. CASE Exhausted \/ Quit
    <2>1. pc = "monitor" /\ pc' \in {"quit", "aborted"} /\ UNCHANGED <<machine, nemu_state, n, rerun>>
      BY <1>4 DEF Exhausted, Quit, Command
    <2>2. QED
      BY <1>1, <1>2, <2>1 DEF CpuInv, At, machine
  <1>5. ASSUME NEW k \in Runs, Exec(k) PROVE CpuInv'
    <2>1. /\ pc = "monitor" /\ pc' = "fetch" /\ nemu_state' = "RUN" /\ n' = k
          /\ rerun' = (nemu_state = "BREAK") /\ UNCHANGED machine
      BY <1>5 DEF Exec, Command
    <2>2. n' \in Int /\ n' # 0 /\ rerun' \in BOOLEAN
      BY <2>1, Lengths
    <2>3. QED
      BY <1>1, <1>2, <2>1, <2>2 DEF CpuInv, At, machine
  <1>6. CASE ExecInst
    <2>1. /\ pc = "fetch" /\ pc' = "break" /\ rerun' = FALSE /\ n \in Int
          /\ n' = IF n > 0 THEN n - 1 ELSE n
          /\ eip \in Addr /\ (eip = Handler <=> frame # None)
          /\ frame \in Program \cup {None} /\ x \in {0, 1}
      BY <1>2, <1>6 DEF ExecInst, CpuInv, At
    <2>2. n' \in Int
      BY <2>1
    <2>3. UNCHANGED list
      BY <1>6 DEF ExecInst
    <2>4. Places' = Places
      BY <2>3, ListKeepsPlaces DEF SystemInv, ProgramInv
    <2>5. CASE Plain
      <3>1. /\ nemu_state' \in {"RUN", "STOP"}
            /\ eip' = IF eip = Handler THEN frame ELSE (eip + 1) % Length
            /\ frame' = IF eip = Handler THEN None ELSE frame
            /\ x' = IF eip \in Writers THEN 1 - x ELSE x
        BY <2>5 DEF Plain
      <3>2. x' \in {0, 1}
        BY <2>1, <3>1
      <3>3. eip' \in Program /\ frame' = None
        BY <2>1, <3>1, Lengths
      <3>4. At' = eip'
        BY <3>1 DEF At
      <3>5. eip' \in Int /\ At' \in Addr /\ At' # Handler
        BY <3>3, <3>4, Lengths
      <3>6. QED
        BY <1>1, <2>1, <2>2, <3>1, <3>2, <3>3, <3>5 DEF CpuInv
    <2>6. CASE BreakPoint
      <3>1. /\ nemu_state' = "BREAK" /\ eip' = eip + 1 /\ x' = x /\ frame' = frame
            /\ mem[eip] = INT3
        BY <2>6 DEF BreakPoint
      <3>2. eip \in Places \cup OwnBreaks
        BY <2>1, <3>1, StopsAt
      <3>3. eip' \in Int /\ At' = eip
        BY <2>1, <3>1, Lengths DEF At
      <3>4. QED
        BY <1>1, <2>1, <2>2, <2>4, <3>1, <3>2, <3>3, Lengths DEF CpuInv
    <2>7. QED
      BY <1>6, <2>5, <2>6 DEF ExecInst
  <1>7. CASE FindBreakpoint
    <2>1. /\ pc = "break" /\ pc' = "watch" /\ UNCHANGED <<x, frame, nemu_state, n, rerun>>
      BY <1>7 DEF FindBreakpoint
    <2>2. /\ eip \in Int /\ At \in Addr /\ frame \in Program \cup {None}
          /\ (At = Handler <=> frame # None)
          /\ nemu_state = "BREAK" => At \in Places \cup OwnBreaks
      BY <1>2, <2>1 DEF CpuInv
    <2>3. IF nemu_state = "BREAK" /\ eip - 1 \in Places
          THEN eip' = eip - 1 ELSE eip' = eip
      BY <1>7, ExecutionMemory DEF SystemInv
    <2>4. eip' \in Int /\ eip' \in Addr /\ (eip' = Handler <=> frame # None)
      <3>1. CASE nemu_state # "BREAK"
        BY <2>1, <2>2, <2>3, <3>1 DEF At
      <3>2. CASE nemu_state = "BREAK" /\ eip - 1 \in Places
        BY <2>1, <2>2, <2>3, <3>2 DEF At
      <3>3. CASE nemu_state = "BREAK" /\ eip - 1 \notin Places
        <4>1. eip' = eip /\ At = eip - 1 /\ At \in OwnBreaks
          BY <2>1, <2>2, <2>3, <3>3 DEF At
        <4>2. At \in 0..(Length - 2)
          BY <4>1, Lengths
        <4>3. QED
          BY <2>2, <4>1, <4>2, Lengths
      <3>4. QED
        BY <3>1, <3>2, <3>3
    <2>5. At' = eip'
      BY <2>1 DEF At
    <2>6. QED
      BY <1>1, <1>2, <2>1, <2>4, <2>5 DEF CpuInv
  <1>8. CASE ScanWatchpoint
    <2>1. /\ pc = "watch" /\ pc' \in {"devices", "monitor", "quit"} /\ UNCHANGED <<machine, n, rerun>>
          /\ nemu_state' \in {nemu_state, "READY"}
      BY <1>8 DEF ScanWatchpoint, Leave
    <2>2. QED
      BY <1>1, <1>2, <2>1 DEF CpuInv, At, machine
  <1>9. CASE Devices
    <2>1. /\ pc = "devices" /\ UNCHANGED <<x, n, rerun>>
          /\ pc' \in {"fetch", "monitor", "quit"}
          /\ nemu_state' \in {nemu_state, "READY", "STOP"}
          /\ pc' = "fetch" => nemu_state' = "RUN" /\ n' # 0
      BY <1>9 DEF Devices, Leave
    <2>2. (eip' = eip /\ frame' = frame) \/ (frame = None /\ frame' = eip /\ eip' = Handler)
      BY <1>9 DEF Devices
    <2>3. /\ eip \in Int /\ eip \in Addr /\ frame \in Program \cup {None}
          /\ (eip = Handler <=> frame # None)
      BY <1>2, <2>1 DEF CpuInv, At
    <2>4. /\ eip' \in Int /\ eip' \in Addr /\ frame' \in Program \cup {None}
          /\ (eip' = Handler <=> frame' # None)
      BY <2>2, <2>3, Lengths
    <2>5. At' = eip'
      BY <2>1 DEF At
    <2>6. QED
      BY <1>1, <1>2, <2>1, <2>4, <2>5 DEF CpuInv
  <1>10. CASE Ended \/ UNCHANGED vars
    <2>1. UNCHANGED vars
      BY <1>10 DEF Ended
    <2>2. UNCHANGED list /\ UNCHANGED <<machine, nemu_state, n, rerun, pc>>
      BY <2>1 DEF vars
    <2>3. Places' = Places
      BY <2>2, ListKeepsPlaces DEF SystemInv, ProgramInv
    <2>4. QED
      BY <1>1, <1>2, <2>2, <2>3 DEF CpuInv, At, machine
  <1>11. QED
    BY <1>3, <1>4, <1>5, <1>6, <1>7, <1>8, <1>9, <1>10 DEF Next, Steps

\* The variables keep their types, which needs the program's bytes: an INT3
\* that nobody lists could carry eip past the handler.
THEOREM TypesAreKept == ASSUME ~Same PROVE Spec => []TypeOK
  <1>1. SystemInv /\ [Next]_vars => SystemInv'
    BY CpuSteps, ProgramSteps DEF SystemInv
  <1>2. SystemInv => TypeOK
    <2> SUFFICES ASSUME SystemInv PROVE TypeOK
      OBVIOUS
    <2>1. head \in Seq(NOs) /\ free_ \in Seq(NOs) /\ mem \in [Addr -> Addr \cup {INT3}]
      BY DEF SystemInv, ProgramInv, PoolInv, Lists, BytesInv
    <2>2. CpuInv
      BY DEF SystemInv
    <2>3. eip \in 0..(Length + 1) /\ (pc = "fetch" => eip \in Addr)
      BY <2>2, Lengths DEF CpuInv, At
    <2>4. QED
      BY <2>1, <2>2, <2>3 DEF CpuInv, TypeOK
  <1>3. QED
    BY <1>1, <1>2, SystemStarts, PTL DEF Spec

-----------------------------------------------------------------------------
\* A user who only continues and has one watchpoint at most.

Watching == {p \in Elems(head) : pool[p].type = "W"}
Current == \A p \in Watching : pool[p].old_val = x
AllArmed == \A a \in Places : mem[a] = INT3

ArmInv ==
    /\ \A p, q \in Watching : p = q
    /\ pc \in {"fetch", "break", "watch", "devices"} => n = Forever
    /\ nemu_state = "STOP" => pc \in {"break", "watch", "devices", "quit"}
    /\ rerun => pc = "fetch"
    /\ pc \notin {"break", "watch"} \/ nemu_state \in {"BREAK", "STOP"} => Current
    /\ pc = "monitor" /\ nemu_state # "BREAK" => AllArmed
    /\ pc = "fetch" /\ ~rerun => AllArmed
    /\ pc = "break" => AllArmed
    /\ pc \in {"watch", "devices"} /\ nemu_state # "BREAK" => AllArmed

StopInv == SystemInv /\ ArmInv

\* The steps of exec() see a change where there is one.
LEMMA ChangedIs ==
    ASSUME PoolInv
    PROVE  /\ Current <=> Changed = {}
           /\ \A j \in Changed : j \in 1..Len(head) /\ head[j] \in Watching
           /\ Watching = {} <=> Watched = {}
  <1>1. DOMAIN head = 1..Len(head)
    BY ListedNumbers DEF PoolInv, Lists
  <1>2. \A j \in 1..Len(head) : head[j] \in Elems(head)
    BY DEF Elems
  <1>3. \A p \in Elems(head) : \E j \in 1..Len(head) : p = head[j]
    BY DEF Elems
  <1>4. \A j : j \in Watched <=> j \in 1..Len(head) /\ head[j] \in Watching
    BY <1>1, <1>2 DEF Watched, Watching
  <1>5. Watching = {} <=> Watched = {}
    BY <1>3, <1>4 DEF Watching
  <1>6. Current <=> Changed = {}
    BY <1>3, <1>4 DEF Current, Changed, Watching
  <1>7. \A j \in Changed : j \in 1..Len(head) /\ head[j] \in Watching
    BY <1>4 DEF Changed
  <1>8. QED
    BY <1>5, <1>6, <1>7

LEMMA NoneWatched ==
    ASSUME PoolInv, MaxWatch <= 1, Cardinality(Watched) < MaxWatch
    PROVE  Watching = {}
  <1>1. Len(head) \in Nat /\ DOMAIN head = 1..Len(head)
    BY LenProperties, ListedNumbers DEF PoolInv, Lists
  <1>2. IsFiniteSet(1..Len(head))
    BY <1>1, FS_Interval
  <1>3. Watched \subseteq 1..Len(head)
    BY <1>1 DEF Watched
  <1>4. IsFiniteSet(Watched)
    BY <1>2, <1>3, FS_Subset
  <1>5. Cardinality(Watched) \in Nat
    BY <1>4, FS_CardinalityType
  <1>6. Cardinality(Watched) = 0
    BY <1>5, Parameters
  <1>7. QED
    BY <1>4, <1>6, FS_EmptySet, ChangedIs

\* A report leaves nothing to report.
LEMMA Reports ==
    ASSUME PoolInv, \A p, q \in Watching : p = q, Changed # {}, ScanWatchpoint
    PROVE  Watching' = Watching /\ Current'
  <1>1. PICK j \in Changed : TRUE
    OBVIOUS
  <1>2. j \in 1..Len(head) /\ head[j] \in Watching /\ OneEach(head) /\ Len(head) \in Nat
    BY <1>1, ChangedIs, LenProperties DEF PoolInv, Lists
  <1>3. Changed = {j}
    <2>1. ASSUME NEW i \in Changed PROVE i = j
      <3>1. i \in 1..Len(head) /\ head[i] \in Watching
        BY <2>1, ChangedIs
      <3>2. head[i] = head[j]
        BY <1>2, <3>1
      <3>3. QED
        BY <1>2, <3>1, <3>2 DEF OneEach
    <2>2. QED
      BY <1>1, <2>1
  <1>4. (CHOOSE i \in {j} : \A l \in {j} : i <= l) = j
    <2>1. j \in {j} /\ \A l \in {j} : j <= l
      BY <1>2
    <2>2. QED
      BY <2>1
  <1>5. First(Changed) = head[j]
    BY <1>3, <1>4 DEF First
  <1>6. \A p \in NOs : /\ pool'[p].type = pool[p].type
                       /\ pool'[p].old_val = IF p = head[j] THEN x ELSE pool[p].old_val
    <2>1. pool' = [pool EXCEPT ![First(Changed)].old_val = x] /\ head' = head /\ free_' = free_
      BY DEF ScanWatchpoint
    <2>2. \A p \in NOs : Renewed(p, First(Changed), x)
      BY <2>1, OldValue
    <2>3. QED
      BY <1>5, <2>2 DEF Renewed
  <1>7. Elems(head') = Elems(head) /\ Elems(head) \subseteq NOs /\ x' = x
    BY DEF PoolInv, Lists, ScanWatchpoint, machine
  <1>8. Watching' = Watching
    BY <1>6, <1>7 DEF Watching
  <1>9. \A p \in Watching : p = head[j] /\ p \in NOs
    BY <1>2, <1>7 DEF Watching
  <1>10. Current'
    BY <1>6, <1>7, <1>8, <1>9 DEF Current
  <1>11. QED
    BY <1>8, <1>10

LEMMA ArmStarts == Init => ArmInv
  <1> SUFFICES ASSUME Init PROVE ArmInv
    OBVIOUS
  <1>1. Elems(head) = {}
    BY EmptySeq DEF Init, Elems
  <1>2. Watching = {} /\ Places = {}
    BY <1>1 DEF Watching, Places, Marked
  <1>3. Current /\ AllArmed
    BY <1>2 DEF Current, AllArmed
  <1>4. QED
    BY <1>2, <1>3 DEF Init, ArmInv

LEMMA ArmEdits ==
    ASSUME StopInv, ~Same, MaxWatch <= 1, Edits
    PROVE  ArmInv'
  <1>1. /\ pc = "monitor" /\ UNCHANGED <<machine, nemu_state, n, rerun, pc>>
        /\ ProgramInv /\ SystemInv /\ ArmInv /\ PoolInv
    BY DEF Edits, SetBreakpoint, SetWatchpoint, Delete, DeleteAll, Command,
           StopInv, SystemInv, ProgramInv
  <1>2. /\ Current /\ (\A p, q \in Watching : p = q)
        /\ (nemu_state # "BREAK" => AllArmed) /\ nemu_state # "STOP" /\ ~rerun
    BY <1>1 DEF ArmInv
  <1>3. SUFFICES /\ \A p, q \in Watching' : p = q
                 /\ Current'
                 /\ AllArmed => AllArmed'
    BY <1>1, <1>2, <1>3 DEF ArmInv
  <1>4. mem \in [Addr -> Addr \cup {INT3}] /\ x' = x
    BY <1>1 DEF ProgramInv, BytesInv, machine
  <1>5. ASSUME NEW a \in Breakable, SetBreakpoint(a)
        PROVE  (\A p, q \in Watching' : p = q) /\ Current' /\ (AllArmed => AllArmed')
    <2>1. a \in Addr /\ Places' = Places \cup {a} /\ mem' = [mem EXCEPT ![a] = INT3]
      BY <1>1, <1>5, SetsPlace
    <2>2. AllArmed => AllArmed'
      <3>1. SUFFICES ASSUME AllArmed PROVE AllArmed'
        OBVIOUS
      <3>2. \A b \in Places \cup {a} : mem'[b] = INT3
        <4>1. ASSUME NEW b \in Places PROVE b \in Addr
          BY <1>1 DEF ProgramInv, MarksInv, Places
        <4>2. QED
          BY <1>4, <2>1, <3>1, <4>1 DEF AllArmed
      <3>3. QED
        BY <2>1, <3>2 DEF AllArmed, INT3
    <2> DEFINE f == Head(free_)
    <2>3. /\ f \in NOs \ Elems(head) /\ Elems(head)' = Elems(head) \cup {f}
          /\ pool'[f] = [type |-> "B", addr |-> a, ori_byte |-> mem[a], old_val |-> 0, in_use |-> TRUE]
          /\ \A p \in Elems(head) : pool'[p] = pool[p]
      BY <1>1, <1>5, TakenEntry, TakesOne DEF SetBreakpoint, PoolInv
    <2> HIDE DEF f
    <2>4. pool'[f].type = "B"
      BY <2>3
    <2>5. Watching' = Watching /\ \A p \in Watching : pool'[p] = pool[p]
      BY <2>3, <2>4 DEF Watching
    <2>6. QED
      BY <1>2, <1>4, <2>2, <2>5 DEF Current
  <1>6. ASSUME SetWatchpoint
        PROVE  (\A p, q \in Watching' : p = q) /\ Current' /\ (AllArmed => AllArmed')
    <2>1. Places' = Places /\ mem' = mem
      BY <1>1, <1>6, SetsNoPlace DEF SetWatchpoint
    <2> DEFINE f == Head(free_)
    <2>2. /\ f \in NOs \ Elems(head) /\ Elems(head)' = Elems(head) \cup {f}
          /\ pool'[f] = [type |-> "W", addr |-> 0, ori_byte |-> 0, old_val |-> x, in_use |-> TRUE]
          /\ \A p \in Elems(head) : pool'[p] = pool[p]
      BY <1>1, <1>6, TakenEntry, TakesOne DEF SetWatchpoint, PoolInv
    <2>3. Watching = {}
      BY <1>1, <1>6, NoneWatched DEF SetWatchpoint
    <2> HIDE DEF f
    <2>4. pool'[f].old_val = x
      BY <2>2
    <2>5. Watching' \subseteq {f}
      BY <2>2, <2>3 DEF Watching
    <2>6. AllArmed => AllArmed'
      BY <2>1 DEF AllArmed, INT3
    <2>7. QED
      BY <1>4, <2>4, <2>5, <2>6 DEF Current
  <1>7. ASSUME NEW j \in DOMAIN head, Delete(j)
        PROVE  (\A p, q \in Watching' : p = q) /\ Current' /\ (AllArmed => AllArmed')
    <2>1. \/ Places' = Places /\ mem' = mem
          \/ \E a \in Addr : Places' = Places \ {a} /\ mem' = [mem EXCEPT ![a] = Code(a)]
      BY <1>1, <1>7, DeletesPlace
    <2>2. AllArmed => AllArmed'
      <3>1. CASE Places' = Places /\ mem' = mem
        BY <3>1 DEF AllArmed, INT3
      <3>2. ASSUME NEW a \in Addr, Places' = Places \ {a}, mem' = [mem EXCEPT ![a] = Code(a)]
            PROVE  AllArmed => AllArmed'
        <4>1. \A b \in Places' : mem'[b] = mem[b] /\ b \in Places
          BY <1>4, <3>2
        <4>2. QED
          BY <4>1 DEF AllArmed, INT3
      <3>3. QED
        BY <2>1, <3>1, <3>2
    <2>3. Elems(head)' \subseteq Elems(head) /\ \A p \in Elems(head)' : pool'[p] = pool[p]
      BY <1>1, <1>7, DeletesOne
    <2>4. Watching' \subseteq Watching /\ \A p \in Watching' : pool'[p] = pool[p]
      BY <2>3 DEF Watching
    <2>5. QED
      BY <1>2, <1>4, <2>2, <2>4 DEF Current
  <1>8. ASSUME DeleteAll
        PROVE  (\A p, q \in Watching' : p = q) /\ Current' /\ (AllArmed => AllArmed')
    <2>1. Places' = {} /\ Elems(head)' = {}
      BY <1>1, <1>8, DeletesPlaces, DeletesAll
    <2>2. Watching' = {}
      BY <2>1 DEF Watching
    <2>3. QED
      BY <2>1, <2>2 DEF Current, AllArmed
  <1>9. QED
    BY <1>5, <1>6, <1>7, <1>8 DEF Edits

LEMMA ArmSteps ==
    ASSUME StopInv, ~Same, MaxWatch <= 1, StepCounts = {}, [Next]_vars
    PROVE  ArmInv' /\ (nemu_state = "STOP" => nemu_state' = "STOP")
  <1>1. ProgramInv /\ CpuInv /\ ArmInv /\ PoolInv /\ MarksInv
    BY DEF StopInv, SystemInv, ProgramInv
  <1>2. ASSUME UNCHANGED list, UNCHANGED x
        PROVE  /\ Places' = Places /\ Watching' = Watching /\ (Current => Current')
    <2>1. Places' = Places
      BY <1>1, <1>2, ListKeepsPlaces
    <2>2. Watching' = Watching
      BY <1>2 DEF Watching, list
    <2>3. Current => Current'
      BY <1>2, <2>2 DEF Current, list
    <2>4. QED
      BY <2>1, <2>2, <2>3
  <1>3. CASE Edits
    <2>1. nemu_state # "STOP"
      BY <1>1, <1>3 DEF ArmInv, Edits, SetBreakpoint, SetWatchpoint, Delete, DeleteAll, Command
    <2>2. QED
      BY <1>3, <2>1, ArmEdits
  <1>4. CASE Exhausted \/ Quit
    <2>1. /\ pc = "monitor" /\ pc' \in {"quit", "aborted"} /\ UNCHANGED list
          /\ UNCHANGED <<x, mem, nemu_state, n, rerun>>
      BY <1>4 DEF Exhausted, Quit, Command, machine
    <2>2. QED
      BY <1>1, <1>2, <2>1 DEF ArmInv
  <1>5. ASSUME NEW k \in Runs, Exec(k)
        PROVE ArmInv' /\ (nemu_state = "STOP" => nemu_state' = "STOP")
    <2>1. /\ pc = "monitor" /\ pc' = "fetch" /\ nemu_state' = "RUN" /\ n' = k
          /\ rerun' = (nemu_state = "BREAK") /\ UNCHANGED list /\ UNCHANGED <<x, mem>>
      BY <1>5 DEF Exec, Command, machine
    <2>2. k = Forever
      BY DEF Runs
    <2>3. AllArmed => AllArmed'
      BY <1>2, <2>1 DEF AllArmed, INT3
    <2>4. QED
      BY <1>1, <1>2, <2>1, <2>2, <2>3 DEF ArmInv, Forever
  <1>6. CASE ExecInst
    <2>1. /\ pc = "fetch" /\ pc' = "break" /\ rerun' = FALSE /\ UNCHANGED list
          /\ n' = IF n > 0 THEN n - 1 ELSE n
          /\ mem' = IF rerun THEN Resumed ELSE mem
      BY <1>6 DEF ExecInst
    <2>2. n' = Forever /\ nemu_state # "STOP" /\ Current /\ (~rerun => AllArmed)
      BY <1>1, <2>1 DEF ArmInv, Forever
    <2>3. Places' = Places /\ Watching' = Watching
      BY <1>1, <2>1, ListKeepsPlaces DEF Watching, list
    <2>4. AllArmed'
      <3>1. CASE rerun
        <4>1. \A a \in Places : a \in Addr
          BY <1>1 DEF MarksInv, Places
        <4>2. \A a \in Places : mem'[a] = INT3
          BY <1>1, <2>1, <3>1, <4>1, ExecutionMemory
        <4>3. QED
          BY <2>3, <4>2 DEF AllArmed, INT3
      <3>2. CASE ~rerun
        BY <2>1, <2>2, <2>3, <3>2 DEF AllArmed, INT3
      <3>3. QED
        BY <3>1, <3>2
    <2>5. nemu_state' \in {"BREAK", "STOP"} => x' = x
      <3>1. CASE Plain
        BY <3>1, Parameters DEF Plain
      <3>2. CASE BreakPoint
        BY <3>2 DEF BreakPoint
      <3>3. QED
        BY <1>6, <3>1, <3>2 DEF ExecInst
    <2>6. nemu_state' \in {"BREAK", "STOP"} => Current'
      BY <1>2, <2>1, <2>2, <2>5
    <2>7. QED
      BY <1>1, <2>1, <2>2, <2>3, <2>4, <2>6 DEF ArmInv, Forever
  <1>7. CASE FindBreakpoint
    <2>1. /\ pc = "break" /\ pc' = "watch" /\ UNCHANGED list /\ UNCHANGED <<x, nemu_state, n, rerun>>
          /\ nemu_state # "BREAK" => mem' = mem
      BY <1>7 DEF FindBreakpoint
    <2>2. nemu_state # "BREAK" => AllArmed'
      BY <1>1, <1>2, <2>1 DEF ArmInv, AllArmed, INT3
    <2>3. QED
      BY <1>1, <1>2, <2>1, <2>2 DEF ArmInv, Forever
  <1>8. CASE ScanWatchpoint
    <2>1. /\ pc = "watch" /\ n = Forever /\ UNCHANGED <<x, mem, n, rerun>>
          /\ head' = head /\ free_' = free_ /\ Places' = Places
      BY <1>1, <1>8, ScanKeepsPlaces DEF ScanWatchpoint, machine, ArmInv
    <2>2. nemu_state # "BREAK" => AllArmed'
      BY <1>1, <2>1 DEF ArmInv, AllArmed, INT3
    <2>3. CASE Changed # {}
      <3>1. /\ pool' = [pool EXCEPT ![First(Changed)].old_val = x]
            /\ nemu_state' = "READY" /\ pc' = "monitor"
        BY <1>8, <2>1, <2>3 DEF ScanWatchpoint, Leave
      <3>2. Watching' = Watching /\ Current'
        BY <1>1, <1>8, <2>3, Reports DEF ArmInv
      <3>3. ~Current
        BY <1>1, <2>3, ChangedIs
      <3>4. nemu_state \notin {"BREAK", "STOP"}
        BY <1>1, <2>1, <3>3 DEF ArmInv
      <3>5. QED
        BY <1>1, <2>1, <2>2, <3>1, <3>2, <3>4 DEF ArmInv
    <2>4. CASE Changed = {}
      <3>1. UNCHANGED list /\ nemu_state' = nemu_state /\ pc' = "devices"
        BY <1>8, <2>4 DEF ScanWatchpoint, list
      <3>2. Current
        BY <1>1, <2>4, ChangedIs
      <3>3. QED
        BY <1>1, <1>2, <2>1, <2>2, <3>1, <3>2 DEF ArmInv, Forever
    <2>5. QED
      BY <2>3, <2>4
  <1>9. CASE Devices
    <2>1. /\ pc = "devices" /\ n = Forever /\ UNCHANGED list /\ UNCHANGED <<x, mem, n, rerun>>
      BY <1>1, <1>9 DEF Devices, ArmInv
    <2>2. \/ nemu_state = "RUN" /\ pc' = "fetch" /\ nemu_state' = "RUN"
          \/ nemu_state' = "STOP" /\ pc' = "quit"
          \/ nemu_state' = nemu_state /\ nemu_state # "STOP" /\ pc' = "monitor"
      BY <1>9, <2>1 DEF Devices, Leave, Forever
    <2>3. nemu_state # "BREAK" => AllArmed'
      BY <1>1, <1>2, <2>1 DEF ArmInv, AllArmed, INT3
    <2>4. Current' /\ Watching' = Watching /\ ~rerun /\ (nemu_state = "STOP" => nemu_state' = "STOP")
      BY <1>1, <1>2, <2>1, <2>2 DEF ArmInv
    <2>5. QED
      BY <1>1, <2>1, <2>2, <2>3, <2>4 DEF ArmInv, Forever
  <1>10. CASE Ended \/ UNCHANGED vars
    <2>1. UNCHANGED list /\ UNCHANGED <<x, mem, nemu_state, n, rerun, pc>>
      BY <1>10 DEF Ended, vars, machine
    <2>2. AllArmed => AllArmed'
      BY <1>2, <2>1 DEF AllArmed, INT3
    <2>3. QED
      BY <1>1, <1>2, <2>1, <2>2 DEF ArmInv, Forever
  <1>11. QED
    BY <1>3, <1>4, <1>5, <1>6, <1>7, <1>8, <1>9, <1>10 DEF Next, Steps

\* For a user who only continues and has one watchpoint at most, no instruction
\* under a listed breakpoint runs without a stop there (exec,
\* resume_breakpoints).
THEOREM BreakpointsStop ==
    ASSUME ~Same, MaxWatch <= 1, StepCounts = {}
    PROVE  Spec => NoBreakpointRunThrough
  <1>1. Init => StopInv
    BY SystemStarts, ArmStarts DEF StopInv
  <1>2. StopInv /\ [Next]_vars => StopInv'
    BY ArmSteps, CpuSteps, ProgramSteps DEF StopInv, SystemInv
  <1>3. StopInv => [ExecInst /\ Listed(eip) /\ mem[eip] # INT3 => rerun]_vars
    <2> SUFFICES ASSUME StopInv, ExecInst, Listed(eip), mem[eip] # INT3 PROVE rerun
      OBVIOUS
    <2>1. pc = "fetch" /\ eip \in Places
      BY ListedArePlaces DEF ExecInst, StopInv, SystemInv, ProgramInv
    <2>2. ~AllArmed
      BY <2>1 DEF AllArmed
    <2>3. QED
      BY <2>1, <2>2 DEF StopInv, ArmInv
  <1>4. QED
    BY <1>1, <1>2, <1>3, PTL DEF Spec, NoBreakpointRunThrough

\* For the same user, the end of the program is final: no watchpoint turns it
\* into a pause (cpu.c).
THEOREM EndIsFinal ==
    ASSUME ~Same, MaxWatch <= 1, StepCounts = {}
    PROVE  Spec => StopIsFinal
  <1>1. Init => StopInv
    BY SystemStarts, ArmStarts DEF StopInv
  <1>2. StopInv /\ [Next]_vars => StopInv'
    BY ArmSteps, CpuSteps, ProgramSteps DEF StopInv, SystemInv
  <1>3. StopInv /\ [Next]_vars => [nemu_state = "STOP" => nemu_state' = "STOP"]_vars
    BY ArmSteps
  <1>4. QED
    BY <1>1, <1>2, <1>3, PTL DEF Spec, StopIsFinal
=============================================================================
