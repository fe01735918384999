-------------------------- MODULE StackSetupProofs --------------------------
(***************************************************************************)
(* Proofs about the initial stack, for every size of the stack, every      *)
(* length of the path and every TLS block.                                 *)
(***************************************************************************)
EXTENDS StackSetup, TLAPS

-----------------------------------------------------------------------------
(* What is on the stack                                                    *)

Addresses == 0..Top - 1

\* The second word of a pair that lies at a.
Second(j, a) == IF Pairs[j][2] = BELOW THEN a - 2 ELSE Pairs[j][2]

PairAt(s, j) ==
    /\ s[Top - 2 * j] = Pairs[j][1]
    /\ s[Top - 2 * j + 1] = Second(j, Top - 2 * j)

PairsIn(s, m) == \A j \in 1..m : PairAt(s, j)

\* The words of the copy for AT_EXECFN that lie from lo up to hi.
ExecfnCopy(s, n, lo, hi) ==
    \A k \in 1..n : lo <= Top - 29 + k /\ Top - 29 + k < hi => s[Top - 29 + k] = 300 + k

\* The first words, at most m, of the copy for argv[0].
ArgvCopy(s, n, a, m) == \A k \in 1..n : k <= m => s[a - 11 + k] = 300 + k

\* Where the auxiliary vector starts.
Vector == IF tls # 0 THEN Top - 22 ELSE Top - 20

\* From the first step on: the pairs pushed so far.
PairsInv ==
    /\ step = "pairs" => sp = Top - 2 * (next - 1) /\ PairsIn(stack, next - 1)
    /\ step # "pairs" => /\ PairsIn(stack, 9)
                         /\ stack[Top - 20] = AT_EXECFN /\ stack[Top - 19] = Top - 28

VectorInv ==
    step \in {"nulls", "argv", "argc", "ready"} =>
        /\ auxv = Vector
        /\ tls # 0 => stack[Top - 22] = AT_TLS /\ stack[Top - 21] = tls

\* What the later pushes leave of the copies of the path.
CopiesInv ==
    /\ step = "tls" => sp = Top - 20 /\ ExecfnCopy(stack, CopiedLen, 0, Top - 20)
    /\ step = "nulls" => sp = auxv /\ ExecfnCopy(stack, CopiedLen, 0, auxv)
    /\ step = "argv" => sp = auxv - 2 /\ ExecfnCopy(stack, CopiedLen, 0, auxv - 2)
    /\ step = "argc" => /\ sp = auxv - 3 /\ ArgvCopy(stack, CopiedLen, auxv, 7)
                        /\ ExecfnCopy(stack, CopiedLen, auxv - 10 + CopiedLen, auxv - 3)
    /\ step = "ready" => /\ sp = auxv - 4 /\ ArgvCopy(stack, CopiedLen, auxv, 6)
                         /\ ExecfnCopy(stack, CopiedLen, auxv - 10 + CopiedLen, auxv - 4)
                         /\ stack[auxv - 4] = 1
    /\ step \in {"argv", "argc", "ready"} => stack[auxv - 2] = 0 /\ stack[auxv - 1] = 0
    /\ step \in {"argc", "ready"} => stack[auxv - 3] = auxv - 10

StackTyped ==
    /\ DOMAIN stack = Addresses
    /\ len \in PathLens /\ tls \in TLSBlocks /\ next \in 1..10
    /\ step \in {"pairs", "tls", "nulls", "argv", "argc", "ready"}

StackInv == StackTyped /\ PairsInv /\ VectorInv /\ CopiesInv

-----------------------------------------------------------------------------
(* Writing to the stack                                                    *)

\* t is s with n words written from a on.
Written(t, s, a, n) ==
    DOMAIN t = Addresses /\ \A b \in Addresses : b < a \/ b >= a + n => t[b] = s[b]

LEMMA PutOne ==
    ASSUME NEW s, DOMAIN s = Addresses, NEW a \in Addresses, NEW x
    PROVE  Written(Put(s, a, <<x>>), s, a, 1) /\ Put(s, a, <<x>>)[a] = x
<1>1. DOMAIN <<x>> = 1..1 /\ <<x>>[1] = x
  OBVIOUS
<1>2. Put(s, a, <<x>>) = [b \in Addresses |-> IF b - a + 1 \in 1..1 THEN <<x>>[b - a + 1] ELSE s[b]]
  BY <1>1 DEF Put
<1>3. Put(s, a, <<x>>)[a] = x
  BY <1>1, <1>2 DEF Addresses
<1>4. \A b \in Addresses : b < a \/ b >= a + 1 => b - a + 1 \notin 1..1
  BY DEF Addresses
<1>5. DOMAIN Put(s, a, <<x>>) = Addresses
  BY <1>2
<1> QED
  BY <1>2, <1>3, <1>4, <1>5 DEF Written

LEMMA PutPair ==
    ASSUME NEW s, DOMAIN s = Addresses, NEW a \in Addresses, a + 1 \in Addresses, NEW x, NEW y
    PROVE  /\ Written(Put(s, a, <<x, y>>), s, a, 2)
           /\ Put(s, a, <<x, y>>)[a] = x /\ Put(s, a, <<x, y>>)[a + 1] = y
<1>1. DOMAIN <<x, y>> = 1..2 /\ <<x, y>>[1] = x /\ <<x, y>>[2] = y
  OBVIOUS
<1>2. PICK ws : ws = <<x, y>>
  OBVIOUS
<1>3. Put(s, a, ws) = [b \in Addresses |-> IF b - a + 1 \in 1..2 THEN ws[b - a + 1] ELSE s[b]]
  BY <1>1, <1>2 DEF Put
<1>4. a - a + 1 = 1 /\ (a + 1) - a + 1 = 2 /\ 1 \in 1..2 /\ 2 \in 1..2
  BY DEF Addresses
<1>5. Put(s, a, ws)[a] = ws[1] /\ Put(s, a, ws)[a + 1] = ws[2]
  BY <1>3, <1>4
<1>6. \A b \in Addresses : b < a \/ b >= a + 2 => b - a + 1 \notin 1..2
  BY DEF Addresses
<1>7. DOMAIN Put(s, a, ws) = Addresses
  BY <1>3
<1>8. Written(Put(s, a, ws), s, a, 2)
  BY <1>3, <1>6, <1>7 DEF Written
<1> QED
  BY <1>1, <1>2, <1>5, <1>8

LEMMA CopiedFact ==
    ASSUME StackTyped
    PROVE  /\ CopiedLen \in 1..8 /\ len \in Nat \ {0} /\ CopiedLen <= len
           /\ len <= 8 => CopiedLen = len
           /\ len > 8 => CopiedLen = 8
           /\ DOMAIN Path = 1..CopiedLen /\ \A k \in 1..CopiedLen : Path[k] = 300 + k
<1>1. len \in Nat \ {0}
  BY StackConstants DEF StackTyped
<1> QED
  BY <1>1 DEF CopiedLen, Path, RESERVE

LEMMA PutPath ==
    ASSUME StackTyped, NEW a \in Addresses, a + 7 \in Addresses
    PROVE  /\ Written(Put(stack, a, Path), stack, a, CopiedLen)
           /\ \A k \in 1..CopiedLen : Put(stack, a, Path)[a - 1 + k] = 300 + k
<1>1. PICK n, w : n = CopiedLen /\ w = Path
  OBVIOUS
<1>2. n \in 1..8 /\ DOMAIN w = 1..n /\ \A k \in 1..n : w[k] = 300 + k
  BY <1>1, CopiedFact
<1>3. DOMAIN stack = Addresses
  BY DEF StackTyped
<1>4. Put(stack, a, w) = [b \in Addresses |-> IF b - a + 1 \in 1..n THEN w[b - a + 1] ELSE stack[b]]
  BY <1>2, <1>3 DEF Put
<1>5. \A k \in 1..n : a - 1 + k \in Addresses /\ (a - 1 + k) - a + 1 = k
  BY <1>2, StackConstants DEF Addresses
<1>6. \A k \in 1..n : Put(stack, a, w)[a - 1 + k] = 300 + k
  BY <1>2, <1>4, <1>5
<1>7. \A b \in Addresses : b < a \/ b >= a + n => b - a + 1 \notin 1..n
  BY <1>2 DEF Addresses
<1>8. DOMAIN Put(stack, a, w) = Addresses
  BY <1>4
<1>9. Written(Put(stack, a, w), stack, a, n)
  BY <1>4, <1>7, <1>8 DEF Written
<1> QED
  BY <1>1, <1>6, <1>9

-----------------------------------------------------------------------------
(* What a write leaves alone                                               *)

LEMMA TopFact == Top \in Nat /\ Top > 64 /\ Top % 2 = 0
BY StackConstants

LEMMA PairsFact ==
    /\ Len(Pairs) = 9
    /\ Pairs[1] = <<0, 0>> /\ Pairs[2] = <<25, -1>> /\ Pairs[3] = <<0, 0>>
    /\ Pairs[4] = <<5, 201>> /\ Pairs[5] = <<3, 202>> /\ Pairs[6] = <<9, 203>>
    /\ Pairs[7] = <<16, 204>> /\ Pairs[8] = <<6, 205>> /\ Pairs[9] = <<23, 0>>
BY DEF Pairs, AT_NULL, AT_RANDOM, BELOW, AT_PHNUM, PHNUM, AT_PHDR, PHDR, AT_ENTRY, ENTRY,
       AT_HWCAP, HWCAP, AT_PAGESZ, PAGESZ, AT_SECURE

LEMMA PairsKept ==
    ASSUME NEW s, NEW t, NEW m \in 0..9, PairsIn(s, m), NEW a \in Int, NEW n \in Nat,
           Written(t, s, a, n), a + n <= Top - 2 * m
    PROVE  PairsIn(t, m)
<1> SUFFICES ASSUME NEW j \in 1..m PROVE PairAt(t, j)
  BY DEF PairsIn
<1>1. PairAt(s, j)
  BY DEF PairsIn
<1>2. /\ Top - 2 * j \in Addresses /\ Top - 2 * j >= a + n
      /\ Top - 2 * j + 1 \in Addresses /\ Top - 2 * j + 1 >= a + n
  BY TopFact DEF Addresses
<1>3. t[Top - 2 * j] = s[Top - 2 * j] /\ t[Top - 2 * j + 1] = s[Top - 2 * j + 1]
  BY <1>2, Zenon DEF Written
<1> QED
  BY <1>1, <1>3, Zenon DEF PairAt

\* A write of m words at a falls on none of the copy's words from lo2 up to hi2,
\* which are among those from lo up to hi.
Spared(lo, hi, a, m, lo2, hi2) ==
    \A x \in Top - 28 .. Top - 21 : lo2 <= x /\ x < hi2 =>
        lo <= x /\ x < hi /\ (x < a \/ x >= a + m)

LEMMA ExecfnKept ==
    ASSUME NEW s, NEW t, NEW n \in 1..8, NEW lo, NEW hi, ExecfnCopy(s, n, lo, hi),
           NEW a, NEW m, Written(t, s, a, m), NEW lo2, NEW hi2, Spared(lo, hi, a, m, lo2, hi2)
    PROVE  ExecfnCopy(t, n, lo2, hi2)
<1> SUFFICES ASSUME NEW k \in 1..n, lo2 <= Top - 29 + k, Top - 29 + k < hi2
             PROVE  t[Top - 29 + k] = 300 + k
  BY DEF ExecfnCopy
<1>1. Top - 29 + k \in Top - 28 .. Top - 21 /\ Top - 29 + k \in Addresses
  BY TopFact DEF Addresses
<1>2. /\ lo <= Top - 29 + k /\ Top - 29 + k < hi
      /\ Top - 29 + k < a \/ Top - 29 + k >= a + m
  BY <1>1, Zenon DEF Spared
<1>3. s[Top - 29 + k] = 300 + k
  BY <1>2, Zenon DEF ExecfnCopy
<1> QED
  BY <1>1, <1>2, <1>3, Zenon DEF Written

-----------------------------------------------------------------------------
(* Steps                                                                   *)

LEMMA StackInitInv == StackInit => StackInv
<1> SUFFICES ASSUME StackInit PROVE StackInv
  OBVIOUS
<1>1. StackTyped
  BY DEF StackInit, StackTyped, Addresses
<1>2. PairsInv
  BY TopFact DEF StackInit, PairsInv, PairsIn
<1> QED
  BY <1>1, <1>2 DEF StackInv, StackInit, VectorInv, CopiesInv

LEMMA PushPairInv ==
    ASSUME StackInv, PushPair
    PROVE  StackInv'
<1>1. /\ StackTyped /\ next \in 1..9 /\ sp = Top - 2 * (next - 1) /\ PairsIn(stack, next - 1)
      /\ step = "pairs" /\ step' = "pairs" /\ next' = next + 1 /\ sp' = sp - 2
      /\ UNCHANGED <<len, tls, auxv>>
  BY PairsFact DEF StackInv, PairsInv, PushPair, StackTyped
<1>2. PICK a, m : a = Top - 2 * next /\ m = next
  OBVIOUS
<1>3. /\ sp' = a /\ a \in Addresses /\ a + 1 \in Addresses /\ a \in Int /\ m \in 1..9
      /\ a + 2 = Top - 2 * (m - 1) /\ m - 1 \in 0..9 /\ a = Top - 2 * m
      /\ Top - 2 * ((m + 1) - 1) = a /\ (m + 1) - 1 = m
  BY <1>1, <1>2, TopFact DEF Addresses
<1>4. stack' = Put(stack, a, <<Pairs[m][1], Second(m, a)>>)
  <2>1. Pairs[m] = <<Pairs[m][1], Pairs[m][2]>>
    <3>1. m = 1 \/ m = 2 \/ m = 3 \/ m = 4 \/ m = 5 \/ m = 6 \/ m = 7 \/ m = 8 \/ m = 9
      BY <1>3
    <3> QED
      BY <3>1, PairsFact
  <2>2. stack' = Put(stack, sp', IF Pairs[next][2] = BELOW THEN <<Pairs[next][1], sp' - 2>> ELSE Pairs[next])
    BY DEF PushPair
  <2>3. stack' = Put(stack, a, IF Pairs[m][2] = BELOW THEN <<Pairs[m][1], a - 2>> ELSE Pairs[m])
    BY <1>2, <1>3, <2>2
  <2>4. CASE Pairs[m][2] = BELOW
    BY <2>3, <2>4 DEF Second
  <2>5. CASE Pairs[m][2] # BELOW
    BY <2>1, <2>3, <2>5 DEF Second
  <2> QED
    BY <2>4, <2>5
<1>5. DOMAIN stack = Addresses
  BY <1>1 DEF StackTyped
<1>6. /\ Written(stack', stack, a, 2)
      /\ stack'[a] = Pairs[m][1] /\ stack'[a + 1] = Second(m, a)
  BY <1>3, <1>4, <1>5, PutPair
<1>7. PairsIn(stack', m)
  <2>1. PairsIn(stack', m - 1)
    <3>1. a + 2 <= Top - 2 * (m - 1) /\ 2 \in Nat /\ PairsIn(stack, m - 1)
      BY <1>1, <1>2, <1>3
    <3> QED
      BY <1>3, <1>6, <3>1, PairsKept
  <2>2. PairAt(stack', m)
    BY <1>3, <1>6 DEF PairAt
  <2>3. \A j \in 1..m : j \in 1..m - 1 \/ j = m
    BY <1>3
  <2> QED
    BY <2>1, <2>2, <2>3 DEF PairsIn
<1>8. PairsInv'
  <2>1. sp' = Top - 2 * (next' - 1) /\ next' - 1 = m
    BY <1>1, <1>2, <1>3
  <2> QED
    BY <1>1, <1>7, <2>1 DEF PairsInv
<1>9. StackTyped'
  BY <1>1, <1>6 DEF StackTyped, Written
<1> QED
  BY <1>1, <1>8, <1>9 DEF StackInv, VectorInv, CopiesInv

LEMMA PushExecfnInv ==
    ASSUME StackInv, PushExecfn
    PROVE  StackInv'
<1>1. /\ StackTyped /\ next = 10 /\ sp = Top - 18 /\ PairsIn(stack, 9)
      /\ step = "pairs" /\ step' = "tls" /\ sp' = sp - 2
      /\ UNCHANGED <<len, tls, next, auxv>>
  <2>1. /\ StackTyped /\ next > 9 /\ next \in 1..10 /\ step = "pairs" /\ step' = "tls" /\ sp' = sp - 2
        /\ UNCHANGED <<len, tls, next, auxv>>
    BY PairsFact DEF StackInv, PushExecfn, StackTyped
  <2>2. next = 10 /\ next - 1 = 9 /\ Top - 2 * (next - 1) = Top - 18
    BY <2>1, TopFact
  <2> QED
    BY <2>1, <2>2 DEF StackInv, PairsInv
<1>2. /\ sp' = Top - 20 /\ sp' - RESERVE = Top - 28
      /\ Top - 28 \in Addresses /\ (Top - 28) + 7 \in Addresses
      /\ Top - 20 \in Addresses /\ (Top - 20) + 1 \in Addresses /\ (Top - 20) + 1 = Top - 19
  BY <1>1, TopFact DEF RESERVE, Addresses
<1>3. PICK s : s = Put(stack, Top - 28, Path)
  OBVIOUS
<1>4. PICK n : n = CopiedLen /\ n \in 1..8
  BY <1>1, CopiedFact
<1>5. /\ Written(s, stack, Top - 28, n)
      /\ \A k \in 1..n : s[(Top - 28) - 1 + k] = 300 + k
  BY <1>1, <1>2, <1>3, <1>4, PutPath
<1>6. stack' = Put(s, Top - 20, <<AT_EXECFN, Top - 28>>)
  BY <1>2, <1>3 DEF PushExecfn
<1>7. DOMAIN s = Addresses
  BY <1>5 DEF Written
<1>8. /\ Written(stack', s, Top - 20, 2)
      /\ stack'[Top - 20] = AT_EXECFN /\ stack'[Top - 19] = Top - 28
  BY <1>2, <1>6, <1>7, PutPair
<1>9. PairsIn(stack', 9)
  <2>1. /\ Top - 28 \in Int /\ Top - 20 \in Int /\ n \in Nat /\ 2 \in Nat /\ 9 \in 0..9
        /\ (Top - 28) + n <= Top - 2 * 9 /\ (Top - 20) + 2 <= Top - 2 * 9
    BY <1>4, TopFact
  <2>2. PairsIn(s, 9)
    BY <1>1, <1>5, <2>1, PairsKept
  <2> QED
    BY <1>8, <2>1, <2>2, PairsKept
<1>10. ExecfnCopy(stack', n, 0, Top - 20)
  <2>1. ExecfnCopy(s, n, 0, Top - 20)
    <3>1. \A k \in 1..n : (Top - 28) - 1 + k = Top - 29 + k
      BY <1>4, TopFact
    <3> QED
      BY <1>5, <3>1 DEF ExecfnCopy
  <2>2. Spared(0, Top - 20, Top - 20, 2, 0, Top - 20)
    BY DEF Spared
  <2> QED
    BY <1>4, <1>8, <2>1, <2>2, ExecfnKept
<1>11. CopiedLen' = n
  BY <1>1, <1>4 DEF CopiedLen
<1>12. StackTyped'
  BY <1>1, <1>8 DEF StackTyped, Written
<1>13. PairsInv' /\ VectorInv'
  BY <1>1, <1>8, <1>9 DEF PairsInv, VectorInv
<1>14. CopiesInv'
  BY <1>1, <1>2, <1>10, <1>11 DEF CopiesInv
<1> QED
  BY <1>12, <1>13, <1>14 DEF StackInv

LEMMA VectorFact ==
    ASSUME StackTyped
    PROVE  /\ Vector \in Top - 22 .. Top - 20 /\ Vector \in Int /\ Vector % 2 = 0
           /\ tls # 0 => Vector = Top - 22
           /\ tls = 0 => Vector = Top - 20
BY TopFact DEF Vector

\* The auxiliary vector in s, below the pairs included.
VectorIn(s) ==
    /\ PairsIn(s, 9) /\ s[Top - 20] = AT_EXECFN /\ s[Top - 19] = Top - 28
    /\ tls # 0 => s[Top - 22] = AT_TLS /\ s[Top - 21] = tls

\* The pushes below the auxiliary vector leave it as it is.
LEMMA VectorKept ==
    ASSUME StackTyped, NEW s, NEW t, NEW a \in Int, NEW n \in Nat, Written(t, s, a, n), a + n <= Vector,
           VectorIn(s)
    PROVE  VectorIn(t)
<1>1. /\ a + n <= Top - 20 /\ 9 \in 0..9 /\ a + n <= Top - 2 * 9
      /\ tls # 0 => a + n <= Top - 22
  BY VectorFact, TopFact
<1>2. PairsIn(t, 9)
  BY <1>1, PairsKept DEF VectorIn
<1>3. /\ Top - 20 \in Addresses /\ Top - 19 \in Addresses /\ Top - 22 \in Addresses /\ Top - 21 \in Addresses
      /\ Top - 20 >= a + n /\ Top - 19 >= a + n
      /\ tls # 0 => Top - 22 >= a + n /\ Top - 21 >= a + n
  BY <1>1, TopFact DEF Addresses
<1>4. t[Top - 20] = s[Top - 20] /\ t[Top - 19] = s[Top - 19]
  BY <1>3, Zenon DEF Written
<1>5. tls # 0 => t[Top - 22] = s[Top - 22] /\ t[Top - 21] = s[Top - 21]
  BY <1>3, Zenon DEF Written
<1> QED
  BY <1>2, <1>4, <1>5 DEF VectorIn

LEMMA PushTLSInv ==
    ASSUME StackInv, PushTLS
    PROVE  StackInv'
<1>1. /\ StackTyped /\ step = "tls" /\ step' = "nulls" /\ sp = Top - 20 /\ auxv' = sp'
      /\ UNCHANGED <<len, tls, next>>
      /\ PairsIn(stack, 9) /\ stack[Top - 20] = AT_EXECFN /\ stack[Top - 19] = Top - 28
      /\ ExecfnCopy(stack, CopiedLen, 0, Top - 20)
      /\ tls # 0 => sp' = sp - 2 /\ stack' = Put(stack, sp', <<AT_TLS, tls>>)
      /\ tls = 0 => sp' = sp /\ stack' = stack
  BY DEF StackInv, PairsInv, CopiesInv, PushTLS
<1>2. PICK n : n = CopiedLen /\ n \in 1..8
  BY <1>1, CopiedFact
<1>3. CopiedLen' = n /\ Vector' = Vector
  BY <1>1, <1>2 DEF CopiedLen, Vector
<1>4. CASE tls = 0
  <2>1. auxv' = Vector /\ sp' = auxv' /\ auxv' = Top - 20 /\ stack' = stack
    BY <1>1, <1>4 DEF Vector
  <2>2. StackTyped' /\ PairsInv' /\ VectorInv' /\ CopiesInv'
    BY <1>1, <1>2, <1>3, <1>4, <2>1 DEF StackTyped, PairsInv, VectorInv, CopiesInv
  <2> QED
    BY <2>2 DEF StackInv
<1>5. CASE tls # 0
  <2>1. /\ sp' = Top - 22 /\ auxv' = Vector /\ auxv' = Top - 22
        /\ Top - 22 \in Addresses /\ (Top - 22) + 1 \in Addresses /\ (Top - 22) + 1 = Top - 21
    BY <1>1, <1>5, TopFact DEF Vector, Addresses
  <2>2. stack' = Put(stack, Top - 22, <<AT_TLS, tls>>) /\ DOMAIN stack = Addresses
    BY <1>1, <1>5, <2>1 DEF StackTyped
  <2>3. /\ Written(stack', stack, Top - 22, 2)
        /\ stack'[Top - 22] = AT_TLS /\ stack'[Top - 21] = tls
    BY <2>1, <2>2, PutPair
  <2>4. /\ Top - 22 \in Int /\ 2 \in Nat /\ (Top - 22) + 2 <= Top - 2 * 9 /\ 9 \in 0..9
        /\ Top - 20 \in Addresses /\ Top - 20 >= (Top - 22) + 2
        /\ Top - 19 \in Addresses /\ Top - 19 >= (Top - 22) + 2
    BY TopFact DEF Addresses
  <2>5. PairsIn(stack', 9)
    BY <1>1, <2>3, <2>4, PairsKept
  <2>6. stack'[Top - 20] = AT_EXECFN /\ stack'[Top - 19] = Top - 28
    BY <1>1, <2>3, <2>4, Zenon DEF Written
  <2>7. ExecfnCopy(stack', n, 0, Top - 22)
    <3>1. Spared(0, Top - 20, Top - 22, 2, 0, Top - 22)
      BY TopFact DEF Spared
    <3> QED
      BY <1>1, <1>2, <2>3, <3>1, ExecfnKept
  <2>8. StackTyped'
    BY <1>1, <2>3 DEF StackTyped, Written
  <2>9. PairsInv' /\ VectorInv' /\ CopiesInv'
    BY <1>1, <1>3, <2>1, <2>3, <2>5, <2>6, <2>7 DEF PairsInv, VectorInv, CopiesInv
  <2> QED
    BY <2>8, <2>9 DEF StackInv
<1> QED
  BY <1>4, <1>5

LEMMA PushNullsInv ==
    ASSUME StackInv, PushNulls
    PROVE  StackInv'
<1>1. /\ StackTyped /\ step = "nulls" /\ step' = "argv" /\ sp = auxv /\ auxv = Vector
      /\ sp' = sp - 2 /\ stack' = Put(stack, sp', <<0, 0>>) /\ UNCHANGED <<len, tls, next, auxv>>
      /\ PairsIn(stack, 9) /\ stack[Top - 20] = AT_EXECFN /\ stack[Top - 19] = Top - 28
      /\ tls # 0 => stack[Top - 22] = AT_TLS /\ stack[Top - 21] = tls
      /\ ExecfnCopy(stack, CopiedLen, 0, auxv)
  BY DEF StackInv, PairsInv, VectorInv, CopiesInv, PushNulls
<1>2. PICK n, v : n = CopiedLen /\ n \in 1..8 /\ v = auxv
  BY <1>1, CopiedFact
<1>3. CopiedLen' = n /\ Vector' = Vector
  BY <1>1, <1>2 DEF CopiedLen, Vector
<1>4. v \in Int /\ v \in Top - 22 .. Top - 20
  BY <1>1, <1>2, VectorFact
<1>5. /\ sp' = v - 2 /\ v - 2 \in Addresses /\ (v - 2) + 1 \in Addresses /\ (v - 2) + 1 = v - 1
      /\ v - 2 \in Int /\ 2 \in Nat /\ (v - 2) + 2 <= v
  BY <1>1, <1>2, <1>4, TopFact DEF Addresses
<1>6. Written(stack', stack, v - 2, 2) /\ stack'[v - 2] = 0 /\ stack'[v - 1] = 0
  <2>1. stack' = Put(stack, v - 2, <<0, 0>>) /\ DOMAIN stack = Addresses
    BY <1>1, <1>5 DEF StackTyped
  <2> QED
    BY <1>5, <2>1, PutPair
<1>7. /\ PairsIn(stack', 9) /\ stack'[Top - 20] = AT_EXECFN /\ stack'[Top - 19] = Top - 28
      /\ tls # 0 => stack'[Top - 22] = AT_TLS /\ stack'[Top - 21] = tls
  <2>1. (v - 2) + 2 <= Vector
    BY <1>1, <1>2, <1>5
  <2> QED
    BY <1>1, <1>5, <1>6, <2>1, VectorKept DEF VectorIn
<1>8. ExecfnCopy(stack', n, 0, v - 2)
  <2>1. Spared(0, v, v - 2, 2, 0, v - 2)
    BY <1>4, TopFact DEF Spared
  <2>2. ExecfnCopy(stack, n, 0, v)
    BY <1>1, <1>2
  <2> QED
    BY <1>2, <1>6, <2>1, <2>2, ExecfnKept
<1>9. StackTyped'
  BY <1>1, <1>6 DEF StackTyped, Written
<1>10. PairsInv' /\ VectorInv' /\ CopiesInv'
  BY <1>1, <1>2, <1>3, <1>5, <1>6, <1>7, <1>8 DEF PairsInv, VectorInv, CopiesInv
<1> QED
  BY <1>9, <1>10 DEF StackInv

LEMMA PushArgv0Inv ==
    ASSUME StackInv, PushArgv0
    PROVE  StackInv'
<1>1. /\ StackTyped /\ step = "argv" /\ step' = "argc" /\ sp = auxv - 2 /\ auxv = Vector /\ sp' = sp - 1
      /\ stack' = Put(Put(stack, sp - RESERVE, Path), sp', <<sp - RESERVE>>)
      /\ UNCHANGED <<len, tls, next, auxv>> /\ VectorIn(stack)
      /\ ExecfnCopy(stack, CopiedLen, 0, auxv - 2) /\ stack[auxv - 2] = 0 /\ stack[auxv - 1] = 0
  BY DEF StackInv, PairsInv, VectorInv, CopiesInv, VectorIn, PushArgv0
<1>2. PICK n, v : n = CopiedLen /\ n \in 1..8 /\ v = auxv
  BY <1>1, CopiedFact
<1>3. CopiedLen' = n /\ Vector' = Vector
  BY <1>1, <1>2 DEF CopiedLen, Vector
<1>4. v \in Int /\ v \in Top - 22 .. Top - 20 /\ v = Vector
  BY <1>1, <1>2, VectorFact
<1>5. /\ sp' = v - 3 /\ sp - RESERVE = v - 10
      /\ v - 10 \in Addresses /\ (v - 10) + 7 \in Addresses /\ v - 10 \in Int /\ n \in Nat
      /\ v - 3 \in Addresses /\ v - 3 \in Int /\ 1 \in Nat
      /\ (v - 10) + n <= v /\ (v - 3) + 1 <= v
      /\ v - 2 \in Addresses /\ v - 2 >= (v - 10) + n /\ v - 2 >= (v - 3) + 1
      /\ v - 1 \in Addresses /\ v - 1 >= (v - 10) + n /\ v - 1 >= (v - 3) + 1
  BY <1>1, <1>2, <1>4, TopFact DEF Addresses, RESERVE
<1>6. PICK s : s = Put(stack, v - 10, Path)
  OBVIOUS
<1>7. Written(s, stack, v - 10, n) /\ \A k \in 1..n : s[(v - 10) - 1 + k] = 300 + k
  BY <1>1, <1>2, <1>5, <1>6, PutPath
<1>8. Written(stack', s, v - 3, 1) /\ stack'[v - 3] = v - 10
  <2>1. stack' = Put(s, v - 3, <<v - 10>>)
    BY <1>1, <1>5, <1>6
  <2>2. DOMAIN s = Addresses
    BY <1>7 DEF Written
  <2> QED
    BY <1>5, <2>1, <2>2, PutOne
<1>9. VectorIn(stack')
  <2>1. VectorIn(s)
    BY <1>1, <1>4, <1>5, <1>7, VectorKept
  <2> QED
    BY <1>1, <1>4, <1>5, <1>8, <2>1, VectorKept
<1>10. stack'[v - 2] = 0 /\ stack'[v - 1] = 0
  <2>1. s[v - 2] = stack[v - 2] /\ s[v - 1] = stack[v - 1]
    BY <1>5, <1>7, Zenon DEF Written
  <2>2. stack'[v - 2] = s[v - 2] /\ stack'[v - 1] = s[v - 1]
    BY <1>5, <1>8, Zenon DEF Written
  <2> QED
    BY <1>1, <1>2, <2>1, <2>2
<1>11. ArgvCopy(stack', n, v, 7)
  <2> SUFFICES ASSUME NEW k \in 1..n, k <= 7 PROVE stack'[v - 11 + k] = 300 + k
    BY DEF ArgvCopy
  <2>1. v - 11 + k \in Addresses /\ v - 11 + k < v - 3 /\ (v - 10) - 1 + k = v - 11 + k
    BY <1>2, <1>4, TopFact DEF Addresses
  <2>2. s[v - 11 + k] = 300 + k
    BY <1>7, <2>1
  <2>3. stack'[v - 11 + k] = s[v - 11 + k]
    BY <1>8, <2>1, Zenon DEF Written
  <2> QED
    BY <2>2, <2>3
<1>12. ExecfnCopy(stack', n, v - 10 + n, v - 3)
  <2>1. ExecfnCopy(stack, n, 0, v - 2)
    BY <1>1, <1>2
  <2>2. Spared(0, v - 2, v - 10, n, v - 10 + n, v - 3)
    BY <1>2, <1>4, TopFact DEF Spared
  <2>3. ExecfnCopy(s, n, v - 10 + n, v - 3)
    BY <1>2, <1>7, <2>1, <2>2, ExecfnKept
  <2>4. Spared(v - 10 + n, v - 3, v - 3, 1, v - 10 + n, v - 3)
    BY DEF Spared
  <2> QED
    BY <1>2, <1>8, <2>3, <2>4, ExecfnKept
<1>13. StackTyped'
  BY <1>1, <1>8 DEF StackTyped, Written
<1>14. PairsInv' /\ VectorInv'
  BY <1>1, <1>3, <1>9 DEF PairsInv, VectorInv, VectorIn
<1>15. CopiesInv'
  BY <1>1, <1>2, <1>3, <1>5, <1>8, <1>10, <1>11, <1>12 DEF CopiesInv
<1> QED
  BY <1>13, <1>14, <1>15 DEF StackInv

LEMMA PushArgcInv ==
    ASSUME StackInv, PushArgc
    PROVE  StackInv'
<1>1. /\ StackTyped /\ step = "argc" /\ step' = "ready" /\ sp = auxv - 3 /\ auxv = Vector
      /\ stack' = Put(stack, sp - 1, <<1>>) /\ sp' = (sp - 1) - ((sp - 1) % 2)
      /\ UNCHANGED <<len, tls, next, auxv>> /\ VectorIn(stack)
      /\ ArgvCopy(stack, CopiedLen, auxv, 7)
      /\ ExecfnCopy(stack, CopiedLen, auxv - 10 + CopiedLen, auxv - 3)
      /\ stack[auxv - 3] = auxv - 10 /\ stack[auxv - 2] = 0 /\ stack[auxv - 1] = 0
  BY DEF StackInv, PairsInv, VectorInv, CopiesInv, VectorIn, PushArgc
<1>2. PICK n, v : n = CopiedLen /\ n \in 1..8 /\ v = auxv
  BY <1>1, CopiedFact
<1>3. CopiedLen' = n /\ Vector' = Vector
  BY <1>1, <1>2 DEF CopiedLen, Vector
<1>4. v \in Int /\ v \in Top - 22 .. Top - 20 /\ v = Vector /\ v % 2 = 0
  BY <1>1, <1>2, VectorFact
<1>5. /\ sp - 1 = v - 4 /\ v - 4 \in Addresses /\ v - 4 \in Int /\ 1 \in Nat /\ (v - 4) + 1 <= v
      /\ v - 3 \in Addresses /\ v - 3 >= (v - 4) + 1
      /\ v - 2 \in Addresses /\ v - 2 >= (v - 4) + 1
      /\ v - 1 \in Addresses /\ v - 1 >= (v - 4) + 1
  BY <1>1, <1>2, <1>4, TopFact DEF Addresses
<1>6. sp' = v - 4
  <2>1. (v - 4) % 2 = 0
    BY <1>4
  <2> QED
    BY <1>1, <1>4, <1>5, <2>1
<1>7. Written(stack', stack, v - 4, 1) /\ stack'[v - 4] = 1
  <2>1. stack' = Put(stack, v - 4, <<1>>) /\ DOMAIN stack = Addresses
    BY <1>1, <1>5 DEF StackTyped
  <2> QED
    BY <1>5, <2>1, PutOne
<1>8. VectorIn(stack')
  BY <1>1, <1>4, <1>5, <1>7, VectorKept
<1>9. stack'[v - 3] = v - 10 /\ stack'[v - 2] = 0 /\ stack'[v - 1] = 0
  <2>1. stack'[v - 3] = stack[v - 3] /\ stack'[v - 2] = stack[v - 2] /\ stack'[v - 1] = stack[v - 1]
    BY <1>5, <1>7, Zenon DEF Written
  <2> QED
    BY <1>1, <1>2, <2>1
<1>10. ArgvCopy(stack', n, v, 6)
  <2> SUFFICES ASSUME NEW k \in 1..n, k <= 6 PROVE stack'[v - 11 + k] = 300 + k
    BY DEF ArgvCopy
  <2>1. v - 11 + k \in Addresses /\ v - 11 + k < v - 4 /\ k <= 7
    BY <1>2, <1>4, TopFact DEF Addresses
  <2>2. stack[v - 11 + k] = 300 + k
    BY <1>1, <1>2, <2>1 DEF ArgvCopy
  <2>3. stack'[v - 11 + k] = stack[v - 11 + k]
    BY <1>7, <2>1, Zenon DEF Written
  <2> QED
    BY <2>2, <2>3
<1>11. ExecfnCopy(stack', n, v - 10 + n, v - 4)
  <2>1. ExecfnCopy(stack, n, v - 10 + n, v - 3)
    BY <1>1, <1>2
  <2>2. Spared(v - 10 + n, v - 3, v - 4, 1, v - 10 + n, v - 4)
    BY <1>2, <1>4, TopFact DEF Spared
  <2> QED
    BY <1>2, <1>7, <2>1, <2>2, ExecfnKept
<1>12. StackTyped'
  BY <1>1, <1>7 DEF StackTyped, Written
<1>13. PairsInv' /\ VectorInv'
  BY <1>1, <1>3, <1>8 DEF PairsInv, VectorInv, VectorIn
<1>14. CopiesInv'
  BY <1>1, <1>2, <1>3, <1>6, <1>7, <1>9, <1>10, <1>11 DEF CopiesInv
<1> QED
  BY <1>12, <1>13, <1>14 DEF StackInv

-----------------------------------------------------------------------------
(* The invariant                                                           *)

\* In every state of main the pairs, the pointers and argc lie where the pushes
\* put them, and of the two copies of the path exactly the words remain that no
\* later push falls on.
THEOREM StackInvariant == StackSpec => []StackInv
<1>1. StackInit => StackInv
  BY StackInitInv
<1>2. StackInv /\ [StackNext]_stackVars => StackInv'
  <2> SUFFICES ASSUME StackInv, [StackNext]_stackVars PROVE StackInv'
    OBVIOUS
  <2>1. CASE PushPair
    BY <2>1, PushPairInv
  <2>2. CASE PushExecfn
    BY <2>2, PushExecfnInv
  <2>3. CASE PushTLS
    BY <2>3, PushTLSInv
  <2>4. CASE PushNulls
    BY <2>4, PushNullsInv
  <2>5. CASE PushArgv0
    BY <2>5, PushArgv0Inv
  <2>6. CASE PushArgc
    BY <2>6, PushArgcInv
  <2>7. CASE Ready \/ UNCHANGED stackVars
    <3>1. UNCHANGED stackVars
      BY <2>7 DEF Ready
    <3> QED
      BY <3>1 DEF stackVars, StackInv, StackTyped, PairsInv, VectorInv, CopiesInv, Vector, CopiedLen
  <2> QED
    BY <2>1, <2>2, <2>3, <2>4, <2>5, <2>6, <2>7 DEF StackNext
<1> QED
  BY <1>1, <1>2, PTL DEF StackSpec

-----------------------------------------------------------------------------
(* What the guest finds                                                    *)

\* The auxiliary vector the guest walks: o is 1 when AT_TLS comes first.
Found(o) ==
    /\ o \in 0..1 /\ auxv = Top - 20 - 2 * o /\ Entries = 0..6 + o
    /\ o = 1 => Type(0) = 23
    /\ Type(o) = 31 /\ Value(o) = Top - 28
    /\ Type(o + 1) = 23
    /\ Type(o + 2) = 6
    /\ Type(o + 3) = 16
    /\ Type(o + 4) = 9 /\ Value(o + 4) = ENTRY
    /\ Type(o + 5) = 3 /\ Value(o + 5) = PHDR
    /\ Type(o + 6) = 5 /\ Value(o + 6) = PHNUM

LEMMA ReadyVector ==
    ASSUME StackInv, step = "ready"
    PROVE  \E o : Found(o)
<1>1. /\ auxv = Vector /\ StackTyped /\ PairsIn(stack, 9) /\ stack[Top - 20] = 31 /\ stack[Top - 19] = Top - 28
      /\ tls # 0 => stack[Top - 22] = 23
  BY DEF StackInv, PairsInv, VectorInv, AT_EXECFN, AT_TLS
<1>2. PICK o \in 0..1 : auxv = Top - 20 - 2 * o /\ (o = 1 => tls # 0)
  <2>1. CASE tls = 0
    <3>1. 0 \in 0..1 /\ auxv = Top - 20 - 2 * 0 /\ (0 = 1 => tls # 0)
      BY <1>1, <2>1, VectorFact, TopFact
    <3> QED
      BY <3>1
  <2>2. CASE tls # 0
    <3>1. 1 \in 0..1 /\ auxv = Top - 20 - 2 * 1
      BY <1>1, <2>2, VectorFact, TopFact
    <3> QED
      BY <2>2, <3>1
  <2> QED
    BY <2>1, <2>2
<1>3. /\ stack[Top - 18] = 23 /\ stack[Top - 16] = 6 /\ stack[Top - 14] = 16
      /\ stack[Top - 12] = 9 /\ stack[Top - 11] = 203
      /\ stack[Top - 10] = 3 /\ stack[Top - 9] = 202
      /\ stack[Top - 8] = 5 /\ stack[Top - 7] = 201
      /\ stack[Top - 6] = 0
  <2>1. \A j \in 1..9 : /\ stack[Top - 2 * j] = Pairs[j][1]
                        /\ stack[Top - 2 * j + 1] = Second(j, Top - 2 * j)
    BY <1>1 DEF PairsIn, PairAt
  <2>2. stack[Top - 2 * 9] = 23 /\ stack[Top - 2 * 8] = 6 /\ stack[Top - 2 * 7] = 16
    BY <2>1, PairsFact
  <2>3. stack[Top - 2 * 6] = 9 /\ stack[Top - 2 * 6 + 1] = 203
    <3>1. Pairs[6][1] = 9 /\ Pairs[6][2] = 203 /\ 6 \in 1..9
      BY PairsFact
    <3> QED
      BY <2>1, <3>1 DEF Second, BELOW
  <2>4. stack[Top - 2 * 5] = 3 /\ stack[Top - 2 * 5 + 1] = 202
    <3>1. Pairs[5][1] = 3 /\ Pairs[5][2] = 202 /\ 5 \in 1..9
      BY PairsFact
    <3> QED
      BY <2>1, <3>1 DEF Second, BELOW
  <2>5. stack[Top - 2 * 4] = 5 /\ stack[Top - 2 * 4 + 1] = 201
    <3>1. Pairs[4][1] = 5 /\ Pairs[4][2] = 201 /\ 4 \in 1..9
      BY PairsFact
    <3> QED
      BY <2>1, <3>1 DEF Second, BELOW
  <2>6. stack[Top - 2 * 3] = 0
    <3>1. Pairs[3][1] = 0 /\ 3 \in 1..9
      BY PairsFact
    <3> QED
      BY <2>1, <3>1
  <2>7. /\ Top - 2 * 9 = Top - 18 /\ Top - 2 * 8 = Top - 16 /\ Top - 2 * 7 = Top - 14
        /\ Top - 2 * 6 = Top - 12 /\ Top - 2 * 6 + 1 = Top - 11
        /\ Top - 2 * 5 = Top - 10 /\ Top - 2 * 5 + 1 = Top - 9
        /\ Top - 2 * 4 = Top - 8 /\ Top - 2 * 4 + 1 = Top - 7 /\ Top - 2 * 3 = Top - 6
    BY TopFact
  <2> QED
    BY <2>2, <2>3, <2>4, <2>5, <2>6, <2>7
<1>4. /\ auxv + 2 * o = Top - 20 /\ auxv + 2 * o + 1 = Top - 19
      /\ auxv + 2 * (o + 1) = Top - 18 /\ auxv + 2 * (o + 2) = Top - 16
      /\ auxv + 2 * (o + 3) = Top - 14
      /\ auxv + 2 * (o + 4) = Top - 12 /\ auxv + 2 * (o + 4) + 1 = Top - 11
      /\ auxv + 2 * (o + 5) = Top - 10 /\ auxv + 2 * (o + 5) + 1 = Top - 9
      /\ auxv + 2 * (o + 6) = Top - 8 /\ auxv + 2 * (o + 6) + 1 = Top - 7
      /\ auxv + 2 * (o + 7) = Top - 6
      /\ o = 1 => auxv + 2 * 0 = Top - 22
      /\ (Top - auxv) \div 2 - 1 = 9 + o
  BY <1>2, TopFact
<1>5. /\ o = 1 => Type(0) = 23
      /\ Type(o) = 31 /\ Value(o) = Top - 28 /\ Type(o + 1) = 23 /\ Type(o + 2) = 6 /\ Type(o + 3) = 16
      /\ Type(o + 4) = 9 /\ Value(o + 4) = 203 /\ Type(o + 5) = 3 /\ Value(o + 5) = 202
      /\ Type(o + 6) = 5 /\ Value(o + 6) = 201 /\ Type(o + 7) = 0
  BY <1>1, <1>2, <1>3, <1>4 DEF Type, Value
<1>6. Entries = 0..6 + o
  <2>1. Entries = {k \in 0..9 + o : \A j \in 0..k : Type(j) # 0}
    BY <1>4 DEF Entries, Type, AT_NULL
  <2>2. \A j \in 0..6 + o : Type(j) # 0
    <3> SUFFICES ASSUME NEW j \in 0..6 + o PROVE Type(j) # 0
      OBVIOUS
    <3>1. \/ o = 1 /\ j = 0
          \/ j = o \/ j = o + 1 \/ j = o + 2 \/ j = o + 3 \/ j = o + 4 \/ j = o + 5 \/ j = o + 6
      BY <1>2
    <3> QED
      BY <1>5, <3>1
  <2>3. \A k \in 0..9 + o : k \in 0..6 + o \/ o + 7 \in 0..k
    BY <1>2
  <2>4. \A k \in 0..6 + o : k \in 0..9 + o /\ \A j \in 0..k : j \in 0..6 + o
    BY <1>2
  <2>5. \A k \in 0..6 + o : k \in Entries
    BY <2>1, <2>2, <2>4
  <2>6. \A k \in Entries : k \in 0..6 + o
    BY <1>5, <2>1, <2>3
  <2> QED
    BY <2>5, <2>6
<1>7. Found(o)
  BY <1>2, <1>5, <1>6 DEF Found, ENTRY, PHDR, PHNUM
<1> QED
  BY <1>7

\* The first entry of a type is the one getauxval returns.
LEMMA GetauxvalFirst ==
    ASSUME Entries \subseteq Int, NEW k \in Entries, \A j \in Entries : j < k => Type(j) # Type(k)
    PROVE  Getauxval(Type(k)) = Value(k)
<1> DEFINE First(i) == Type(i) = Type(k) /\ \A j \in Entries : j < i => Type(j) # Type(k)
           c == CHOOSE i \in Entries : First(i)
<1>1. First(k)
  OBVIOUS
<1>2. c \in Entries /\ First(c)
  BY <1>1
<1>3. ~(c < k) /\ ~(k < c)
  BY <1>2
<1>4. c = k
  <2>1. c \in Int /\ k \in Int
    BY <1>2
  <2> HIDE DEF c
  <2> QED
    BY <1>3, <2>1
<1>5. Getauxval(Type(k)) = Value(c)
  BY DEF Getauxval
<1> QED
  BY <1>4, <1>5

LEMMA AuxValues ==
    ASSUME StackInv, step = "ready"
    PROVE  /\ Getauxval(AT_PHDR) = PHDR /\ Getauxval(AT_PHNUM) = PHNUM
           /\ Getauxval(AT_ENTRY) = ENTRY /\ Getauxval(AT_EXECFN) = Top - 28
<1>1. PICK o : Found(o)
  BY ReadyVector
<1>2. /\ o \in 0..1 /\ Entries = 0..6 + o /\ Entries \subseteq Int
      /\ o \in Entries /\ o + 4 \in Entries /\ o + 5 \in Entries /\ o + 6 \in Entries
  BY <1>1, SMTT(60) DEF Found
<1>3. \A j \in Entries : /\ j < o => o = 1 /\ j = 0
                         /\ \/ o = 1 /\ j = 0
                            \/ j = o \/ j = o + 1 \/ j = o + 2 \/ j = o + 3 \/ j = o + 4 \/ j = o + 5 \/ j = o + 6
  BY <1>2
<1>4. \A j \in Entries : /\ j < o => Type(j) # 31
                         /\ j < o + 4 => Type(j) # 9
                         /\ j < o + 5 => Type(j) # 3
                         /\ j < o + 6 => Type(j) # 5
  <2> SUFFICES ASSUME NEW j \in Entries
               PROVE  /\ j < o => Type(j) # 31
                      /\ j < o + 4 => Type(j) # 9
                      /\ j < o + 5 => Type(j) # 3
                      /\ j < o + 6 => Type(j) # 5
    OBVIOUS
  <2>1. /\ j < o => Type(j) = 23
        /\ j = o + 4 => Type(j) = 9 /\ ~(j < o) /\ ~(j < o + 4)
        /\ j = o + 5 => Type(j) = 3 /\ ~(j < o) /\ ~(j < o + 4) /\ ~(j < o + 5)
        /\ j = o + 6 => Type(j) = 5 /\ ~(j < o) /\ ~(j < o + 4) /\ ~(j < o + 5) /\ ~(j < o + 6)
    BY <1>1, <1>2, <1>3, SMTT(60) DEF Found
  <2>2. \/ Type(j) \in {23, 31, 6, 16} \/ j = o + 4 \/ j = o + 5 \/ j = o + 6
    BY <1>1, <1>3 DEF Found
  <2> QED
    BY <2>1, <2>2
<1>5. Type(o) = 31 /\ Type(o + 4) = 9 /\ Type(o + 5) = 3 /\ Type(o + 6) = 5
  BY <1>1 DEF Found
<1>6. Getauxval(31) = Value(o)
  BY <1>2, <1>4, <1>5, GetauxvalFirst
<1>7. Getauxval(9) = Value(o + 4) /\ Getauxval(3) = Value(o + 5) /\ Getauxval(5) = Value(o + 6)
  <2>1. \A j \in Entries : j < o + 4 => Type(j) # Type(o + 4)
    BY <1>4, <1>5
  <2>2. \A j \in Entries : j < o + 5 => Type(j) # Type(o + 5)
    BY <1>4, <1>5
  <2>3. \A j \in Entries : j < o + 6 => Type(j) # Type(o + 6)
    BY <1>4, <1>5
  <2>4. Getauxval(Type(o + 4)) = Value(o + 4)
    BY <1>2, <2>1, GetauxvalFirst
  <2>5. Getauxval(Type(o + 5)) = Value(o + 5)
    BY <1>2, <2>2, GetauxvalFirst
  <2>6. Getauxval(Type(o + 6)) = Value(o + 6)
    BY <1>2, <2>3, GetauxvalFirst
  <2> QED
    BY <1>5, <2>4, <2>5, <2>6
<1>8. Value(o) = Top - 28 /\ Value(o + 4) = ENTRY /\ Value(o + 5) = PHDR /\ Value(o + 6) = PHNUM
  BY <1>1 DEF Found
<1> QED
  BY <1>6, <1>7, <1>8 DEF AT_EXECFN, AT_ENTRY, AT_PHDR, AT_PHNUM

\* What CopiesInv says once the guest starts.
LEMMA ReadyCopies ==
    ASSUME StackInv, step = "ready"
    PROVE  /\ StackTyped /\ auxv = Vector /\ auxv \in Top - 22 .. Top - 20 /\ auxv % 2 = 0
           /\ tls # 0 => auxv = Top - 22
           /\ tls = 0 => auxv = Top - 20
           /\ sp = auxv - 4 /\ stack[auxv - 4] = 1 /\ stack[auxv - 3] = auxv - 10
           /\ stack[auxv - 2] = 0 /\ stack[auxv - 1] = 0
           /\ ArgvCopy(stack, CopiedLen, auxv, 6)
           /\ ExecfnCopy(stack, CopiedLen, auxv - 10 + CopiedLen, auxv - 4)
<1>1. StackTyped /\ auxv = Vector
  BY DEF StackInv, VectorInv
<1>2. /\ auxv \in Top - 22 .. Top - 20 /\ auxv % 2 = 0
      /\ tls # 0 => auxv = Top - 22
      /\ tls = 0 => auxv = Top - 20
  BY <1>1, VectorFact
<1> QED
  BY <1>1, <1>2 DEF StackInv, CopiesInv

LEMMA LayoutFact ==
    ASSUME StackInv
    PROVE  StackLayout
<1> SUFFICES ASSUME step = "ready"
             PROVE  /\ sp % 2 = 0 /\ stack[sp] = 1 /\ stack[sp + 1] \in DOMAIN stack
                    /\ stack[sp + 2] = 0 /\ stack[sp + 3] = 0 /\ auxv = sp + 4
                    /\ Getauxval(AT_PHDR) = PHDR /\ Getauxval(AT_PHNUM) = PHNUM
                    /\ Getauxval(AT_ENTRY) = ENTRY
  BY DEF StackLayout
<1>1. /\ auxv \in Top - 22 .. Top - 20 /\ auxv % 2 = 0 /\ sp = auxv - 4
      /\ stack[auxv - 4] = 1 /\ stack[auxv - 3] = auxv - 10 /\ stack[auxv - 2] = 0 /\ stack[auxv - 1] = 0
      /\ DOMAIN stack = Addresses
  BY ReadyCopies DEF StackTyped
<1>2. sp + 1 = auxv - 3 /\ sp + 2 = auxv - 2 /\ sp + 3 = auxv - 1 /\ auxv = sp + 4 /\ auxv - 10 \in Addresses
  BY <1>1, TopFact DEF Addresses
<1>3. sp % 2 = 0
  BY <1>1, TopFact
<1> QED
  BY <1>1, <1>2, <1>3, AuxValues

LEMMA HoldsFact ==
    ASSUME StackTyped, NEW a \in Addresses
    PROVE  HoldsPath(a) <=> \A k \in 1..CopiedLen : stack[a + k - 1] = 300 + k
<1>1. \A k \in 1..CopiedLen : Path[k] = 300 + k
  BY CopiedFact
<1>2. a \in DOMAIN stack
  BY DEF StackTyped
<1>3. ASSUME HoldsPath(a), NEW k \in 1..CopiedLen PROVE stack[a + k - 1] = 300 + k
  <2>1. stack[a + k - 1] = Path[k]
    BY <1>3, Zenon DEF HoldsPath
  <2>2. Path[k] = 300 + k
    BY <1>1, Zenon
  <2> QED
    BY <2>1, <2>2, Zenon
<1>4. ASSUME \A k \in 1..CopiedLen : stack[a + k - 1] = 300 + k, NEW k \in 1..CopiedLen
      PROVE  stack[a + k - 1] = Path[k]
  <2>1. stack[a + k - 1] = 300 + k
    BY <1>4, Zenon
  <2>2. Path[k] = 300 + k
    BY <1>1, Zenon
  <2> QED
    BY <2>1, <2>2, Zenon
<1> QED
  BY <1>2, <1>3, <1>4, Zenon DEF HoldsPath

LEMMA ArgvFact ==
    ASSUME StackInv
    PROVE  ArgvSurvives
<1> SUFFICES ASSUME step = "ready" PROVE HoldsPath(stack[sp + 1]) <=> len <= 6
  BY DEF ArgvSurvives, RESERVE
<1>1. PICK n, v : n = CopiedLen /\ v = auxv
  OBVIOUS
<1>2. /\ v \in Top - 22 .. Top - 20 /\ sp = v - 4 /\ stack[v - 4] = 1 /\ stack[v - 3] = v - 10
      /\ DOMAIN stack = Addresses /\ ArgvCopy(stack, n, v, 6) /\ StackTyped
  BY <1>1, ReadyCopies DEF StackTyped
<1>3. sp + 1 = v - 3 /\ v - 10 \in Addresses
  BY <1>2, TopFact DEF Addresses
<1>4. /\ n \in 1..8 /\ len \in Nat /\ DOMAIN Path = 1..n /\ \A k \in 1..n : Path[k] = 300 + k
      /\ len <= 8 => n = len
      /\ len > 8 => n = 8
  BY <1>1, <1>2, CopiedFact
<1>5. HoldsPath(v - 10) <=> \A k \in 1..n : stack[v - 10 + k - 1] = 300 + k
  BY <1>1, <1>2, <1>3, HoldsFact
<1>6. CASE len <= 6
  <2>1. \A k \in 1..n : k <= 6 /\ v - 10 + k - 1 = v - 11 + k
    BY <1>2, <1>4, <1>6, TopFact
  <2>2. \A k \in 1..n : stack[v - 11 + k] = 300 + k
    BY <1>2, <2>1 DEF ArgvCopy
  <2>3. \A k \in 1..n : stack[v - 10 + k - 1] = 300 + k
    BY <2>1, <2>2
  <2> QED
    BY <1>2, <1>3, <1>5, <1>6, <2>3
<1>7. CASE len > 6
  <2>1. 7 \in 1..n /\ v - 10 + 7 - 1 = v - 4 /\ 300 + 7 # 1
    BY <1>2, <1>4, <1>7, TopFact
  <2>2. ~HoldsPath(v - 10)
    BY <1>2, <1>5, <2>1
  <2>3. ~(len <= 6)
    BY <1>4, <1>7
  <2> QED
    BY <1>2, <1>3, <2>2, <2>3
<1> QED
  BY <1>4, <1>6, <1>7

LEMMA ExecfnFact ==
    ASSUME StackInv
    PROVE  ExecfnSurvives
<1> SUFFICES ASSUME step = "ready" PROVE HoldsPath(Top - 28) <=> len <= 2
  BY AuxValues DEF ExecfnSurvives
<1>1. PICK n, v : n = CopiedLen /\ v = auxv
  OBVIOUS
<1>2. /\ v \in Top - 22 .. Top - 20 /\ (v = Top - 22 \/ v = Top - 20)
      /\ stack[v - 4] = 1 /\ DOMAIN stack = Addresses /\ StackTyped
      /\ ArgvCopy(stack, n, v, 6) /\ ExecfnCopy(stack, n, v - 10 + n, v - 4)
  BY <1>1, ReadyCopies DEF StackTyped
<1>3. Top - 28 \in Addresses
  BY TopFact DEF Addresses
<1>4. /\ n \in 1..8 /\ len \in Nat /\ DOMAIN Path = 1..n /\ \A k \in 1..n : Path[k] = 300 + k
      /\ len <= 8 => n = len
      /\ len > 8 => n = 8
  BY <1>1, <1>2, CopiedFact
<1>5. HoldsPath(Top - 28) <=> \A k \in 1..n : stack[Top - 28 + k - 1] = 300 + k
  BY <1>1, <1>2, <1>3, HoldsFact
<1>6. CASE len <= 2
  <2>1. \A k \in 1..n : /\ v - 10 + n <= Top - 29 + k /\ Top - 29 + k < v - 4
                        /\ Top - 28 + k - 1 = Top - 29 + k
    BY <1>2, <1>4, <1>6, TopFact
  <2>2. \A k \in 1..n : stack[Top - 29 + k] = 300 + k
    BY <1>2, <2>1 DEF ExecfnCopy
  <2>3. \A k \in 1..n : stack[Top - 28 + k - 1] = 300 + k
    BY <2>1, <2>2
  <2> QED
    BY <1>5, <1>6, <2>3
<1>7. CASE len > 2
  <2>1. 1 \in 1..n /\ 3 \in 1..n /\ 3 <= 6 /\ ~(len <= 2)
    BY <1>4, <1>7
  <2>2. CASE v = Top - 22
    <3>1. v - 4 = Top - 28 + 3 - 1 /\ 300 + 3 # 1
      BY <2>2, TopFact
    <3> QED
      BY <1>2, <1>5, <2>1, <3>1
  <2>3. CASE v = Top - 20
    <3>1. v - 11 + 3 = Top - 28 + 1 - 1 /\ 300 + 3 # 300 + 1
      BY <2>3, TopFact
    <3>2. stack[v - 11 + 3] = 300 + 3
      BY <1>2, <2>1 DEF ArgvCopy
    <3> QED
      BY <1>5, <2>1, <3>1, <3>2
  <2> QED
    BY <1>2, <2>2, <2>3
<1> QED
  BY <1>4, <1>6, <1>7

LEMMA EntriesFact ==
    ASSUME StackInv
    PROVE  EntriesFound
<1> SUFFICES ASSUME step = "ready"
             PROVE  {Type(k) : k \in Entries} = {3, 5, 6, 9, 16, 23, 31}
  BY DEF EntriesFound, AT_PHDR, AT_PHNUM, AT_PAGESZ, AT_ENTRY, AT_HWCAP, AT_SECURE, AT_EXECFN
<1>1. PICK o : Found(o)
  BY ReadyVector
<1>2. /\ o \in Entries /\ o + 1 \in Entries /\ o + 2 \in Entries /\ o + 3 \in Entries
      /\ o + 4 \in Entries /\ o + 5 \in Entries /\ o + 6 \in Entries
  BY <1>1, SMTT(60) DEF Found
<1>3. \A j \in Entries : \/ o = 1 /\ j = 0
                         \/ j = o \/ j = o + 1 \/ j = o + 2 \/ j = o + 3 \/ j = o + 4 \/ j = o + 5 \/ j = o + 6
  BY <1>1, SMTT(60) DEF Found
<1>4. /\ o = 1 => Type(0) = 23
      /\ Type(o) = 31 /\ Type(o + 1) = 23 /\ Type(o + 2) = 6 /\ Type(o + 3) = 16
      /\ Type(o + 4) = 9 /\ Type(o + 5) = 3 /\ Type(o + 6) = 5
  BY <1>1 DEF Found
<1>5. \A j \in Entries : Type(j) \in {3, 5, 6, 9, 16, 23, 31}
  BY <1>3, <1>4
<1>6. \A x \in {3, 5, 6, 9, 16, 23, 31} : \E k \in Entries : Type(k) = x
  <2> SUFFICES ASSUME NEW x \in {3, 5, 6, 9, 16, 23, 31} PROVE \E k \in Entries : Type(k) = x
    OBVIOUS
  <2>1. x = 3 \/ x = 5 \/ x = 6 \/ x = 9 \/ x = 16 \/ x = 23 \/ x = 31
    OBVIOUS
  <2> QED
    BY <1>2, <1>4, <2>1, Zenon
<1> QED
  BY <1>5, <1>6

-----------------------------------------------------------------------------
(* What main promises the guest                                            *)

\* For every stack, path and TLS block main leaves the layout that its comment
\* draws, and a walk of the vector finds the program headers and the entry point.
THEOREM GuestFindsLayout == StackSpec => []StackLayout
BY StackInvariant, LayoutFact, PTL

\* argv[0] survives the pushes after it exactly for paths of at most 48 bytes.
THEOREM ArgvHoldsShortPaths == StackSpec => []ArgvSurvives
BY StackInvariant, ArgvFact, PTL

\* The path AT_EXECFN points to survives the pushes exactly for paths of at most
\* 16 bytes.
THEOREM ExecfnHoldsShorterPaths == StackSpec => []ExecfnSurvives
BY StackInvariant, ExecfnFact, PTL

\* For every stack, path and TLS block the walk of the vector finds the seven types
\* that main pushes last, and stops before AT_RANDOM.
THEOREM WalkFindsEntries == StackSpec => []EntriesFound
BY StackInvariant, EntriesFact, PTL
=============================================================================
