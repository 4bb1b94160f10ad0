---------------------------- MODULE FormatProofs ----------------------------
(***************************************************************************)
(* Numbers of a fixed width, and what is written with them: the arithmetic *)
(* of amounts, the sizes that ledgers are opened with, then the calls of   *)
(* the parser.                                                             *)
(***************************************************************************)
EXTENDS Amounts, LedgerOpen, ParserClients, SequenceTheorems, SumLemmas, TLAPS

(***************************************************************************)
(* Amounts for every base and width: the types, and that the sum and the   *)
(* difference are right.  The invariant relates the bytes done: what the   *)
(* operands add up to, or differ by, is what has been stored plus, or      *)
(* minus, the carry at the weight of the next byte.                        *)
(***************************************************************************)
AddsUp ==
  op = "add" => done_res + carry * weight = done_a + done_b

SubtractsTo ==
  op = "sub" => done_res + done_b = done_a + carry * weight

Bounded ==
  /\ weight \in Nat \ {0}
  /\ done_a \in 0..(weight - 1)
  /\ done_b \in 0..(weight - 1)
  /\ done_res \in 0..(weight - 1)

\* The flag is the last carry.
FlagIsCarry ==
  returned # "none" => i = Width /\ (returned = "yes" <=> carry = 0)

IInv == TypeOK /\ Bounded /\ AddsUp /\ SubtractsTo /\ FlagIsCarry

-----------------------------------------------------------------------------
(* Arithmetic of one byte. *)

\* A byte put before x, a number below w, gives a number below w * B.
LEMMA NextBound ==
  ASSUME NEW B \in Nat \ {0}, NEW w \in Nat \ {0}, NEW d \in 0..(B - 1),
         NEW x \in 0..(w - 1)
  PROVE  x + d * w \in 0..(w * B - 1)
<1>1. d * w \in Nat
  OBVIOUS
<1>2. (d + 1) * w = d * w + w
  OBVIOUS
<1>3. (d + 1) * w <= B * w
  <2> DEFINE e == B - (d + 1)
  <2>1. e \in Nat
    OBVIOUS
  <2>2. e * w \in Nat
    BY <2>1
  <2>3. B = (d + 1) + e
    OBVIOUS
  <2>4. B * w = (d + 1) * w + e * w
    BY <2>1, <2>3
  <2> QED BY <1>1, <1>2, <2>2, <2>4
<1>4. B * w = w * B
  OBVIOUS
<1>5. w * B \in Nat
  OBVIOUS
<1> QED BY <1>1, <1>2, <1>3, <1>4, <1>5

\* One step of the sum.
LEMMA ByteOfSum ==
  ASSUME NEW B \in Nat \ {0, 1}, NEW w \in Nat, NEW a \in 0..(B - 1),
         NEW b \in 0..(B - 1), NEW c \in 0..1,
         NEW x \in Nat, NEW y \in Nat, NEW r \in Nat, r + c * w = x + y,
         NEW s, NEW k, s = (c + a + b) % B, k = (c + a + b) \div B
  PROVE  /\ s \in 0..(B - 1)
         /\ k \in 0..1
         /\ (r + s * w) + k * (w * B) = (x + a * w) + (y + b * w)
<1> DEFINE n == c + a + b
<1>1. n \in Nat /\ n < 2 * B
  OBVIOUS
<1>2. s \in 0..(B - 1) /\ k \in Int /\ n = B * k + s
  BY <1>1
<1>3. k \in 0..1
  <2>1. CASE k >= 2
    <3>1. PICK m \in Nat : k = 2 + m
      <4>1. k - 2 \in Nat /\ k = 2 + (k - 2)
        BY <1>2, <2>1
      <4> QED BY <4>1
    <3>2. B * k = 2 * B + B * m /\ B * m \in Nat
      BY <3>1
    <3> QED BY <1>1, <1>2, <3>2
  <2>2. CASE k <= -1
    <3>1. PICK m \in Nat : k = -1 - m
      <4>1. -1 - k \in Nat /\ k = -1 - (-1 - k)
        BY <1>2, <2>2
      <4> QED BY <4>1
    <3>2. B * k = -B - B * m /\ B * m \in Nat
      BY <3>1
    <3> QED BY <1>1, <1>2, <3>2
  <2> QED BY <1>2, <2>1, <2>2
<1>4. n * w = c * w + a * w + b * w
  OBVIOUS
<1>5. (B * k + s) * w = k * (w * B) + s * w
  <2>1. CASE k = 0
    BY <1>2, <2>1
  <2>2. CASE k = 1
    BY <1>2, <2>2
  <2> QED BY <1>3, <2>1, <2>2
<1>6. c * w \in Int /\ a * w \in Int /\ b * w \in Int /\ s * w \in Int
  BY <1>2
<1>7. k * (w * B) \in Int
  BY <1>2
<1>8. (r + s * w) + k * (w * B) = (x + a * w) + (y + b * w)
  <2> HIDE DEF n
  <2>1. n * w = k * (w * B) + s * w
    BY <1>2, <1>5
  <2> QED BY <1>4, <1>6, <1>7, <2>1
<1> QED BY <1>2, <1>3, <1>8

\* One step of the difference.
LEMMA ByteOfDifference ==
  ASSUME NEW B \in Nat \ {0, 1}, NEW w \in Nat, NEW a \in 0..(B - 1),
         NEW b \in 0..(B - 1), NEW c \in 0..1,
         NEW x \in Nat, NEW y \in Nat, NEW r \in Nat, r + y = x + c * w
  PROVE  LET k == IF c + b > a THEN 1 ELSE 0
             s == a + k * B - c - b
         IN  /\ s \in 0..(B - 1)
             /\ k \in 0..1
             /\ (r + s * w) + (y + b * w) = (x + a * w) + k * (w * B)
<1> DEFINE k == IF c + b > a THEN 1 ELSE 0
           s == a + k * B - c - b
<1>1. k \in 0..1
  OBVIOUS
<1>2. s \in 0..(B - 1)
  OBVIOUS
<1>3. s * w = a * w + k * (w * B) - c * w - b * w
  <2>1. CASE c + b > a
    <3>1. k = 1 /\ s = a + B - c - b
      BY <2>1
    <3>2. (a + B - c - b) * w = a * w + w * B - c * w - b * w
      OBVIOUS
    <3> QED BY <3>1, <3>2
  <2>2. CASE ~(c + b > a)
    <3>1. k = 0 /\ s = a - c - b
      BY <2>2
    <3>2. (a - c - b) * w = a * w - c * w - b * w
      OBVIOUS
    <3> QED BY <3>1, <3>2
  <2> QED BY <2>1, <2>2
<1>4. c * w \in Int /\ a * w \in Int /\ b * w \in Int /\ s * w \in Int
  BY <1>2
<1>5. k * (w * B) \in Int
  BY <1>1
<1>6. (r + s * w) + (y + b * w) = (x + a * w) + k * (w * B)
  <2> HIDE DEF s, k
  <2> QED BY <1>3, <1>4, <1>5
<1> QED BY <1>1, <1>2, <1>6

-----------------------------------------------------------------------------
(* The invariant. *)

LEMMA InitHolds == Init => IInv
BY AmountAssumption DEF Init, IInv, TypeOK, Bounded, AddsUp, SubtractsTo,
   FlagIsCarry, Amount, Byte

\* Storing a byte keeps types and bounds, whatever the byte.
LEMMA StoreKeeps ==
  ASSUME TypeOK, Bounded, i < Width, returned = "none",
         NEW byte \in Byte, NEW next_carry \in 0..1, Store(byte, next_carry)
  PROVE  /\ TypeOK' /\ Bounded'
         /\ a_j \in Byte /\ b_j \in Byte
<1>1. j_ind \in 1..Width
  BY AmountAssumption DEF TypeOK, j_ind
<1>2. a_j \in Byte /\ b_j \in Byte
  BY <1>1 DEF TypeOK, a_j, b_j, Amount
<1>3. TypeOK'
  BY <1>1, AmountAssumption DEF TypeOK, Store, Amount
<1>4. weight' \in Nat \ {0}
  <2>1. weight' = weight * Base
    BY DEF Store
  <2>2. weight * Base \in Nat \ {0}
    BY AmountAssumption DEF Bounded
  <2> QED BY <2>1, <2>2
<1>5. ASSUME NEW d \in Byte, NEW x \in 0..(weight - 1)
      PROVE  x + d * weight \in 0..(weight * Base - 1)
  BY NextBound, AmountAssumption DEF Bounded, Byte
<1>6. /\ done_a + a_j * weight \in 0..(weight * Base - 1)
      /\ done_b + b_j * weight \in 0..(weight * Base - 1)
      /\ done_res + byte * weight \in 0..(weight * Base - 1)
  BY <1>2, <1>5 DEF Bounded
<1> QED BY <1>2, <1>3, <1>4, <1>6 DEF Bounded, Store

LEMMA AddByteKeeps ==
  ASSUME IInv, AddByte PROVE IInv'
<1>1. /\ TypeOK /\ Bounded /\ i < Width /\ op = "add"
      /\ Store(SumByte, SumCarry)
  BY DEF IInv, AddByte
<1>2. returned = "none"
  <2>1. i # Width
    BY <1>1, AmountAssumption DEF TypeOK
  <2> QED BY <2>1 DEF IInv, FlagIsCarry
<1>3. a_j \in Byte /\ b_j \in Byte
  <2>1. j_ind \in 1..Width
    BY <1>1, AmountAssumption DEF TypeOK, j_ind
  <2> QED BY <1>1, <2>1 DEF TypeOK, a_j, b_j, Amount
<1>4. /\ SumByte \in Byte /\ SumCarry \in 0..1
      /\ (done_res + SumByte * weight) + SumCarry * (weight * Base)
           = (done_a + a_j * weight) + (done_b + b_j * weight)
  <2>1. done_res + carry * weight = done_a + done_b
    BY <1>1 DEF IInv, AddsUp
  <2>2. /\ weight \in Nat /\ carry \in 0..1
        /\ done_a \in Nat /\ done_b \in Nat /\ done_res \in Nat
    BY <1>1 DEF TypeOK, Bounded
  <2>3. a_j \in 0..(Base - 1) /\ b_j \in 0..(Base - 1)
    BY <1>3 DEF Byte
  <2>4. /\ SumByte = (carry + a_j + b_j) % Base
        /\ SumCarry = (carry + a_j + b_j) \div Base
    BY DEF SumByte, SumCarry
  <2> QED BY <2>1, <2>2, <2>3, <2>4, ByteOfSum, AmountAssumption DEF Byte
<1>5. TypeOK' /\ Bounded'
  BY <1>1, <1>2, <1>4, StoreKeeps
<1>6. AddsUp'
  BY <1>1, <1>4 DEF AddsUp, Store
<1>7. SubtractsTo' /\ FlagIsCarry'
  BY <1>1, <1>2 DEF SubtractsTo, FlagIsCarry, Store
<1> QED BY <1>5, <1>6, <1>7 DEF IInv

LEMMA SubByteKeeps ==
  ASSUME IInv, SubByte PROVE IInv'
<1>1. /\ TypeOK /\ Bounded /\ i < Width /\ op = "sub"
      /\ Store(DiffByte, Borrow)
  BY DEF IInv, SubByte
<1>2. returned = "none"
  <2>1. i # Width
    BY <1>1, AmountAssumption DEF TypeOK
  <2> QED BY <2>1 DEF IInv, FlagIsCarry
<1>3. a_j \in Byte /\ b_j \in Byte
  <2>1. j_ind \in 1..Width
    BY <1>1, AmountAssumption DEF TypeOK, j_ind
  <2> QED BY <1>1, <2>1 DEF TypeOK, a_j, b_j, Amount
<1>4. /\ DiffByte \in Byte /\ Borrow \in 0..1
      /\ (done_res + DiffByte * weight) + (done_b + b_j * weight)
           = (done_a + a_j * weight) + Borrow * (weight * Base)
  <2>1. done_res + done_b = done_a + carry * weight
    BY <1>1 DEF IInv, SubtractsTo
  <2>2. /\ weight \in Nat /\ carry \in 0..1
        /\ done_a \in Nat /\ done_b \in Nat /\ done_res \in Nat
    BY <1>1 DEF TypeOK, Bounded
  <2> QED BY <1>3, <2>1, <2>2, ByteOfDifference, AmountAssumption
             DEF DiffByte, Borrow, Byte
<1>5. TypeOK' /\ Bounded'
  BY <1>1, <1>2, <1>4, StoreKeeps
<1>6. SubtractsTo'
  BY <1>1, <1>4 DEF SubtractsTo, Store
<1>7. AddsUp' /\ FlagIsCarry'
  BY <1>1, <1>2 DEF AddsUp, FlagIsCarry, Store
<1> QED BY <1>5, <1>6, <1>7 DEF IInv

LEMMA ReturnKeeps ==
  ASSUME IInv, Return PROVE IInv'
<1>1. UNCHANGED <<op, amount_a, amount_b, res, i, carry, weight, done_a, done_b,
                  done_res>>
  BY DEF Return, ghost
<1>2. /\ returned' = (IF carry = 0 THEN "yes" ELSE "no")
      /\ i = Width
  BY DEF Return
<1>3. TypeOK'
  BY <1>1, <1>2 DEF IInv, TypeOK
<1>4. Bounded' /\ AddsUp' /\ SubtractsTo'
  BY <1>1 DEF IInv, Bounded, AddsUp, SubtractsTo
<1>5. FlagIsCarry'
  BY <1>1, <1>2 DEF FlagIsCarry
<1> QED BY <1>3, <1>4, <1>5 DEF IInv

LEMMA StutterKeeps ==
  ASSUME IInv, UNCHANGED vars PROVE IInv'
BY DEF IInv, TypeOK, Bounded, AddsUp, SubtractsTo, FlagIsCarry, vars, code, ghost

LEMMA StepKeeps == IInv /\ [Next]_vars => IInv'
BY AddByteKeeps, SubByteKeeps, ReturnKeeps, StutterKeeps DEF Next

LEMMA Invariance == Spec => []IInv
BY InitHolds, StepKeeps, PTL DEF Spec

\* Every value has its type throughout both loops: a carry is one bit and a
\* byte stored is a byte.
THEOREM Types == Spec => []TypeOK
<1>1. IInv => TypeOK
  BY DEF IInv
<1> QED BY <1>1, Invariance, PTL

\* For every base and width, hence for 32 bytes: amount_checked_add and
\* amount_checked_sub return true just when the exact result fits, and then
\* have stored it.
THEOREM ArithmeticIsExact == Spec => []Checked
<1>1. IInv => Checked
  <2> SUFFICES ASSUME IInv, returned # "none" PROVE Checked
    BY DEF Checked
  <2>1. returned = "yes" <=> carry = 0
    BY DEF IInv, FlagIsCarry
  <2>2. Bounded /\ carry \in 0..1
    BY DEF IInv, TypeOK
  <2>3. done_a < weight /\ done_b < weight /\ done_res < weight
    BY <2>2 DEF Bounded
  <2>4. ASSUME op = "add"
        PROVE  /\ returned = "yes" <=> done_a + done_b < weight
               /\ returned = "yes" => done_res = done_a + done_b
    <3>1. done_res + carry * weight = done_a + done_b
      BY <2>4 DEF IInv, AddsUp
    <3>2. CASE carry = 0
      BY <2>1, <2>2, <3>1, <3>2 DEF Bounded
    <3>3. CASE carry = 1
      BY <2>1, <2>2, <3>1, <3>3 DEF Bounded
    <3> QED BY <2>2, <3>2, <3>3
  <2>5. ASSUME op = "sub"
        PROVE  /\ returned = "yes" <=> done_b <= done_a
               /\ returned = "yes" => done_res = done_a - done_b
    <3>1. done_res + done_b = done_a + carry * weight
      BY <2>5 DEF IInv, SubtractsTo
    <3>2. CASE carry = 0
      BY <2>1, <2>2, <3>1, <3>2 DEF Bounded
    <3>3. CASE carry = 1
      BY <2>1, <2>2, <3>1, <3>3 DEF Bounded
    <3> QED BY <2>2, <3>2, <3>3
  <2> QED BY <2>3, <2>4, <2>5 DEF Checked
<1> QED BY <1>1, Invariance, PTL

-----------------------------------------------------------------------------
(***************************************************************************)
(* The numbers that the theorem above is about are those of the bytes.     *)
(* Power is given by a recursion, which has a solution up to every n (by   *)
(* induction) and only one.                                                *)
(***************************************************************************)
Powers(g, n) == g = [k \in 0..n |-> IF k = 0 THEN 1 ELSE Base * g[k - 1]]

LEMMA PowersAgree ==
  ASSUME NEW n \in Nat, NEW m \in Nat, n <= m, NEW g, NEW h, Powers(g, n), Powers(h, m)
  PROVE  \A k \in 0..n : g[k] = h[k]
<1> DEFINE G == {k \in Nat : k \in 0..n => g[k] = h[k]}
<1>1. 0 \in G
  BY DEF Powers
<1>2. ASSUME NEW k \in Nat, k \in G PROVE k + 1 \in G
  <2> SUFFICES ASSUME k + 1 \in 0..n PROVE g[k + 1] = h[k + 1]
    OBVIOUS
  <2> DEFINE up == k + 1
  <2>1. k \in 0..n /\ g[k] = h[k]
    BY <1>2
  <2>2. up \in 0..n /\ up \in 0..m /\ up # 0 /\ up - 1 = k
    OBVIOUS
  <2> HIDE DEF up
  <2>3. g[up] = Base * g[up - 1] /\ h[up] = Base * h[up - 1]
    BY <2>2 DEF Powers
  <2>4. g[up] = h[up]
    BY <2>1, <2>2, <2>3
  <2> QED
    BY <2>4 DEF up
<1>3. \A k \in Nat : k \in G
  <2> HIDE DEF G
  <2> QED
    BY <1>1, <1>2, NatCollection
<1> QED
  BY <1>3

LEMMA PowersExist == \A n \in Nat : \E g : Powers(g, n)
<1> DEFINE G == {n \in Nat : \E g : Powers(g, n)}
<1>1. 0 \in G
  <2>1. Powers([k \in 0..0 |-> 1], 0)
    BY DEF Powers
  <2> QED
    BY <2>1
<1>2. ASSUME NEW n \in Nat, n \in G PROVE n + 1 \in G
  <2>1. PICK g : Powers(g, n)
    BY <1>2
  <2> DEFINE h == [k \in 0..(n + 1) |-> IF k = 0 THEN 1 ELSE Base * g[k - 1]]
  <2>2. ASSUME NEW k \in 0..n PROVE h[k] = g[k]
    BY <2>1 DEF Powers
  <2>3. ASSUME NEW k \in 0..(n + 1), k # 0 PROVE g[k - 1] = h[k - 1]
    <3>1. k - 1 \in 0..n
      BY <2>3
    <3> QED
      BY <2>2, <3>1
  <2>4. h = [k \in 0..(n + 1) |-> IF k = 0 THEN 1 ELSE Base * h[k - 1]]
    <3>1. h = [k \in 0..(n + 1) |-> IF k = 0 THEN 1 ELSE Base * g[k - 1]]
      OBVIOUS
    <3> HIDE DEF h
    <3> QED
      BY <2>3, <3>1
  <2>5. Powers(h, n + 1)
    BY <2>4 DEF Powers
  <2> QED
    BY <2>5
<1>3. \A n \in Nat : n \in G
  <2> HIDE DEF G
  <2> QED
    BY <1>1, <1>2, NatCollection
<1> QED
  BY <1>3

LEMMA PowerStep == \A n \in Nat : Power[n] = IF n = 0 THEN 1 ELSE Base * Power[n - 1]
<1> DEFINE up_to(n) == CHOOSE g : Powers(g, n)
           all == [n \in Nat |-> up_to(n)[n]]
<1>1. ASSUME NEW n \in Nat PROVE Powers(up_to(n), n)
  BY PowersExist
<1>2. ASSUME NEW n \in Nat PROVE all[n] = IF n = 0 THEN 1 ELSE Base * all[n - 1]
  <2>1. all[n] = up_to(n)[n]
    OBVIOUS
  <2>2. CASE n = 0
    <3>1. Powers(up_to(n), n)
      BY <1>1
    <3> HIDE DEF up_to
    <3> QED
      BY <2>2, <3>1 DEF Powers
  <2>3. CASE n # 0
    <3> DEFINE b == n - 1
    <3>1. b \in Nat /\ b <= n /\ b \in 0..b /\ n \in 0..n
      BY <2>3
    <3>2. all[b] = up_to(b)[b]
      BY <3>1
    <3>3. Powers(up_to(b), b) /\ Powers(up_to(n), n)
      BY <1>1, <3>1
    <3> HIDE DEF up_to, all
    <3>4. up_to(n)[n] = Base * up_to(n)[b]
      BY <2>3, <3>1, <3>3 DEF Powers
    <3> HIDE DEF b
    <3>5. up_to(b)[b] = up_to(n)[b]
      BY <3>1, <3>3, PowersAgree
    <3> QED
      BY <2>1, <2>3, <3>2, <3>4, <3>5 DEF b
  <2> QED
    BY <2>2, <2>3
<1>3. all = [n \in Nat |-> IF n = 0 THEN 1 ELSE Base * all[n - 1]]
  <2>1. all = [n \in Nat |-> up_to(n)[n]]
    OBVIOUS
  <2> HIDE DEF all, up_to
  <2> QED
    BY <1>2, <2>1
<1>4. Power = [n \in Nat |-> IF n = 0 THEN 1 ELSE Base * Power[n - 1]]
  <2> HIDE DEF all
  <2>1. Power = CHOOSE g : g = [n \in Nat |-> IF n = 0 THEN 1 ELSE Base * g[n - 1]]
    BY DEF Power
  <2> QED
    BY <1>3, <2>1
<1>5. ASSUME NEW g, g = [n \in Nat |-> IF n = 0 THEN 1 ELSE Base * g[n - 1]]
      PROVE  \A n \in Nat : g[n] = IF n = 0 THEN 1 ELSE Base * g[n - 1]
  BY <1>5
<1> QED
  BY <1>4, <1>5

LEMMA PowerNat == \A n \in Nat : Power[n] \in Nat
<1> DEFINE G == {n \in Nat : Power[n] \in Nat}
<1>1. 0 \in G
  BY PowerStep
<1>2. ASSUME NEW n \in Nat, n \in G PROVE n + 1 \in G
  <2>1. Power[n + 1] = Base * Power[n]
    <3>1. n + 1 \in Nat /\ n + 1 # 0 /\ (n + 1) - 1 = n
      OBVIOUS
    <3> DEFINE up == n + 1
    <3> HIDE DEF up
    <3>2. up \in Nat /\ up # 0 => Power[up] = Base * Power[up - 1]
      BY PowerStep
    <3> QED
      BY <3>1, <3>2 DEF up
  <2> QED
    BY <1>2, <2>1, AmountAssumption
<1>3. \A n \in Nat : n \in G
  <2> HIDE DEF G
  <2> QED
    BY <1>1, <1>2, NatCollection
<1> QED
  BY <1>3

LEMMA WeighedNat ==
  ASSUME NEW amount \in Amount, NEW j \in 1..Width
  PROVE  Weighed(amount)[j] = amount[j] * Power[Width - j] /\ Weighed(amount)[j] \in Nat
<1>1. Width - j \in Nat /\ amount[j] \in Nat
  BY AmountAssumption DEF Amount, Byte
<1>2. Power[Width - j] \in Nat
  BY <1>1, PowerNat
<1>3. amount[j] * Power[Width - j] \in Nat
  BY <1>1, <1>2
<1> QED
  BY <1>3 DEF Weighed

\* One byte more.
LEMMA NextByte ==
  ASSUME NEW amount \in Amount, NEW n \in 0..(Width - 1)
  PROVE  LastBytes(amount, n + 1) = LastBytes(amount, n) + amount[Width - n] * Power[n]
<1> DEFINE w == Weighed(amount)
           S == (Width - (n + 1) + 1)..Width
           y == Width - n
<1>1. y \in 1..Width /\ y \in S /\ Width - y = n /\ S \subseteq 1..Width
  BY AmountAssumption
<1>2. S \ {y} = (Width - n + 1)..Width
  BY AmountAssumption
<1>3. \A x \in S : w[x] \in Int
  BY <1>1, WeighedNat
<1>4. IsFiniteSet(S)
  BY AmountAssumption, FS_Interval
<1>5. SumFunctionOnSet(w, S) = w[y] + SumFunctionOnSet(w, S \ {y})
  <2>1. y \in S
    BY <1>1
  <2> HIDE DEF w, S, y
  <2> QED
    BY <2>1, <1>3, <1>4, SumTake
<1>6. w[y] = amount[y] * Power[n]
  BY <1>1, WeighedNat
<1>7. w[y] \in Int /\ SumFunctionOnSet(w, S \ {y}) \in Int
  <2>1. IsFiniteSet(S \ {y})
    BY <1>4, FS_Subset
  <2> HIDE DEF w, S, y
  <2> QED
    BY <1>1, <1>3, <2>1, SumInt
<1>8. LastBytes(amount, n + 1) = SumFunctionOnSet(w, S)
  BY DEF LastBytes
<1>9. LastBytes(amount, n) = SumFunctionOnSet(w, S \ {y})
  BY <1>2 DEF LastBytes
<1> HIDE DEF w, S
<1> QED
  BY <1>5, <1>6, <1>7, <1>8, <1>9

\* The bytes before the last n do not matter.
LEMMA SameLastBytes ==
  ASSUME NEW a \in Amount, NEW b \in Amount, NEW n \in 0..Width,
         \A j \in (Width - n + 1)..Width : a[j] = b[j]
  PROVE  LastBytes(a, n) = LastBytes(b, n)
<1> DEFINE S == (Width - n + 1)..Width
<1>1. IsFiniteSet(S)
  BY AmountAssumption, FS_Interval
<1>2. \A j \in S : Weighed(a)[j] = Weighed(b)[j]
  <2>1. S \subseteq 1..Width
    BY AmountAssumption
  <2> QED
    BY <2>1, WeighedNat
<1>3. SumFunctionOnSet(Weighed(a), S) = SumFunctionOnSet(Weighed(b), S)
  <2> HIDE DEF S
  <2> QED
    BY <1>1, <1>2, SumSame
<1> QED
  BY <1>3 DEF LastBytes

LEMMA NoBytes == ASSUME NEW amount PROVE LastBytes(amount, 0) = 0
<1>1. (Width - 0 + 1)..Width = {}
  BY AmountAssumption
<1> QED
  BY <1>1, SumEmpty DEF LastBytes

Numbers ==
  /\ weight = Power[i]
  /\ done_a = LastBytes(amount_a, i)
  /\ done_b = LastBytes(amount_b, i)
  /\ done_res = LastBytes(res, i)

\* A difference has only zero bytes so far just when the operands have the same
\* bytes so far, and then nothing is borrowed.
SameSoFar == \A j \in (Width - i + 1)..Width : amount_a[j] = amount_b[j]
ZeroSoFar == \A j \in (Width - i + 1)..Width : res[j] = 0

ZeroIfSame == op = "sub" => (ZeroSoFar <=> SameSoFar) /\ (SameSoFar => carry = 0)

BytesInv == IInv /\ Numbers /\ ZeroIfSame

LEMMA BytesInitHolds == Init => BytesInv
<1> SUFFICES ASSUME Init PROVE BytesInv
  OBVIOUS
<1>1. IInv
  BY InitHolds
<1>2. i = 0 /\ weight = 1 /\ done_a = 0 /\ done_b = 0 /\ done_res = 0 /\ carry = 0
  BY DEF Init
<1>3. Numbers
  BY <1>2, NoBytes, PowerStep DEF Numbers
<1>4. (Width - i + 1)..Width = {}
  BY <1>2, AmountAssumption
<1> QED
  BY <1>1, <1>2, <1>3, <1>4 DEF BytesInv, ZeroIfSame, SameSoFar, ZeroSoFar

LEMMA StoreKeepsNumbers ==
  ASSUME TypeOK, TypeOK', Numbers, i < Width, NEW byte \in Byte, NEW next_carry, Store(byte, next_carry)
  PROVE  Numbers'
<1>1. /\ i \in 0..(Width - 1) /\ i + 1 \in 0..Width /\ j_ind = Width - i
      /\ j_ind \in 1..Width
  BY AmountAssumption DEF TypeOK, j_ind
<1>2. /\ amount_a \in Amount /\ amount_b \in Amount /\ res \in Amount /\ res' \in Amount
      /\ res' = [res EXCEPT ![j_ind] = byte]
      /\ i' = i + 1 /\ amount_a' = amount_a /\ amount_b' = amount_b
  BY DEF TypeOK, Store
<1>3. LastBytes(res', i) = LastBytes(res, i)
  <2>1. \A j \in (Width - i + 1)..Width : res'[j] = res[j]
    BY <1>1, <1>2, AmountAssumption DEF Amount
  <2>2. i \in 0..Width
    BY DEF TypeOK
  <2>3. \A x, y \in Amount :
          (\A j \in (Width - i + 1)..Width : x[j] = y[j]) => LastBytes(x, i) = LastBytes(y, i)
    BY <2>2, SameLastBytes
  <2> QED
    BY <1>2, <2>1, <2>3
<1>4. res'[Width - i] = byte
  BY <1>1, <1>2 DEF Amount
<1>5. weight' = Power[i + 1]
  <2> DEFINE up == i + 1
  <2>1. up \in Nat /\ up # 0 /\ up - 1 = i
    BY <1>1
  <2> HIDE DEF up
  <2>2. Power[up] = Base * Power[up - 1]
    BY <2>1, PowerStep
  <2>3. Power[i] \in Nat
    BY <1>1, PowerNat
  <2>4. weight' = Power[i] * Base
    BY DEF Numbers, Store
  <2>5. Power[up] = Power[i] * Base
    BY <2>1, <2>2, <2>3, AmountAssumption
  <2> QED
    BY <2>4, <2>5 DEF up
<1>6. /\ done_a' = LastBytes(amount_a, i) + amount_a[Width - i] * Power[i]
      /\ done_b' = LastBytes(amount_b, i) + amount_b[Width - i] * Power[i]
      /\ done_res' = LastBytes(res', i) + res'[Width - i] * Power[i]
  BY <1>3, <1>4 DEF Numbers, Store, a_j, b_j, j_ind
<1>7. /\ done_a' = LastBytes(amount_a, i + 1)
      /\ done_b' = LastBytes(amount_b, i + 1)
      /\ done_res' = LastBytes(res', i + 1)
  BY <1>1, <1>2, <1>6, NextByte
<1> QED
  BY <1>2, <1>5, <1>7 DEF Numbers

\* One byte of the difference.
LEMMA SubByteKeepsZero == ASSUME IInv, ZeroIfSame, SubByte PROVE ZeroIfSame'
<1>1. /\ TypeOK /\ i < Width /\ op = "sub" /\ Store(DiffByte, Borrow)
  BY DEF IInv, SubByte
<1>2. /\ i \in 0..(Width - 1) /\ j_ind = Width - i /\ j_ind \in 1..Width
  BY <1>1, AmountAssumption DEF TypeOK, j_ind
<1>3. /\ res' = [res EXCEPT ![j_ind] = DiffByte] /\ carry' = Borrow
      /\ i' = i + 1 /\ amount_a' = amount_a /\ amount_b' = amount_b /\ op' = op
  BY <1>1 DEF Store
<1>4. (Width - (i + 1) + 1)..Width = ((Width - i + 1)..Width) \cup {j_ind}
  BY <1>2, AmountAssumption
<1>5. SameSoFar' <=> SameSoFar /\ a_j = b_j
  BY <1>3, <1>4 DEF SameSoFar, a_j, b_j
<1>6. ZeroSoFar' <=> ZeroSoFar /\ DiffByte = 0
  <2>1. j_ind \notin (Width - i + 1)..Width
    BY <1>2, AmountAssumption
  <2>2. res'[j_ind] = DiffByte
    BY <1>1, <1>2, <1>3 DEF TypeOK, Amount
  <2>3. \A j \in (Width - i + 1)..Width : res'[j] = res[j]
    BY <1>1, <1>2, <1>3, <2>1, AmountAssumption DEF TypeOK, Amount
  <2>4. ZeroSoFar' <=> \A j \in ((Width - i + 1)..Width) \cup {j_ind} : res'[j] = 0
    BY <1>3, <1>4 DEF ZeroSoFar
  <2> DEFINE done == (Width - i + 1)..Width
  <2>5. (\A j \in done \cup {j_ind} : res'[j] = 0) <=> (\A j \in done : res[j] = 0) /\ DiffByte = 0
    <3> HIDE DEF done
    <3> QED
      BY <2>2, <2>3 DEF done
  <2>6. ZeroSoFar <=> \A j \in done : res[j] = 0
    BY DEF ZeroSoFar
  <2> HIDE DEF done
  <2> QED
    BY <2>4, <2>5, <2>6 DEF done
<1>7. a_j \in 0..(Base - 1) /\ b_j \in 0..(Base - 1)
  BY <1>1, <1>2 DEF TypeOK, a_j, b_j, Amount, Byte
<1>8. carry = 0 => (DiffByte = 0 <=> a_j = b_j) /\ (a_j = b_j => Borrow = 0)
  BY <1>7, AmountAssumption DEF DiffByte, Borrow
<1>9. (ZeroSoFar <=> SameSoFar) /\ (SameSoFar => carry = 0)
  BY <1>1 DEF ZeroIfSame
<1> QED
  BY <1>3, <1>5, <1>6, <1>8, <1>9 DEF ZeroIfSame

LEMMA BytesStepKeeps == BytesInv /\ [Next]_vars => BytesInv'
<1> SUFFICES ASSUME BytesInv, [Next]_vars PROVE BytesInv'
  OBVIOUS
<1>1. IInv' /\ TypeOK /\ TypeOK' /\ Numbers /\ ZeroIfSame
  BY StepKeeps DEF BytesInv, IInv
<1>2. CASE AddByte
  <2>1. i < Width /\ op = "add" /\ Store(SumByte, SumCarry)
    BY <1>2 DEF AddByte
  <2>2. SumByte \in Byte
    <3>1. j_ind \in 1..Width
      BY <1>1, <2>1, AmountAssumption DEF TypeOK, j_ind
    <3>2. res' = [res EXCEPT ![j_ind] = SumByte] /\ res' \in Amount /\ res \in Amount
      BY <1>1, <2>1 DEF Store, TypeOK
    <3>3. res'[j_ind] = SumByte
      BY <3>1, <3>2 DEF Amount
    <3> QED
      BY <3>1, <3>2, <3>3 DEF Amount
  <2>3. Numbers'
    BY <1>1, <2>1, <2>2, StoreKeepsNumbers
  <2>4. ZeroIfSame'
    BY <2>1 DEF Store, ZeroIfSame
  <2> QED
    BY <1>1, <2>3, <2>4 DEF BytesInv
<1>3. CASE SubByte
  <2>1. i < Width /\ Store(DiffByte, Borrow)
    BY <1>3 DEF SubByte
  <2>2. DiffByte \in Byte
    <3>1. j_ind \in 1..Width
      BY <1>1, <2>1, AmountAssumption DEF TypeOK, j_ind
    <3>2. res' = [res EXCEPT ![j_ind] = DiffByte] /\ res' \in Amount /\ res \in Amount
      BY <1>1, <2>1 DEF Store, TypeOK
    <3>3. res'[j_ind] = DiffByte
      BY <3>1, <3>2 DEF Amount
    <3> QED
      BY <3>1, <3>2, <3>3 DEF Amount
  <2>3. Numbers'
    BY <1>1, <2>1, <2>2, StoreKeepsNumbers
  <2>4. ZeroIfSame'
    BY <1>3, SubByteKeepsZero DEF BytesInv
  <2> QED
    BY <1>1, <2>3, <2>4 DEF BytesInv
<1>4. CASE Return \/ UNCHANGED vars
  <2>1. UNCHANGED <<op, amount_a, amount_b, res, i, carry, weight, done_a, done_b, done_res>>
    BY <1>4 DEF Return, vars, code, ghost
  <2> QED
    BY <1>1, <2>1 DEF BytesInv, Numbers, ZeroIfSame, SameSoFar, ZeroSoFar
<1> QED
  BY <1>2, <1>3, <1>4 DEF Next

\* For every base and width: the numbers that ArithmeticIsExact is about are
\* those the bytes of the operands and of the result make up, and a difference
\* is zero in all its bytes just when the operands are equal.
THEOREM BytesHold == Spec => []BytesAreNumbers
<1>1. BytesInv => BytesAreNumbers
  <2> SUFFICES ASSUME BytesInv PROVE BytesAreNumbers
    OBVIOUS
  <2>1. ASSUME op = "sub", returned # "none" PROVE is_zero(res) <=> amount_a = amount_b
    <3>1. i = Width /\ (Width - i + 1)..Width = 1..Width
      BY <2>1, AmountAssumption DEF BytesInv, IInv, FlagIsCarry
    <3>2. is_zero(res) <=> \A j \in 1..Width : amount_a[j] = amount_b[j]
      BY <2>1, <3>1 DEF BytesInv, ZeroIfSame, ZeroSoFar, SameSoFar, is_zero
    <3>3. amount_a \in Amount /\ amount_b \in Amount
      BY DEF BytesInv, IInv, TypeOK
    <3>4. amount_a = amount_b <=> \A j \in 1..Width : amount_a[j] = amount_b[j]
      <4>1. ASSUME \A j \in 1..Width : amount_a[j] = amount_b[j] PROVE amount_a = amount_b
        <5>1. /\ amount_a = [j \in 1..Width |-> amount_a[j]]
              /\ amount_b = [j \in 1..Width |-> amount_b[j]]
          BY <3>3 DEF Amount
        <5>2. [j \in 1..Width |-> amount_a[j]] = [j \in 1..Width |-> amount_b[j]]
          BY <4>1
        <5> QED
          BY <5>1, <5>2
      <4> QED
        BY <4>1
    <3> QED
      BY <3>2, <3>4
  <2> QED
    BY <2>1 DEF BytesInv, Numbers, BytesAreNumbers
<1>2. Spec => []BytesInv
  BY BytesInitHolds, BytesStepKeeps, PTL DEF Spec
<1> QED
  BY <1>1, <1>2, PTL

-----------------------------------------------------------------------------
(***************************************************************************)
(* Opening ledgers, for every file, every length, offset and limit.        *)
(***************************************************************************)

\* The slot is a record, and passes for a ledger while one is there.
SlotInv ==
  /\ slot = [magic |-> slot.magic, ledger |-> slot.ledger]
  /\ slot.magic \in BOOLEAN

OpenInv == SlotInv /\ MagicTellsLiveLedgers /\ LedgerHasItsMemory /\ FaultsAreForeseen

\* What is required is not less than it seems.
LEMMA EstimateIsExact ==
  ASSUME NEW n \in Limits
  PROVE  /\ n \in Nat
         /\ estimate_required_size(n) = n * PerItem + MinMemLength
  <1>1. n \in Nat /\ PerItem \in Nat /\ MinMemLength \in Nat /\ Word \in Nat \ {0}
    BY SizesAssumption
  <1>2. n * PerItem \in Nat
    BY <1>1
  <1>3. n * PerItem + MinMemLength \in 0..(Word - 1)
    BY <1>1, <1>2, LimitsFit
  <1>4. ASSUME NEW x \in 0..(Word - 1)
        PROVE  x % Word = x
    BY <1>1
  <1> QED
    BY <1>1, <1>3, <1>4 DEF estimate_required_size

LEMMA KindsDiffer == ASSUME NEW m, NEW n, NEW f, NEW o
  PROVE /\ Basic # NoLedger /\ Buffer(m, n) # NoLedger /\ InFile(f, o, m, n) # NoLedger
        /\ NoLedger.kind = "none" /\ Basic.kind = "basic"
        /\ Buffer(m, n).kind = "buffer" /\ InFile(f, o, m, n).kind = "file"
  BY DEF Basic, NoLedger, Buffer, InFile

LEMMA OpenInitHolds == OpenInit => OpenInv
  BY DEF OpenInit, OpenInv, SlotInv, MagicTellsLiveLedgers, LedgerHasItsMemory,
     FaultsAreForeseen, NoLedger, Uses

\* A call that constructs a ledger with the memory it needs.
LEMMA ConstructKeeps ==
  ASSUME OpenInv, ~faulted, NEW name, name \notin Uses, NEW ledger, ledger # NoLedger,
         Construct(name, ledger), UNCHANGED faulted,
         LET needed == ledger.n * PerItem + MinMemLength IN
         ledger.kind \in {"buffer", "file"} =>
           /\ needed <= ledger.mem_length
           /\ ledger.kind = "file" => ledger.offset + needed <= Length[ledger.file]
  PROVE  OpenInv'
  BY DEF OpenInv, Construct, Returns, SlotInv, MagicTellsLiveLedgers, LedgerHasItsMemory,
     FaultsAreForeseen

\* One after which there is none, whatever it returns.
LEMMA NoneKeeps ==
  ASSUME ~faulted', live' = NoLedger, call'.of \notin Uses,
         \E ledger : slot' = [magic |-> FALSE, ledger |-> ledger]
  PROVE  OpenInv'
  <1>1. NoLedger.kind \notin {"buffer", "file"}
    BY DEF NoLedger
  <1>2. ~slot'.magic /\ SlotInv'
    BY DEF SlotInv
  <1> QED
    BY <1>1, <1>2 DEF OpenInv, MagicTellsLiveLedgers, LedgerHasItsMemory, FaultsAreForeseen

\* One that leaves the slot as it is, and does not use a ledger that is not there.
LEMMA RefuseKeeps ==
  ASSUME OpenInv, ~faulted, UNCHANGED <<slot, made, live, faulted>>,
         call'.of \in Uses /\ call'.result = "SUCCESS" => slot.magic
  PROVE  OpenInv'
  BY DEF OpenInv, SlotInv, MagicTellsLiveLedgers, LedgerHasItsMemory, FaultsAreForeseen

LEMMA BufferKeeps ==
  ASSUME OpenInv, ~faulted, NEW mem_length \in MemLengths, NEW n \in Limits,
         cma_ledger_init_buffer(mem_length, n)
  PROVE  OpenInv'
  <1>1. CASE estimate_required_size(n) > mem_length
    BY <1>1, RefuseKeeps DEF cma_ledger_init_buffer, Refuse, Returns, Uses
  <1>2. CASE ~(estimate_required_size(n) > mem_length)
    <2>1. n * PerItem + MinMemLength <= mem_length
      <3>1. n * PerItem + MinMemLength \in Nat /\ mem_length \in Nat
        <4>1. n \in Nat /\ PerItem \in Nat /\ MinMemLength \in Nat /\ mem_length \in Nat
          BY SizesAssumption
        <4> QED
          BY <4>1
      <3> QED
        BY <1>2, <3>1, EstimateIsExact
    <2> DEFINE ledger == Buffer(mem_length, n)
    <2>2. Construct("init_buffer", ledger) /\ UNCHANGED faulted
      BY <1>2 DEF cma_ledger_init_buffer, Construct, Returns
    <2>3. ledger # NoLedger /\ ledger.kind = "buffer" /\ ledger.n = n
            /\ ledger.mem_length = mem_length
      BY DEF Buffer, NoLedger
    <2> HIDE DEF ledger
    <2> QED
      BY <2>1, <2>2, <2>3, ConstructKeeps DEF Uses
  <1> QED
    BY <1>1, <1>2

\* The sizes of an init_file that is let through.
SizesPassed(file, offset, mem_length, n) ==
  /\ n * PerItem + MinMemLength <= mem_length
  /\ ~FileTooSmall(file, offset, n)
  /\ ~CannotMap(file)

LEMMA FaultKeeps ==
  ASSUME NEW file \in Files, NEW offset \in Offsets, NEW mem_length \in MemLengths,
         NEW n \in Limits, SizesPassed(file, offset, mem_length, n),
         Fault(file, Layout(offset, mem_length, n)),
         offset + mem_length > Length[file] \/ made'[file] # Layout(offset, mem_length, n)
  PROVE  OpenInv'
  <1> DEFINE layout == Layout(offset, mem_length, n)
  <1>1. /\ layout.offset = offset /\ layout.mem_length = mem_length /\ layout.n = n
    BY DEF Layout
  <1>2. /\ slot' = [magic |-> FALSE, ledger |-> NoLedger] /\ live' = NoLedger
        /\ call'.sizes.file = file /\ call'.sizes.layout = layout /\ call'.of = "init_file"
    BY DEF Fault
  <1>3. NoLedger.kind \notin {"buffer", "file"}
    BY DEF NoLedger
  <1>4. (SlotInv /\ MagicTellsLiveLedgers /\ LedgerHasItsMemory)'
    BY <1>2, <1>3 DEF SlotInv, MagicTellsLiveLedgers, LedgerHasItsMemory, Uses
  <1>5. FaultsAreForeseen'
    <2>1. layout = Layout(offset, mem_length, n)
      OBVIOUS
    <2> HIDE DEF layout
    <2> QED
      BY <1>1, <1>2, <2>1 DEF SizesPassed, FaultsAreForeseen, CannotMap, FileTooSmall, RoomAfter
  <1> QED
    BY <1>4, <1>5 DEF OpenInv

LEMMA CreateKeeps ==
  ASSUME OpenInv, ~faulted, NEW file \in Files, NEW offset \in Offsets,
         NEW mem_length \in MemLengths, NEW n \in Limits,
         SizesPassed(file, offset, mem_length, n), CreateIn(file, offset, mem_length, n)
  PROVE  OpenInv'
  <1> DEFINE ledger == InFile(file, offset, mem_length, n)
             needed == n * PerItem + MinMemLength
  <1>1. /\ offset \in Int /\ mem_length \in Int /\ Length[file] \in Int /\ needed \in Int
        /\ needed <= mem_length
    <2>1. n \in Nat /\ PerItem \in Nat /\ MinMemLength \in Nat
      BY SizesAssumption
    <2> QED
      BY <2>1, SizesAssumption DEF SizesPassed
  <1>2. CASE ~Holds(file, offset, mem_length)
    BY <1>1, <1>2, FaultKeeps DEF CreateIn, Holds
  <1>3. CASE Holds(file, offset, mem_length)
    <2>1. Construct("init_file", ledger) /\ UNCHANGED faulted
      BY <1>3 DEF CreateIn, Construct, Returns
    <2>2. /\ ledger # NoLedger /\ ledger.n = n /\ ledger.mem_length = mem_length
          /\ ledger.offset = offset /\ ledger.file = file
      BY DEF InFile, NoLedger
    <2>3. needed <= mem_length /\ offset + needed <= Length[file]
      BY <1>1, <1>3 DEF Holds
    <2> HIDE DEF ledger
    <2> QED
      BY <2>1, <2>2, <2>3, ConstructKeeps DEF Uses
  <1> QED
    BY <1>2, <1>3

LEMMA OpenKeeps ==
  ASSUME OpenInv, ~faulted, NEW file \in Files, NEW offset \in Offsets,
         NEW mem_length \in MemLengths, NEW n \in Limits,
         SizesPassed(file, offset, mem_length, n), OpenIn(file, offset, mem_length, n)
  PROVE  OpenInv'
  <1> DEFINE ledger == InFile(file, offset, mem_length, n)
             layout == Layout(offset, mem_length, n)
             needed == n * PerItem + MinMemLength
  <1>1. /\ offset \in Int /\ mem_length \in Int /\ Length[file] \in Int /\ needed \in Int
        /\ needed <= mem_length
    <2>1. n \in Nat /\ PerItem \in Nat /\ MinMemLength \in Nat
      BY SizesAssumption
    <2> QED
      BY <2>1, SizesAssumption DEF SizesPassed
  <1>2. estimate_required_size(n) = needed
    BY EstimateIsExact
  <1>3. CASE ~Holds(file, offset, estimate_required_size(n))
    <2>1. offset + mem_length > Length[file]
      BY <1>1, <1>2, <1>3 DEF Holds
    <2>2. Fault(file, layout)
      BY <1>3 DEF OpenIn
    <2> QED
      BY <2>1, <2>2, FaultKeeps
  <1>4. CASE ConstructorThrows("init_file")
    <2>1. UNCHANGED faulted /\ live' = NoLedger /\ call'.of = "init_file"
            /\ slot' = [magic |-> FALSE, ledger |-> NoLedger]
      BY <1>4 DEF ConstructorThrows, Returns
    <2> QED
      BY <2>1, NoneKeeps DEF Uses
  <1>5. CASE Holds(file, offset, estimate_required_size(n)) /\ Construct("init_file", ledger)
    <2>1. UNCHANGED faulted
      BY <1>5 DEF Construct, Returns
    <2>2. /\ ledger # NoLedger /\ ledger.n = n /\ ledger.mem_length = mem_length
          /\ ledger.offset = offset /\ ledger.file = file
      BY DEF InFile, NoLedger
    <2>3. needed <= mem_length /\ offset + needed <= Length[file]
      BY <1>1, <1>2, <1>5 DEF Holds
    <2> HIDE DEF ledger
    <2> QED
      BY <1>5, <2>1, <2>2, <2>3, ConstructKeeps DEF Uses
  <1>6. CASE made[file] # layout /\ Fault(file, layout) /\ UNCHANGED made
    BY <1>6, FaultKeeps
  <1> QED
    BY <1>3, <1>4, <1>5, <1>6 DEF OpenIn

LEMMA FileKeeps ==
  ASSUME OpenInv, ~faulted, NEW file \in Files, NEW mode, NEW offset \in Offsets,
         NEW mem_length \in MemLengths, NEW n \in Limits,
         cma_ledger_init_file(file, mode, offset, mem_length, n)
  PROVE  OpenInv'
  <1>1. ASSUME NEW error, error # "SUCCESS", Refuse("init_file", error) PROVE OpenInv'
    BY <1>1, RefuseKeeps DEF Refuse, Returns
  <1>2. CASE ConstructorThrows("init_file")
    <2>1. UNCHANGED faulted /\ live' = NoLedger /\ call'.of = "init_file"
            /\ slot' = [magic |-> FALSE, ledger |-> NoLedger]
      BY <1>2 DEF ConstructorThrows, Returns
    <2> QED
      BY <2>1, NoneKeeps DEF Uses
  <1>3. CASE /\ ~(estimate_required_size(n) > mem_length) /\ ~FileTooSmall(file, offset, n)
             /\ mode \in {"OPEN_ONLY", "CREATE_ONLY"} /\ ~CannotMap(file)
    <2>1. SizesPassed(file, offset, mem_length, n)
      <3>1. n * PerItem + MinMemLength \in Nat /\ mem_length \in Nat
        <4>1. n \in Nat /\ PerItem \in Nat /\ MinMemLength \in Nat /\ mem_length \in Nat
          BY SizesAssumption
        <4> QED
          BY <4>1
      <3> QED
        BY <1>3, <3>1, EstimateIsExact DEF SizesPassed
    <2>2. \/ mode = "OPEN_ONLY" /\ OpenIn(file, offset, mem_length, n)
          \/ mode = "CREATE_ONLY" /\ CreateIn(file, offset, mem_length, n)
      BY <1>3 DEF cma_ledger_init_file
    <2> QED
      BY <2>1, <2>2, OpenKeeps, CreateKeeps
  <1>4. \/ Refuse("init_file", "ENOBUFS") \/ Refuse("init_file", "EINVAL")
        \/ ConstructorThrows("init_file")
        \/ /\ ~(estimate_required_size(n) > mem_length) /\ ~FileTooSmall(file, offset, n)
           /\ mode \in {"OPEN_ONLY", "CREATE_ONLY"} /\ ~CannotMap(file)
    BY DEF cma_ledger_init_file
  <1> QED
    BY <1>1, <1>2, <1>3, <1>4

LEMMA FiniKeeps == ASSUME OpenInv, ~faulted, cma_ledger_fini PROVE OpenInv'
  <1>1. CASE ~slot.magic
    BY <1>1, RefuseKeeps DEF cma_ledger_fini, Refuse, Returns
  <1>2. CASE slot.magic
    <2>1. slot' = [magic |-> FALSE, ledger |-> slot.ledger]
      BY <1>2 DEF cma_ledger_fini, OpenInv, SlotInv
    <2>2. ~faulted' /\ live' = NoLedger /\ call'.of = "fini"
      BY <1>2 DEF cma_ledger_fini, Returns
    <2> QED
      BY <2>1, <2>2, NoneKeeps DEF Uses
  <1> QED
    BY <1>1, <1>2

LEMMA OpenNextHolds == OpenInv /\ [OpenNext]_openVars => OpenInv'
  <1> SUFFICES ASSUME OpenInv, [OpenNext]_openVars PROVE OpenInv'
    OBVIOUS
  <1>1. CASE cma_ledger_init /\ ~faulted
    <2>1. /\ Construct("init", Basic) /\ UNCHANGED faulted
          /\ Basic # NoLedger /\ Basic.kind \notin {"buffer", "file"}
      BY <1>1 DEF cma_ledger_init, Construct, Returns, Basic, NoLedger
    <2> QED
      BY <1>1, <2>1, ConstructKeeps DEF Uses
  <1>2. ASSUME ~faulted, NEW name \in Uses, Use(name) PROVE OpenInv'
    BY <1>2, RefuseKeeps DEF Use, Returns
  <1>3. ASSUME ~faulted, NEW name, NullPointer(name) PROVE OpenInv'
    BY <1>3, RefuseKeeps DEF NullPointer, Refuse, Returns
  <1>4. CASE Restart
    <2>1. /\ slot' = [magic |-> FALSE, ledger |-> NoLedger] /\ live' = NoLedger
          /\ call'.of = "none" /\ ~faulted'
      BY <1>4 DEF Restart
    <2> QED
      BY <2>1, NoneKeeps DEF Uses
  <1>5. CASE UNCHANGED openVars
    BY <1>5 DEF openVars, OpenInv, SlotInv, MagicTellsLiveLedgers, LedgerHasItsMemory,
       FaultsAreForeseen
  <1> QED
    BY <1>1, <1>2, <1>3, <1>4, <1>5, BufferKeeps, FileKeeps, FiniKeeps DEF OpenNext, Calls

LEMMA OpenInvariance == OpenSpec => []OpenInv
  BY OpenInitHolds, OpenNextHolds, PTL DEF OpenSpec

\* The magic number tells just the slots that hold a ledger, whatever calls came
\* before, were refused or threw, for every file and every size.
THEOREM MagicHolds == OpenSpec => []MagicTellsLiveLedgers
  <1>1. OpenInv => MagicTellsLiveLedgers
    BY DEF OpenInv
  <1> QED
    BY <1>1, OpenInvariance, PTL

\* A ledger in use has the memory its limits need, for every file and every size
\* up to those that wrap the estimate itself around (LimitsFit).
THEOREM MemoryHolds == OpenSpec => []LedgerHasItsMemory
  <1>1. OpenInv => LedgerHasItsMemory
    BY DEF OpenInv
  <1> QED
    BY <1>1, OpenInvariance, PTL

\* Only the sizes and the files that FaultsAreForeseen tells end the process.
THEOREM FaultsHold == OpenSpec => []FaultsAreForeseen
  <1>1. OpenInv => FaultsAreForeseen
    BY DEF OpenInv
  <1> QED
    BY <1>1, OpenInvariance, PTL

-----------------------------------------------------------------------------
(***************************************************************************)
(* The calls of the parser.                                                *)
(***************************************************************************)
AdvanceCall(c) ==
  \E input \in ClientInputs :
    /\ OnlyHas(input.args, Reads(input.from))
    /\ \E type \in DecodersFor(input.from), n \in 0..Parts(input.whole) :
         c = [call |-> "advance", type |-> type, input |-> input, parts |-> n]

InspectCall(c) ==
  /\ c.call = "inspect"
  /\ c.wanted \in {"AUTO", "BALANCE", "SUPPLY", "NONE"}
  /\ c.room \in {0, 2}
  /\ c.json.method \in {"ledger_getBalance", "ledger_getTotalSupply", "other"}
  /\ c.json.shape \in {"strings", "no_params", "not_strings"}
  /\ c.json.data \in {0, 3}
  /\ c.json.params \in ParamLists
  /\ c.json.shape # "strings" => c.json.params = <<>>

VoucherCall(c) ==
  \E kind \in TokenKinds \cup {"NONE"}, has_app \in BOOLEAN,
     req \in VoucherRequests, room \in Rooms :
    c = [call |-> "voucher", kind |-> kind, has_app |-> has_app,
         request |-> req, room |-> room]

\* What was asked is one of the calls, and the structures have their shape.
ApiTypes ==
  /\ asked = Nothing \/ AdvanceCall(asked) \/ InspectCall(asked) \/ VoucherCall(asked)
  /\ parser_input = [type |-> parser_input.type, fields |-> parser_input.fields,
                     length |-> parser_input.length]

LEMMA ApiTypesInit == ApiInit => ApiTypes
  BY DEF ApiInit, ApiTypes

LEMMA ApiTypesKept == ApiTypes /\ [ApiNext]_apiVars => ApiTypes'
<1> SUFFICES ASSUME ApiTypes, [ApiNext]_apiVars PROVE ApiTypes'
  OBVIOUS
<1>1. CASE AskAdvance
  <2>1. AdvanceCall(asked') /\ parser_input' = parser_input
    BY <1>1 DEF AskAdvance, AdvanceCall, Ask
  <2>2. QED
    BY <2>1 DEF ApiTypes
<1>2. CASE AskInspect
  <2>1. PICK type \in {"AUTO", "BALANCE", "SUPPLY", "NONE"}, room \in {0, 2},
             method \in {"ledger_getBalance", "ledger_getTotalSupply", "other"},
             shape \in {"strings", "no_params", "not_strings"}, data \in {0, 3},
             params \in ParamLists :
          /\ shape # "strings" => params = <<>>
          /\ Ask([call |-> "inspect", wanted |-> type, room |-> room,
                  json |-> [method |-> method, shape |-> shape,
                            params |-> params, data |-> data]])
    BY <1>2 DEF AskInspect
  <2>2. InspectCall(asked')
    BY <2>1 DEF InspectCall, Ask
  <2>3. parser_input' = parser_input
    BY <2>1 DEF Ask
  <2>4. QED
    BY <2>2, <2>3 DEF ApiTypes
<1>3. CASE AskVoucher
  <2>1. VoucherCall(asked') /\ parser_input' = parser_input
    BY <1>3 DEF AskVoucher, VoucherCall, Ask
  <2>2. QED
    BY <2>1 DEF ApiTypes
<1> DEFINE Shaped == parser_input = [type |-> parser_input.type, fields |-> parser_input.fields,
                                     length |-> parser_input.length]
<1>4. asked' = asked /\ Shaped' => ApiTypes'
  BY DEF ApiTypes
<1>5. Shaped
  BY DEF ApiTypes
<1>6. CASE Decode
  BY <1>4, <1>5, <1>6 DEF Decode
<1>7. CASE Inspect
  BY <1>4, <1>7 DEF Inspect
<1>8. CASE Encode
  BY <1>4, <1>5, <1>8 DEF Encode
<1>9. CASE Release
  BY <1>5, <1>9 DEF Release, ApiTypes
<1>10. CASE UNCHANGED apiVars
  BY <1>4, <1>5, <1>10 DEF apiVars
<1>11. QED
  BY <1>1, <1>2, <1>3, <1>6, <1>7, <1>8, <1>9, <1>10 DEF ApiNext

LEMMA ClientSteps == [ClientNext]_clientVars => [ApiNext]_apiVars
  BY DEF ClientNext, clientVars, Caller, Echo

\* A refused advance input keeps the type (TypeAfter), for every step: only
\* Decode returns from such a call.
THEOREM RefusalHolds == ClientSpec => RefusedKeepsType
<1> DEFINE A == asked.call = "advance" /\ result' \notin {"none", "SUCCESS"} =>
                  parser_input'.type = parser_input.type
<1>1. ApiTypes /\ [ApiNext]_apiVars => [A]_apiVars
  <2> SUFFICES ASSUME ApiTypes, [ApiNext]_apiVars, asked.call = "advance",
                      result' \notin {"none", "SUCCESS"}, apiVars' # apiVars
               PROVE  parser_input'.type = parser_input.type
    OBVIOUS
  <2>1. ASSUME AskAdvance \/ AskInspect \/ AskVoucher PROVE FALSE
    <3>1. Idle
      BY <2>1 DEF AskAdvance, AskInspect, AskVoucher
    <3>2. QED
      BY <3>1 DEF Idle, Nothing
  <2>2. CASE Decode
    <3> DEFINE out == DecodeAdvance(asked.type, Cut(asked.input.whole, asked.parts))
    <3>1. out.error # "SUCCESS"
      BY <2>2 DEF Decode
    <3>2. parser_input'.type = TypeAfter(asked.type, Cut(asked.input.whole, asked.parts), out.error,
                                         parser_input.type)
      BY <2>2 DEF Decode, ApiTypes
    <3>3. QED
      BY <3>1, <3>2 DEF TypeAfter
  <2>3. CASE Inspect \/ Encode \/ Release
    BY <2>3 DEF Inspect, Encode, Release
  <2>4. QED
    BY <2>1, <2>2, <2>3 DEF ApiNext
<1>2. QED
  BY <1>1, ApiTypesInit, ApiTypesKept, ClientSteps, PTL DEF ClientSpec, ClientInit, RefusedKeepsType

-----------------------------------------------------------------------------
(* The least of a set of numbers. *)

LEMMA MinOfTwo ==
  ASSUME NEW x \in Int, NEW y \in Int
  PROVE  Min({x, y}) = IF x <= y THEN x ELSE y
<1> DEFINE m == IF x <= y THEN x ELSE y
<1>1. m \in {x, y} /\ \A z \in {x, y} : m <= z
  OBVIOUS
<1>2. ASSUME NEW w \in {x, y}, \A z \in {x, y} : w <= z PROVE w = m
  BY <1>2
<1>3. QED
  <2> HIDE DEF m
  <2>1. Min({x, y}) = m
    BY <1>1, <1>2 DEF Min
  <2>2. QED
    BY <2>1 DEF m

LEMMA MinIs ==
  ASSUME NEW S \in SUBSET Nat, NEW x \in S, \A y \in S : x <= y
  PROVE  Min(S) = x
<1>1. ASSUME NEW w \in S, \A z \in S : w <= z PROVE w = x
  <2>1. w <= x /\ x <= w /\ w \in Nat /\ x \in Nat
    BY <1>1
  <2>2. QED
    BY <2>1
<1>2. QED
  BY <1>1 DEF Min

LEMMA MinFound ==
  ASSUME NEW S \in SUBSET Nat, S # {}
  PROVE  Min(S) \in S /\ \A y \in S : Min(S) <= y
<1> DEFINE G == {n \in Nat : (\E m \in S : m <= n) => \E x \in S : \A y \in S : x <= y}
<1>1. 0 \in G
  OBVIOUS
<1>2. ASSUME NEW n \in Nat, n \in G PROVE n + 1 \in G
  <2> SUFFICES ASSUME NEW m \in S, m <= n + 1 PROVE \E x \in S : \A y \in S : x <= y
    OBVIOUS
  <2>1. CASE \E k \in S : k <= n
    BY <1>2, <2>1
  <2>2. CASE ~\E k \in S : k <= n
    <3>1. \A y \in S : m <= y
      BY <2>2
    <3>2. QED
      BY <3>1
  <2>3. QED
    BY <2>1, <2>2
<1>3. \A n \in Nat : n \in G
  <2> HIDE DEF G
  <2>1. QED
    BY <1>1, <1>2, NatCollection
<1>4. PICK m \in S : TRUE
  OBVIOUS
<1>5. \E x \in S : \A y \in S : x <= y
  BY <1>3, <1>4
<1>6. PICK x \in S : \A y \in S : x <= y
  BY <1>5
<1>7. Min(S) = x
  BY <1>6, MinIs
<1>8. QED
  BY <1>6, <1>7

-----------------------------------------------------------------------------
(* Inspect inputs. *)

ParamKinds == {"good", "malformed", "not_hex"}

GoodParams(params, n) == \A k \in 1..Min({Len(params), n}) : params[k] = "good"

\* Params are decoded as far as they are good, and the type tells how far.
ParamsTold(out, types, n, unset, json, room) ==
  /\ out.error = "SUCCESS" <=> GoodParams(json.params, n)
  /\ GoodParams(json.params, n) =>
       /\ out.type = IF Len(json.params) = 0 THEN unset ELSE types[Min({Len(json.params), n})]
       /\ out.length = IF Len(json.params) > n THEN Min({json.data, room}) ELSE 0
  /\ ~GoodParams(json.params, n) => out.length = room
  /\ out = Inspected(out.error, out.type, out.length)

LEMMA ParamsInspected ==
  ASSUME NEW types, NEW n \in {2, 3}, Len(types) = n, NEW unset, NEW room \in Nat,
         NEW json, json.params \in Seq(ParamKinds), Len(json.params) <= n + 1,
         json.data \in Nat
  PROVE  ParamsTold(InspectParams(types, unset, json, room), types, n, unset, json, room)
<1> DEFINE given == Len(json.params)
           bad   == BadParams(types, json.params)
           out   == InspectParams(types, unset, json, room)
           decoded == Min(bad \cup {given + 1}) - 1
           type    == IF decoded = 0 THEN unset ELSE types[Min({decoded, Len(types)})]
<1>1. given \in Nat /\ DOMAIN json.params = 1..given
  OBVIOUS
<1>2. Min({given, n}) = IF given <= n THEN given ELSE n
  BY <1>1, MinOfTwo
<1>3. bad = {k \in 1..given : k <= n /\ json.params[k] # "good"}
  BY <1>1 DEF BadParams
<1>4. GoodParams(json.params, n) <=> bad = {}
  BY <1>1, <1>2, <1>3 DEF GoodParams
<1>5. CASE bad = {}
  <2>1. decoded = given
    BY <1>1, <1>5, MinIs
  <2>2. type = IF given = 0 THEN unset ELSE types[Min({given, n})]
    BY <2>1
  <2>3. out = Inspected("SUCCESS", type, IF given > n THEN Min({json.data, room}) ELSE 0)
    BY <1>5 DEF InspectParams
  <2> HIDE DEF type, bad, out
  <2>4. out.error = "SUCCESS" /\ out.type = type
        /\ out.length = IF given > n THEN Min({json.data, room}) ELSE 0
    BY <2>3 DEF Inspected
  <2>5. GoodParams(json.params, n)
    BY <1>4, <1>5
  <2>6. QED
    BY <2>2, <2>3, <2>4, <2>5 DEF out, ParamsTold, Inspected
<1>6. CASE bad # {}
  <2>1. out = Inspected(IF json.params[decoded + 1] = "not_hex" THEN "EXCEPTION" ELSE "EINVAL",
                      type, room)
    BY <1>6 DEF InspectParams
  <2> HIDE DEF type, bad, out
  <2>2. out.error \in {"EXCEPTION", "EINVAL"} /\ out.length = room
    BY <2>1 DEF Inspected
  <2>3. ~GoodParams(json.params, n)
    BY <1>4, <1>6
  <2>4. QED
    BY <2>1, <2>2, <2>3 DEF out, ParamsTold, Inspected
<1>7. QED
  BY <1>5, <1>6

LEMMA ParamListsAre ==
  ASSUME NEW params \in ParamLists
  PROVE  params \in Seq(ParamKinds) /\ Len(params) \in 0..5
<1>1. PICK n \in 0..5, bad \in 0..5, why \in {"malformed", "not_hex"} :
        params = [k \in 1..n |-> IF k = bad THEN why ELSE "good"]
  BY DEF ParamLists
<1>2. params \in [1..n -> ParamKinds] /\ n \in Nat
  BY <1>1 DEF ParamKinds
<1>3. params \in Seq(ParamKinds) /\ Len(params) = n
  BY <1>2
<1>4. QED
  BY <1>3

\* The types that calls set, by the number of params.
BalanceMethod(c) == c.json.method = "ledger_getBalance" /\ c.wanted \in {"AUTO", "BALANCE"}
SupplyMethod(c) == c.json.method = "ledger_getTotalSupply" /\ c.wanted \in {"AUTO", "SUPPLY"}

\* What is expected of a call that takes `params` of them.
InspectedWell(c, goes, params, types, out, type) ==
  LET n == Len(c.json.params)
  IN  /\ out.error = "SUCCESS" <=> goes /\ n <= params + 1 /\ GoodParams(c.json.params, params)
      /\ out.error = "SUCCESS" =>
           type = IF n = 0 THEN <<"SUPPLY", "ALL">> ELSE types[Min({n, params})]
      /\ out.length <= c.room
      /\ out.error = "SUCCESS" /\ n > params => out.length = Min({c.json.data, c.room})

TypeLeft(out, old) == IF out.type = None THEN old ELSE out.type

LEMMA TypesOfParams ==
  /\ Len(BalanceTypes) = 3 /\ \A k \in 1..3 : BalanceTypes[k] # None
  /\ Len(SupplyTypes) = 2 /\ \A k \in 1..2 : SupplyTypes[k] # None
  /\ <<"SUPPLY", "ALL">> # None
  BY DEF BalanceTypes, SupplyTypes, None

LEMMA BalanceInspected ==
  ASSUME NEW c, InspectCall(c), BalanceMethod(c), NEW old,
         NEW out, out = DecodeInspect(c.wanted, c.json, c.room)
  PROVE  InspectedWell(c, Len(c.json.params) >= 1, 3, BalanceTypes, out, TypeLeft(out, old))
<1>0. PICK n : n = Len(c.json.params)
  OBVIOUS
<1> DEFINE dec == InspectParams(BalanceTypes, None, c.json, c.room)
<1>1. /\ c.json.params \in Seq(ParamKinds) /\ n \in 0..5
      /\ c.room \in Nat /\ c.json.data \in Nat
  BY <1>0, ParamListsAre DEF InspectCall
<1>2. out = GetBalance(c.json, c.room)
  BY DEF DecodeInspect, BalanceMethod
<1>3. /\ Min({c.json.data, c.room}) <= c.room
      /\ Min({n, 3}) = IF n <= 3 THEN n ELSE 3
  BY <1>1, MinOfTwo
<1>4. CASE c.json.shape # "strings"
  <2>1. n = 0
    BY <1>0, <1>4 DEF InspectCall
  <2>2. out.error # "SUCCESS" /\ out.length = c.room
    BY <1>2, <1>4 DEF GetBalance, Inspected, InspectCall
  <2>3. QED
    BY <1>0, <1>1, <2>1, <2>2 DEF InspectedWell
<1>5. CASE c.json.shape = "strings" /\ n \notin 1..4
  <2>0. ~(n >= 1 /\ n <= 3 + 1)
    BY <1>1, <1>5
  <2>1. out.error # "SUCCESS" /\ out.length = c.room
    BY <1>0, <1>2, <1>5 DEF GetBalance, Inspected
  <2>2. QED
    BY <1>0, <1>1, <2>0, <2>1 DEF InspectedWell
<1>6. CASE c.json.shape = "strings" /\ n \in 1..4
  <2>0. n \in Nat /\ n >= 1 /\ n <= 4
    BY <1>6
  <2>1. ParamsTold(dec, BalanceTypes, 3, None, c.json, c.room)
    <3>1. 3 \in {2, 3} /\ n <= 3 + 1
      BY <2>0
    <3>2. QED
      BY <1>0, <1>1, <3>1, ParamsInspected, TypesOfParams
  <2>2. out = [dec EXCEPT !.length = IF n < 3 THEN c.room ELSE @]
    BY <1>0, <1>2, <1>6 DEF GetBalance
  <2> HIDE DEF dec
  <2>3. out.error = dec.error /\ out.type = dec.type
        /\ out.length = IF n < 3 THEN c.room ELSE dec.length
    BY <2>1, <2>2 DEF ParamsTold, Inspected
  <2>4. out.error = "SUCCESS" => out.type = BalanceTypes[Min({n, 3})]
    BY <1>0, <2>0, <2>1, <2>3 DEF ParamsTold
  <2>5. Min({n, 3}) \in 1..3
    BY <1>3, <2>0
  <2>6. out.error = "SUCCESS" => TypeLeft(out, old) = BalanceTypes[Min({n, 3})]
    BY <2>4, <2>5, TypesOfParams DEF TypeLeft
  <2>7. out.length <= c.room
    BY <1>0, <1>1, <1>3, <2>0, <2>1, <2>3 DEF ParamsTold
  <2>8. QED
    BY <1>0, <1>1, <2>0, <2>1, <2>3, <2>6, <2>7 DEF InspectedWell, ParamsTold
<1>7. QED
  BY <1>4, <1>5, <1>6

LEMMA SupplyInspected ==
  ASSUME NEW c, InspectCall(c), SupplyMethod(c), NEW old,
         NEW out, out = DecodeInspect(c.wanted, c.json, c.room)
  PROVE  InspectedWell(c, c.json.shape # "not_strings", 2, SupplyTypes, out, TypeLeft(out, old))
<1> DEFINE n   == Len(c.json.params)
           all == <<"SUPPLY", "ALL">>
           dec == InspectParams(SupplyTypes, all, c.json, c.room)
<1>1. /\ c.json.params \in Seq(ParamKinds) /\ n \in 0..5
      /\ c.room \in Nat /\ c.json.data \in Nat
  BY ParamListsAre DEF InspectCall
<1>2. out = GetTotalSupply(c.json, c.room)
  BY DEF DecodeInspect, SupplyMethod
<1>3. /\ Min({c.json.data, c.room}) <= c.room
      /\ Min({n, 2}) = IF n <= 2 THEN n ELSE 2
  BY <1>1, MinOfTwo
<1>4. CASE c.json.shape = "no_params"
  <2>1. n = 0
    BY <1>4 DEF InspectCall
  <2>2. out.error = "SUCCESS" /\ out.type = all /\ out.length = 0
    BY <1>2, <1>4 DEF GetTotalSupply, Inspected
  <2>3. TypeLeft(out, old) = all
    BY <2>2, TypesOfParams DEF TypeLeft
  <2>4. GoodParams(c.json.params, 2)
    BY <1>3, <2>1 DEF GoodParams
  <2> HIDE DEF all
  <2>5. QED
    BY <1>1, <1>4, <2>1, <2>2, <2>3, <2>4 DEF InspectedWell, all
<1>5. CASE c.json.shape = "not_strings"
  <2>1. out.error # "SUCCESS" /\ out.length = c.room
    BY <1>2, <1>5 DEF GetTotalSupply, Inspected
  <2>2. QED
    BY <1>1, <1>5, <2>1 DEF InspectedWell
<1>6. CASE c.json.shape = "strings" /\ n > 3
  <2>1. out.error # "SUCCESS" /\ out.length = c.room
    BY <1>2, <1>6 DEF GetTotalSupply, Inspected
  <2>2. QED
    BY <1>1, <1>6, <2>1 DEF InspectedWell
<1>7. CASE c.json.shape = "strings" /\ n <= 3
  <2>1. ParamsTold(dec, SupplyTypes, 2, all, c.json, c.room)
    BY <1>1, <1>7, ParamsInspected, TypesOfParams
  <2>2. out = dec
    BY <1>2, <1>7 DEF GetTotalSupply
  <2> HIDE DEF dec
  <2>3. out.error = "SUCCESS" => out.type = IF n = 0 THEN all ELSE SupplyTypes[Min({n, 2})]
    BY <2>1, <2>2 DEF ParamsTold
  <2>4. n # 0 => Min({n, 2}) \in 1..2
    BY <1>1, <1>3
  <2>5. out.error = "SUCCESS" => TypeLeft(out, old) = out.type
    BY <2>3, <2>4, TypesOfParams DEF TypeLeft
  <2>6. out.length <= c.room
    BY <1>1, <1>3, <2>1, <2>2 DEF ParamsTold
  <2> HIDE DEF all
  <2>7. QED
    BY <1>1, <1>7, <2>1, <2>2, <2>3, <2>5, <2>6 DEF InspectedWell, ParamsTold, all
<1>8. QED
  BY <1>1, <1>4, <1>5, <1>6, <1>7 DEF InspectCall

\* Whatever is asked of decode_inspect, what it returns is as expected.
LEMMA InspectKeeps ==
  ASSUME ApiTypes, Inspect
  PROVE  InspectsJustTheParams'
<1> DEFINE c   == asked
           old == parser_input.type
<1>1. InspectCall(c)
  BY DEF ApiTypes, Inspect, AdvanceCall, VoucherCall, Nothing
<1>2. PICK out : out = DecodeInspect(c.wanted, c.json, c.room)
  OBVIOUS
<1>3. /\ asked' = c /\ result' = out.error
      /\ parser_input'.type = TypeLeft(out, old) /\ parser_input'.length = out.length
  BY <1>2 DEF Inspect, TypeLeft
<1>4. CASE BalanceMethod(c)
  <2>1. InspectedWell(c, Len(c.json.params) >= 1, 3, BalanceTypes, out, TypeLeft(out, old))
    BY <1>1, <1>2, <1>4, BalanceInspected
  <2>2. c.json.method = "ledger_getBalance" /\ c.wanted \in {"AUTO", "BALANCE"}
    BY <1>4 DEF BalanceMethod
  <2>3. QED
    BY <1>3, <2>1, <2>2 DEF InspectsJustTheParams, Returned, InspectedWell, GoodParams
<1>5. CASE SupplyMethod(c)
  <2>1. InspectedWell(c, c.json.shape # "not_strings", 2, SupplyTypes, out, TypeLeft(out, old))
    BY <1>1, <1>2, <1>5, SupplyInspected
  <2>2. c.json.method = "ledger_getTotalSupply" /\ c.wanted \in {"AUTO", "SUPPLY"}
    BY <1>5 DEF SupplyMethod
  <2>3. QED
    BY <1>3, <2>1, <2>2 DEF InspectsJustTheParams, Returned, InspectedWell, GoodParams
<1>6. CASE ~BalanceMethod(c) /\ ~SupplyMethod(c)
  <2>1. out.error # "SUCCESS" /\ out.length = c.room /\ c.room \in Nat
    BY <1>1, <1>2, <1>6 DEF DecodeInspect, BalanceMethod, SupplyMethod, Inspected, InspectCall
  <2>2. QED
    BY <1>3, <1>6, <2>1 DEF InspectsJustTheParams, Returned, BalanceMethod, SupplyMethod
<1>7. QED
  BY <1>4, <1>5, <1>6

\* Every other step is not the return of an inspect, or changes nothing of it.
InspectInv == ApiTypes /\ InspectsJustTheParams

LEMMA InspectStep == InspectInv /\ [ApiNext]_apiVars => InspectInv'
<1> SUFFICES ASSUME InspectInv, [ApiNext]_apiVars PROVE InspectsJustTheParams'
  BY ApiTypesKept DEF InspectInv
<1>1. CASE AskAdvance \/ AskInspect \/ AskVoucher
  <2>1. result' = "none"
    BY <1>1 DEF AskAdvance, AskInspect, AskVoucher, Idle, Ask
  <2>2. QED
    BY <2>1 DEF InspectsJustTheParams, Returned
<1>2. CASE Inspect
  BY <1>2, InspectKeeps DEF InspectInv
<1>3. CASE Decode \/ Encode \/ Release
  BY <1>3 DEF Decode, Encode, Release, InspectsJustTheParams, Returned, Nothing
<1>4. CASE UNCHANGED apiVars
  BY <1>4 DEF apiVars, InspectInv, InspectsJustTheParams, Returned
<1>5. QED
  BY <1>1, <1>2, <1>3, <1>4 DEF ApiNext

\* decode_inspect takes just the methods and params it should, for any order of
\* calls with the same structure.
THEOREM InspectHolds == ClientSpec => []InspectsJustTheParams
<1>1. ClientInit => InspectInv
  BY ApiTypesInit DEF ClientInit, ApiInit, InspectInv, InspectsJustTheParams, Returned
<1>2. InspectInv => InspectsJustTheParams
  BY DEF InspectInv
<1>3. QED
  BY <1>1, <1>2, InspectStep, ClientSteps, PTL DEF ClientSpec

-----------------------------------------------------------------------------
(* Lists, and blocks of words. *)

LEMMA SeqWider ==
  ASSUME NEW A, NEW B, A \subseteq B, NEW s \in Seq(A)
  PROVE  s \in Seq(B)
  OBVIOUS

LEMMA IndexAt ==
  ASSUME NEW s, NEW k \in DOMAIN s, \A j \in DOMAIN s : s[j] = s[k] => j = k
  PROVE  IndexOf(s, s[k]) = k
  BY DEF IndexOf

\* What word k leads to: a length, then the list.
BlockIn(words, k, list) ==
  LET at_ == words[k] + 1
  IN  /\ words[k] \in Nat
      /\ at_ + Len(list) <= Len(words)
      /\ words[at_] = Len(list)
      /\ \A j \in 1..Len(list) : words[at_ + j] = list[j]

LEMMA BlockRead ==
  ASSUME NEW S, NEW words \in Seq(S), NEW list \in Seq(S), NEW k,
         BlockIn(words, k, list)
  PROVE  Block(words, 0, k) = list
<1> DEFINE at_ == words[k] + 1
           n == Len(list)
<1>1. at_ \in Nat \ {0} /\ n \in Nat /\ at_ + n <= Len(words) /\ words[at_] = n
  BY DEF BlockIn
<1>2. \A j \in 1..n : words[at_ + j] = list[j]
  BY DEF BlockIn
<1>3. Block(words, 0, k) = SubSeq(words, at_ + 1, at_ + n)
  <2>1. BlockAt(words, 0, k) = at_
    <3>1. words[k] \in Nat
      BY DEF BlockIn
    <3>2. QED
      BY <3>1 DEF BlockAt
  <2>2. QED
    BY <1>1, <2>1 DEF Block
<1> HIDE DEF at_
<1>4. PICK s : s = SubSeq(words, at_ + 1, at_ + n)
  OBVIOUS
<1>5. s \in Seq(S) /\ Len(s) = n /\ \A j \in 1..n : s[j] = words[at_ + j]
  <2>1. \A j \in 1..n : at_ + j \in 1..Len(words) /\ at_ + 1 + j - 1 = at_ + j
    BY <1>1
  <2>2. at_ + 1 \in 1..(Len(words) + 1) /\ at_ + n \in at_..Len(words)
    BY <1>1
  <2>3. s = [j \in 1..n |-> words[at_ + j]]
    BY <1>1, <1>4, <2>1, <2>2
  <2>4. QED
    BY <1>1, <2>1, <2>3
<1>6. s = list
  BY <1>2, <1>5, SeqEqual
<1>7. QED
  BY <1>3, <1>4, <1>6

\* The words with a block more, at the offset that is written in word k.
Extended(words, k, list) == [words EXCEPT ![k] = Len(words)] \o (<<Len(list)>> \o list)

\* The list is behind the words, and the other blocks are where they were.
Grown(S, words, k, list, new) ==
  /\ new \in Seq(S)
  /\ Len(new) = Len(words) + 1 + Len(list)
  /\ BlockIn(new, k, list)
  /\ new[k] = Len(words)
  /\ \A j \in 1..Len(words) : j # k => new[j] = words[j]
  /\ \A other \in Seq(S), m \in 1..Len(words) : m # k /\ words[m] >= k /\ BlockIn(words, m, other)
       => BlockIn(new, m, other)

LEMMA BlockAdded ==
  ASSUME NEW S, Nat \subseteq S, NEW words \in Seq(S), NEW k \in 1..Len(words),
         NEW list \in Seq(S), NEW new, new = Extended(words, k, list)
  PROVE  Grown(S, words, k, list, new)
<1> DEFINE head  == [words EXCEPT ![k] = Len(words)]
           block == <<Len(list)>> \o list
           n == Len(words)
           l == Len(list)
<1>1. n \in Nat /\ l \in Nat
  OBVIOUS
<1>2. head \in Seq(S) /\ Len(head) = n
      /\ \A j \in 1..n : head[j] = IF j = k THEN n ELSE words[j]
  BY <1>1
<1>3. block \in Seq(S) /\ Len(block) = 1 + l /\ block[1] = l
      /\ \A j \in 1..l : block[1 + j] = list[j]
  <2>1. <<Len(list)>> \in Seq(S) /\ Len(<<Len(list)>>) = 1 /\ <<Len(list)>>[1] = l
    BY <1>1
  <2>2. \A j \in 1..l : 1 + j > 1 /\ 1 + j \in 1..(1 + l) /\ 1 + j - 1 = j
    BY <1>1
  <2>3. QED
    BY <1>1, <2>1, <2>2, ConcatProperties
<1> HIDE DEF head, block
<1>4. new = head \o block
  BY DEF Extended, head, block
<1>5. new \in Seq(S) /\ Len(new) = n + 1 + l
  <2>1. (head \o block) \in Seq(S)
    BY <1>2, <1>3, ConcatProperties
  <2>2. Len(head \o block) = Len(head) + Len(block)
    BY <1>2, <1>3, ConcatProperties
  <2>3. QED
    BY <1>1, <1>2, <1>3, <1>4, <2>1, <2>2
<1>6. \A j \in 1..n : new[j] = IF j = k THEN n ELSE words[j]
  BY <1>1, <1>2, <1>3, <1>4, ConcatProperties
<1>7. \A j \in 1..(1 + l) : new[n + j] = block[j]
  <2>1. \A j \in 1..(1 + l) : ~(n + j <= n) /\ n + j \in 1..(n + (1 + l)) /\ n + j - n = j
    BY <1>1
  <2>2. QED
    BY <1>1, <1>2, <1>3, <1>4, <2>1, ConcatProperties
<1>8. new[n + 1] = l /\ \A j \in 1..l : new[n + 1 + j] = list[j]
  <2>1. \A j \in 1..l : 1 + j \in 1..(1 + l) /\ n + (1 + j) = n + 1 + j
    BY <1>1
  <2>2. QED
    BY <1>1, <1>3, <1>7, <2>1
<1>9. BlockIn(new, k, list)
  BY <1>1, <1>5, <1>6, <1>8 DEF BlockIn
<1>10. ASSUME NEW other \in Seq(S), NEW m \in 1..n, m # k, words[m] >= k, BlockIn(words, m, other)
       PROVE  BlockIn(new, m, other)
  <2>1. new[m] = words[m] /\ words[m] \in Nat
    BY <1>6, <1>10 DEF BlockIn
  <2>2. PICK b \in Nat : b = words[m] + 1
    BY <2>1
  <2>3. PICK o \in Nat : o = Len(other)
    OBVIOUS
  <2>4. b + o <= n /\ words[b] = o /\ \A j \in 1..o : words[b + j] = other[j]
    BY <1>10, <2>2, <2>3 DEF BlockIn
  <2>5. k \in Nat /\ b > k
    BY <1>1, <1>10, <2>1, <2>2
  <2>6. b \in 1..n /\ b # k /\ \A j \in 1..o : b + j \in 1..n /\ b + j # k
    BY <1>1, <2>4, <2>5
  <2>7. new[b] = o /\ \A j \in 1..o : new[b + j] = other[j]
    BY <1>6, <2>4, <2>6
  <2>8. b + o <= Len(new)
    BY <1>1, <1>5, <2>4
  <2>9. QED
    BY <2>1, <2>2, <2>3, <2>7, <2>8 DEF BlockIn
<1>11. QED
  BY <1>5, <1>6, <1>9, <1>10 DEF Grown

-----------------------------------------------------------------------------
(* Vouchers. *)

LEMMA JoinPairs ==
  ASSUME NEW a, NEW b, NEW c, NEW d
  PROVE  <<a, b>> \o <<c, d>> = <<a, b, c, d>>
<1> DEFINE s == <<a, b>> \o <<c, d>>
           S == {a, b, c, d}
<1>1. <<a, b>> \in Seq(S) /\ <<c, d>> \in Seq(S) /\ <<a, b, c, d>> \in Seq(S)
  OBVIOUS
<1>2. s \in Seq(S) /\ Len(s) = 4 /\ s[1] = a /\ s[2] = b /\ s[3] = c /\ s[4] = d
  BY <1>1, ConcatProperties
<1> HIDE DEF s
<1>3. s = <<a, b, c, d>>
  BY <1>1, <1>2, SeqEqual
<1>4. QED
  BY <1>3 DEF s

LEMMA JoinOne ==
  ASSUME NEW a, NEW b, NEW c, NEW d, NEW e
  PROVE  <<a, b, c, d>> \o <<e>> = <<a, b, c, d, e>>
<1> DEFINE s == <<a, b, c, d>> \o <<e>>
           S == {a, b, c, d, e}
<1>1. <<a, b, c, d>> \in Seq(S) /\ <<e>> \in Seq(S) /\ <<a, b, c, d, e>> \in Seq(S)
  OBVIOUS
<1>2. s \in Seq(S) /\ Len(s) = 5 /\ s[1] = a /\ s[2] = b /\ s[3] = c /\ s[4] = d /\ s[5] = e
  BY <1>1, ConcatProperties
<1> HIDE DEF s
<1>3. s = <<a, b, c, d, e>>
  BY <1>1, <1>2, SeqEqual
<1>4. QED
  BY <1>3 DEF s

Contracts == TokenKinds \ {"ETHER"}

\* The encoders put what the called functions take.
LEMMA ArgumentsAreParameters ==
  \A kind \in Contracts : Arguments(kind) = Parameters(kind)
<1> SUFFICES ASSUME NEW kind \in Contracts PROVE Arguments(kind) = Parameters(kind)
  OBVIOUS
<1>1. CASE kind = "ERC20" \/ kind = "ERC721"
  BY <1>1 DEF Arguments, Parameters
<1>2. CASE kind = "ERC1155_SINGLE"
  <2>1. Values(kind) = <<"token_id", "amount">>
    BY <1>2 DEF Values
  <2>2. Arguments(kind) = <<"sender", "receiver">> \o <<"token_id", "amount">> \o <<"exec_layer_data">>
    BY <1>2, <2>1 DEF Arguments
  <2>3. QED
    BY <1>2, <2>2, JoinPairs, JoinOne DEF Parameters
<1>3. CASE kind = "ERC1155_BATCH"
  <2>1. Values(kind) = <<"token_ids", "amounts">>
    BY <1>3 DEF Values
  <2>2. Arguments(kind) = <<"sender", "receiver">> \o <<"token_ids", "amounts">> \o <<"exec_layer_data">>
    BY <1>3, <2>1 DEF Arguments
  <2>3. QED
    BY <1>3, <2>2, JoinPairs, JoinOne DEF Parameters
<1>4. QED
  BY <1>1, <1>2, <1>3 DEF Contracts, TokenKinds

\* No parameter comes twice.
LEMMA ParametersDiffer ==
  \A kind \in Contracts :
    /\ Len(Parameters(kind)) \in 2..5
    /\ DOMAIN Parameters(kind) = 1..Len(Parameters(kind))
    /\ \A k \in DOMAIN Parameters(kind) :
         /\ Parameters(kind)[k] \in FieldNames
         /\ IndexOf(Parameters(kind), Parameters(kind)[k]) = k
<1> SUFFICES ASSUME NEW kind \in Contracts
             PROVE  /\ Len(Parameters(kind)) \in 2..5
                    /\ DOMAIN Parameters(kind) = 1..Len(Parameters(kind))
                    /\ \A k \in DOMAIN Parameters(kind) :
                         /\ Parameters(kind)[k] \in FieldNames
                         /\ IndexOf(Parameters(kind), Parameters(kind)[k]) = k
  OBVIOUS
<1>1. /\ Len(Parameters(kind)) \in 2..5
      /\ DOMAIN Parameters(kind) = 1..Len(Parameters(kind))
      /\ \A k \in DOMAIN Parameters(kind) : Parameters(kind)[k] \in FieldNames
      /\ \A j, k \in DOMAIN Parameters(kind) : Parameters(kind)[j] = Parameters(kind)[k] => j = k
  <2>1. CASE kind = "ERC20"
    BY <2>1 DEF Parameters, FieldNames, Dynamic
  <2>2. CASE kind = "ERC721"
    BY <2>2 DEF Parameters, FieldNames, Dynamic
  <2>3. CASE kind = "ERC1155_SINGLE"
    BY <2>3 DEF Parameters, FieldNames, Dynamic
  <2>4. CASE kind = "ERC1155_BATCH"
    BY <2>4 DEF Parameters, FieldNames, Dynamic
  <2>5. QED
    BY <2>1, <2>2, <2>3, <2>4 DEF Contracts, TokenKinds
<1>2. QED
  BY <1>1, IndexAt

\* A put that succeeds.
LEMMA PutSucceeds ==
  ASSUME NEW kind, NEW req, NEW room, NEW f, NEW words, NEW error, NEW r,
         r = PutBlock(kind, req, room, [words |-> words, error |-> error], f),
         r.error = "SUCCESS"
  PROVE  /\ error = "SUCCESS"
         /\ r = [words |-> Extended(words, IndexOf(Arguments(kind), f), req[f]),
                 error |-> "SUCCESS"]
         /\ ~(Len(words) + Len(<<Len(req[f])>> \o req[f]) > room)
<1> DEFINE put   == [words |-> words, error |-> error]
           block == <<Len(req[f])>> \o req[f]
           more  == put.error # "SUCCESS" \/ Len(put.words) + Len(block) > room
<1>1. CASE more
  <2>1. r = [put EXCEPT !.error = "ENOBUFS"]
    BY <1>1 DEF PutBlock
  <2>2. QED
    BY <2>1
<1>2. CASE ~more
  <2>1. r = [put EXCEPT !.words =
               [@ EXCEPT ![IndexOf(Arguments(kind), f)] = OffsetOf(put.words)] \o block]
    BY <1>2 DEF PutBlock
  <2>2. QED
    BY <1>2, <2>1 DEF Extended, OffsetOf
<1>3. QED
  BY <1>1, <1>2

LEMMA PutRecord ==
  ASSUME NEW kind, NEW req, NEW room, NEW f, NEW put, put = [words |-> put.words, error |-> put.error]
  PROVE  LET r == PutBlock(kind, req, room, put, f)
         IN  r = [words |-> r.words, error |-> r.error]
  BY DEF PutBlock

\* All the values of a request, and the words made of them.
WordsOf(req) ==
  Nat \cup {Junk} \cup {req[f] : f \in FieldNames}
      \cup UNION {ToSet(req[f]) : f \in Dynamic}

LEMMA ListsAreWords ==
  ASSUME NEW req, AreFields(req), NEW f \in Dynamic
  PROVE  req[f] \in Seq(WordsOf(req))
<1>1. ToSet(req[f]) \subseteq WordsOf(req)
  BY DEF WordsOf
<1>2. req[f] \in Seq(ToSet(req[f]))
  BY DEF AreFields
<1>3. QED
  BY <1>1, <1>2, SeqWider

\* A voucher's dynamic parameters are lists.
HasLists(kind, req) ==
  \A k \in 1..Len(Parameters(kind)) :
    IsDynamic(Parameters(kind)[k]) => req[Parameters(kind)[k]] \in Seq(WordsOf(req))

LEMMA FieldsAreLists ==
  ASSUME NEW kind, NEW req, AreFields(req)
  PROVE  HasLists(kind, req)
  BY ListsAreWords DEF HasLists, IsDynamic

\* The head, when there is room for it.
LEMMA HeadPut ==
  ASSUME NEW kind \in Contracts, NEW req, NEW room \in Nat,
         NEW head, head = PutHead(kind, req, room), ~(Len(head) < Len(Arguments(kind)))
  PROVE  /\ head \in Seq(WordsOf(req))
         /\ Len(head) = Len(Parameters(kind))
         /\ \A k \in 1..Len(head) : IsStatic(Parameters(kind)[k]) => head[k] = req[Parameters(kind)[k]]
         /\ Len(head) <= room
<1> DEFINE names == Parameters(kind)
           n == Len(names)
           m == Min({n, room})
<1>1. Arguments(kind) = names /\ n \in 2..5
  BY ArgumentsAreParameters, ParametersDiffer
<1>2. m = IF n <= room THEN n ELSE room
  BY <1>1, MinOfTwo
<1>3. head = [k \in 1..m |-> IF IsDynamic(names[k]) THEN Junk ELSE req[names[k]]]
  BY <1>1 DEF PutHead
<1>4. m \in Nat
  BY <1>1, <1>2
<1>5. Len(head) = m
  <2> HIDE DEF m
  <2>1. QED
    BY <1>3, <1>4
<1>6. m = n /\ n <= room
  BY <1>1, <1>2, <1>5
<1>7. \A k \in 1..n : names[k] \in FieldNames
  BY ParametersDiffer
<1>8. head \in [1..n -> WordsOf(req)]
  BY <1>3, <1>6, <1>7 DEF WordsOf
<1>9. head \in Seq(WordsOf(req))
  BY <1>1, <1>8
<1>10. \A k \in 1..n : IsStatic(names[k]) => head[k] = req[names[k]]
  BY <1>3, <1>6 DEF IsStatic, IsDynamic
<1>11. QED
  BY <1>5, <1>6, <1>9, <1>10

\* A put into a record of words.
LEMMA PutFits ==
  ASSUME NEW kind \in Contracts, NEW req, HasLists(kind, req), NEW room \in Nat,
         NEW words \in Seq(WordsOf(req)), NEW error, NEW k \in 1..Len(Parameters(kind)),
         Len(Parameters(kind)) <= Len(words),
         IsDynamic(Parameters(kind)[k]), NEW r,
         r = PutBlock(kind, req, room, [words |-> words, error |-> error], Parameters(kind)[k]),
         r.error = "SUCCESS"
  PROVE  /\ error = "SUCCESS"
         /\ r.words = Extended(words, k, req[Parameters(kind)[k]])
         /\ r = [words |-> r.words, error |-> "SUCCESS"]
         /\ Len(r.words) <= room
<1> DEFINE f == Parameters(kind)[k]
           list == req[f]
<1>1. k \in DOMAIN Parameters(kind)
  BY ParametersDiffer
<1>2. IndexOf(Arguments(kind), f) = k
  BY <1>1, ArgumentsAreParameters, ParametersDiffer
<1>3. /\ error = "SUCCESS"
      /\ r = [words |-> Extended(words, k, list), error |-> "SUCCESS"]
      /\ ~(Len(words) + Len(<<Len(list)>> \o list) > room)
  BY <1>2, PutSucceeds
<1>4. list \in Seq(WordsOf(req))
  BY DEF HasLists
<1>5. Nat \subseteq WordsOf(req)
  BY DEF WordsOf
<1> HIDE DEF list
<1>6. Len(list) \in Nat /\ Len(words) \in Nat
  BY <1>4
<1>7. Len(<<Len(list)>> \o list) = 1 + Len(list)
  <2>1. <<Len(list)>> \in Seq(WordsOf(req)) /\ Len(<<Len(list)>>) = 1
    BY <1>5, <1>6
  <2>2. QED
    BY <1>4, <2>1, ConcatProperties
<1>8. k \in 1..Len(words)
  BY <1>6, ParametersDiffer
<1>9. Len(Extended(words, k, list)) = Len(words) + 1 + Len(list)
  <2>1. PICK new : new = Extended(words, k, list)
    OBVIOUS
  <2>2. Grown(WordsOf(req), words, k, list, new)
    BY <1>4, <1>5, <1>8, <2>1, BlockAdded
  <2>3. QED
    BY <2>1, <2>2 DEF Grown
<1>10. Len(Extended(words, k, list)) <= room
  BY <1>3, <1>6, <1>7, <1>9
<1>11. QED
  BY <1>3, <1>10 DEF list

\* What the called function reads are the parameters asked for.
PaysWith(kind, req, words) ==
  \A f \in ToSet(Parameters(kind)) : ParameterRead(kind, words, f) = req[f]

LEMMA ReadsParameters ==
  ASSUME NEW kind \in Contracts, NEW req, HasLists(kind, req), NEW words \in Seq(WordsOf(req)),
         \A k \in 1..Len(Parameters(kind)) :
           /\ IsStatic(Parameters(kind)[k]) => words[k] = req[Parameters(kind)[k]]
           /\ IsDynamic(Parameters(kind)[k]) => BlockIn(words, k, req[Parameters(kind)[k]])
  PROVE  PaysWith(kind, req, words)
<1> SUFFICES ASSUME NEW f \in ToSet(Parameters(kind)) PROVE ParameterRead(kind, words, f) = req[f]
  BY DEF PaysWith
<1>1. PICK k \in 1..Len(Parameters(kind)) : Parameters(kind)[k] = f
  BY ParametersDiffer DEF ToSet
<1>2. IndexOf(Parameters(kind), f) = k
  BY <1>1, ParametersDiffer
<1>3. CASE IsStatic(f)
  BY <1>1, <1>2, <1>3 DEF ParameterRead
<1>4. CASE ~IsStatic(f)
  <2>1. f \in Dynamic /\ IsDynamic(f)
    BY <1>4 DEF IsStatic, IsDynamic
  <2>2. req[f] \in Seq(WordsOf(req)) /\ BlockIn(words, k, req[f])
    BY <1>1, <2>1 DEF HasLists
  <2>3. Block(words, 0, k) = req[f]
    BY <2>2, BlockRead
  <2>4. QED
    BY <1>2, <1>4, <2>3 DEF ParameterRead
<1>5. QED
  BY <1>3, <1>4

\* The words when the blocks of the parameters `done` are put: they are behind the head.
WordsPut(kind, req, words, done) ==
  /\ words \in Seq(WordsOf(req))
  /\ Len(Parameters(kind)) <= Len(words)
  /\ \A k \in 1..Len(Parameters(kind)) :
       IsStatic(Parameters(kind)[k]) => words[k] = req[Parameters(kind)[k]]
  /\ \A k \in done : /\ BlockIn(words, k, req[Parameters(kind)[k]])
                      /\ words[k] >= Len(Parameters(kind))
                      /\ k \in 1..Len(Parameters(kind)) /\ IsDynamic(Parameters(kind)[k])

\* A put of parameter k that succeeds.
IsPut(kind, req, room, words, error, k, r) ==
  /\ r = PutBlock(kind, req, room, [words |-> words, error |-> error], Parameters(kind)[k])
  /\ r.error = "SUCCESS"
  /\ k \in 1..Len(Parameters(kind)) /\ IsDynamic(Parameters(kind)[k])

OneMore(done, k, next) == k \notin done /\ next = done \cup {k}

LEMMA PutKeeps ==
  ASSUME NEW kind \in Contracts, NEW req, HasLists(kind, req), NEW room \in Nat,
         NEW words, NEW error, NEW done, NEW k, NEW next, NEW r,
         WordsPut(kind, req, words, done), OneMore(done, k, next),
         IsPut(kind, req, room, words, error, k, r)
  PROVE  /\ error = "SUCCESS"
         /\ r = [words |-> r.words, error |-> "SUCCESS"]
         /\ WordsPut(kind, req, r.words, next)
         /\ Len(r.words) <= room
<1> USE DEF IsPut, OneMore
<1> DEFINE n == Len(Parameters(kind))
           W == WordsOf(req)
           list(m) == req[Parameters(kind)[m]]
           new == r.words
<1>1. words \in Seq(W) /\ n <= Len(words) /\ Len(words) \in Nat /\ n \in 2..5
  BY ParametersDiffer DEF WordsPut
<1>2. /\ error = "SUCCESS"
      /\ new = Extended(words, k, list(k))
      /\ r = [words |-> r.words, error |-> "SUCCESS"]
      /\ Len(new) <= room
  BY <1>1, PutFits
<1>3. \A m \in 1..n : IsDynamic(Parameters(kind)[m]) => list(m) \in Seq(W)
  BY DEF HasLists
<1>4. list(k) \in Seq(W) /\ Nat \subseteq W /\ k \in 1..Len(words)
  BY <1>1, <1>3 DEF WordsOf
<1> HIDE DEF W, new, list
<1>5. Grown(W, words, k, list(k), new)
  BY <1>1, <1>2, <1>4, BlockAdded
<1>6. Len(new) \in Nat /\ n <= Len(new)
  <2>1. Len(list(k)) \in Nat
    BY <1>4
  <2>2. QED
    BY <1>1, <1>5, <2>1 DEF Grown
<1>7. ASSUME NEW m \in 1..n, IsStatic(Parameters(kind)[m])
      PROVE  new[m] = list(m)
  <2>1. m # k /\ m \in 1..Len(words)
    BY <1>1, <1>7 DEF IsStatic, IsDynamic
  <2>2. words[m] = list(m)
    BY <1>7 DEF WordsPut, list
  <2>3. QED
    BY <1>5, <2>1, <2>2 DEF Grown
<1>8. ASSUME NEW m \in done
      PROVE  BlockIn(new, m, list(m)) /\ new[m] >= n
  <2>0. m \in 1..n /\ IsDynamic(Parameters(kind)[m])
    BY DEF WordsPut
  <2>1. m # k /\ m \in 1..Len(words) /\ list(m) \in Seq(W)
    BY <1>1, <1>3, <2>0
  <2>2. BlockIn(words, m, list(m)) /\ words[m] >= n
    BY DEF WordsPut, list
  <2>3. words[m] \in Nat
    BY <2>2 DEF BlockIn
  <2>4. words[m] >= k
    BY <1>1, <2>2, <2>3
  <2>5. QED
    BY <1>5, <2>1, <2>2, <2>4 DEF Grown
<1>9. WordsPut(kind, req, new, next)
  <2>1. new[k] >= n
    BY <1>1, <1>5 DEF Grown
  <2>2. \A m \in next : BlockIn(new, m, list(m)) /\ new[m] >= n
    BY <1>5, <1>8, <2>1 DEF Grown
  <2>3. \A m \in next : m \in 1..n /\ IsDynamic(Parameters(kind)[m])
    BY DEF WordsPut
  <2>4. QED
    BY <1>5, <1>6, <1>7, <2>2, <2>3 DEF WordsPut, W, list, Grown
<1>10. QED
  BY <1>2, <1>9 DEF new

LEMMA AllPut ==
  ASSUME NEW kind \in Contracts, NEW req, HasLists(kind, req), NEW words, NEW done,
         WordsPut(kind, req, words, done),
         \A k \in 1..Len(Parameters(kind)) : IsDynamic(Parameters(kind)[k]) => k \in done
  PROVE  PaysWith(kind, req, words)
<1>1. words \in Seq(WordsOf(req))
  BY DEF WordsPut
<1>2. \A k \in 1..Len(Parameters(kind)) :
        /\ IsStatic(Parameters(kind)[k]) => words[k] = req[Parameters(kind)[k]]
        /\ IsDynamic(Parameters(kind)[k]) => BlockIn(words, k, req[Parameters(kind)[k]])
  BY DEF WordsPut
<1>3. QED
  BY <1>1, <1>2, ReadsParameters

\* Which of the parameters are dynamic.
LEMMA DynamicParameters ==
  /\ \A kind \in {"ERC20", "ERC721"} :
       \A k \in 1..Len(Parameters(kind)) : ~IsDynamic(Parameters(kind)[k])
  /\ Len(Parameters("ERC1155_SINGLE")) = 5 /\ Parameters("ERC1155_SINGLE")[5] = "exec_layer_data"
  /\ \A k \in 1..4 : ~IsDynamic(Parameters("ERC1155_SINGLE")[k])
  /\ Len(Parameters("ERC1155_BATCH")) = 5
  /\ Parameters("ERC1155_BATCH")[3] = "token_ids" /\ Parameters("ERC1155_BATCH")[4] = "amounts"
  /\ Parameters("ERC1155_BATCH")[5] = "exec_layer_data"
  /\ \A k \in 1..2 : ~IsDynamic(Parameters("ERC1155_BATCH")[k])
<1>1. \A k \in 1..Len(Parameters("ERC20")) : ~IsDynamic(Parameters("ERC20")[k])
  BY DEF Parameters, IsDynamic, Dynamic
<1>2. \A k \in 1..Len(Parameters("ERC721")) : ~IsDynamic(Parameters("ERC721")[k])
  BY DEF Parameters, IsDynamic, Dynamic
<1>3. /\ Len(Parameters("ERC1155_SINGLE")) = 5 /\ Parameters("ERC1155_SINGLE")[5] = "exec_layer_data"
      /\ \A k \in 1..4 : ~IsDynamic(Parameters("ERC1155_SINGLE")[k])
  BY DEF Parameters, IsDynamic, Dynamic
<1>4. /\ Len(Parameters("ERC1155_BATCH")) = 5
      /\ Parameters("ERC1155_BATCH")[3] = "token_ids" /\ Parameters("ERC1155_BATCH")[4] = "amounts"
      /\ Parameters("ERC1155_BATCH")[5] = "exec_layer_data"
      /\ \A k \in 1..2 : ~IsDynamic(Parameters("ERC1155_BATCH")[k])
  BY DEF Parameters, IsDynamic, Dynamic
<1>5. QED
  BY <1>1, <1>2, <1>3, <1>4

LEMMA PutsPay ==
  ASSUME NEW kind \in Contracts, NEW req, HasLists(kind, req), NEW room \in Nat,
         NEW put, put = PutAll(kind, req, room), put.error = "SUCCESS"
  PROVE  PaysWith(kind, req, put.words) /\ Len(put.words) <= room
<1> DEFINE head  == PutHead(kind, req, room)
           error == IF Len(head) < Len(Arguments(kind)) THEN "ENOBUFS" ELSE "SUCCESS"
<1>1. error = "SUCCESS" => WordsPut(kind, req, head, {}) /\ Len(head) <= room
  <2>1. SUFFICES ASSUME error = "SUCCESS" PROVE WordsPut(kind, req, head, {}) /\ Len(head) <= room
    OBVIOUS
  <2>2. ~(Len(head) < Len(Arguments(kind)))
    BY <2>1
  <2>3. /\ head \in Seq(WordsOf(req))
        /\ Len(head) = Len(Parameters(kind))
        /\ \A k \in 1..Len(head) : IsStatic(Parameters(kind)[k]) => head[k] = req[Parameters(kind)[k]]
        /\ Len(head) <= room
    BY <2>2, HeadPut
  <2> HIDE DEF head
  <2>4. Len(head) \in Nat
    BY <2>3
  <2>5. QED
    BY <2>3, <2>4 DEF WordsPut
<1>2. {"token_ids", "amounts", "exec_layer_data"} \subseteq Dynamic
  BY DEF Dynamic
<1>3. CASE kind \in {"ERC20", "ERC721"}
  <2>1. put = [words |-> head, error |-> error]
    BY <1>3 DEF PutAll
  <2> HIDE DEF head, error
  <2>2. WordsPut(kind, req, put.words, {}) /\ Len(put.words) <= room
    BY <1>1, <2>1
  <2>3. QED
    BY <1>3, <2>2, AllPut, DynamicParameters
<1>4. CASE kind = "ERC1155_SINGLE"
  <2>1. put = PutBlock(kind, req, room, [words |-> head, error |-> error], "exec_layer_data")
    BY <1>4 DEF PutAll
  <2> HIDE DEF head, error
  <2>2. /\ Len(Parameters(kind)) = 5 /\ Parameters(kind)[5] = "exec_layer_data"
        /\ IsDynamic(Parameters(kind)[5]) /\ 5 \in 1..Len(Parameters(kind))
    BY <1>2, <1>4, DynamicParameters DEF IsDynamic
  <2>3. error = "SUCCESS"
    BY <2>1, PutSucceeds
  <2>4. IsPut(kind, req, room, head, error, 5, put)
    BY <2>1, <2>2 DEF IsPut
  <2> DEFINE none == {}
             one  == {5}
  <2>5. OneMore(none, 5, one)
    BY DEF OneMore
  <2>6. WordsPut(kind, req, head, none)
    BY <1>1, <2>3
  <2> HIDE DEF none, one
  <2>7. WordsPut(kind, req, put.words, one) /\ Len(put.words) <= room
    BY <2>4, <2>5, <2>6, PutKeeps
  <2>8. \A k \in 1..Len(Parameters(kind)) : IsDynamic(Parameters(kind)[k]) => k \in one
    BY <1>4, DynamicParameters DEF one
  <2>9. QED
    BY <2>7, <2>8, AllPut
<1>5. CASE kind = "ERC1155_BATCH"
  <2> DEFINE put1 == PutBlock(kind, req, room, [words |-> head, error |-> error], "token_ids")
             put2 == PutBlock(kind, req, room, put1, "amounts")
  <2>1. put = PutBlock(kind, req, room, put2, "exec_layer_data")
    BY <1>5 DEF PutAll
  <2> HIDE DEF head, error
  <2>2. /\ Len(Parameters(kind)) = 5
        /\ Parameters(kind)[3] = "token_ids" /\ Parameters(kind)[4] = "amounts"
        /\ Parameters(kind)[5] = "exec_layer_data"
        /\ \A m \in {3, 4, 5} : IsDynamic(Parameters(kind)[m]) /\ m \in 1..Len(Parameters(kind))
    BY <1>2, <1>5, DynamicParameters DEF IsDynamic
  <2>3. /\ put1 = [words |-> put1.words, error |-> put1.error]
        /\ put2 = [words |-> put2.words, error |-> put2.error]
    <3>1. put1 = [words |-> put1.words, error |-> put1.error]
      <4>1. PICK h : h = [words |-> head, error |-> error]
        OBVIOUS
      <4>2. h = [words |-> h.words, error |-> h.error]
        BY <4>1
      <4>3. QED
        BY <4>1, <4>2, PutRecord
    <3>2. QED
      BY <3>1, PutRecord
  <2>4. put1 = PutBlock(kind, req, room, [words |-> head, error |-> error], Parameters(kind)[3])
        /\ put2 = PutBlock(kind, req, room, [words |-> put1.words, error |-> put1.error],
                           Parameters(kind)[4])
        /\ put = PutBlock(kind, req, room, [words |-> put2.words, error |-> put2.error],
                          Parameters(kind)[5])
    BY <2>1, <2>2, <2>3
  <2> HIDE DEF put1, put2
  <2>5. put2.error = "SUCCESS" /\ put1.error = "SUCCESS" /\ error = "SUCCESS"
    BY <2>4, PutSucceeds
  <2> DEFINE none == {}
             one == {3}
             two == {3, 4}
             three == {3, 4, 5}
  <2>6. OneMore(none, 3, one) /\ OneMore(one, 4, two) /\ OneMore(two, 5, three)
    BY DEF OneMore
  <2>7. WordsPut(kind, req, head, none)
    BY <1>1, <2>5
  <2> HIDE DEF none, one, two, three
  <2>8. WordsPut(kind, req, put1.words, one)
    <3>1. IsPut(kind, req, room, head, error, 3, put1)
      BY <2>2, <2>4, <2>5 DEF IsPut
    <3>2. QED
      BY <2>6, <2>7, <3>1, PutKeeps
  <2>9. WordsPut(kind, req, put2.words, two)
    <3>1. IsPut(kind, req, room, put1.words, put1.error, 4, put2)
      BY <2>2, <2>4, <2>5 DEF IsPut
    <3>2. QED
      BY <2>6, <2>8, <3>1, PutKeeps
  <2>10. WordsPut(kind, req, put.words, three) /\ Len(put.words) <= room
    <3>1. IsPut(kind, req, room, put2.words, put2.error, 5, put)
      BY <2>2, <2>4, <2>5 DEF IsPut
    <3>2. QED
      BY <2>6, <2>9, <3>1, PutKeeps
  <2>11. \A k \in 1..Len(Parameters(kind)) : IsDynamic(Parameters(kind)[k]) => k \in three
    BY <1>5, DynamicParameters DEF three
  <2>12. QED
    BY <2>10, <2>11, AllPut
<1>6. QED
  BY <1>3, <1>4, <1>5 DEF Contracts, TokenKinds

\* A voucher that is encoded pays what was asked.
VoucherPays(kind, req, room, paid) ==
  IF kind = "ETHER"
  THEN paid = [address |-> req["receiver"], value |-> req["amount"], words |-> <<>>]
  ELSE /\ paid.address = req["token"] /\ paid.value = 0
       /\ Len(paid.words) <= room
       /\ PaysWith(kind, req, paid.words)

LEMMA EncoderPays ==
  ASSUME NEW kind \in TokenKinds \cup {"NONE"}, NEW has_app, NEW req,
         kind \in Contracts => HasLists(kind, req),
         NEW room \in Nat \cup {-1},
         NEW out, out = EncodeVoucher(kind, has_app, req, room), out.error = "SUCCESS"
  PROVE  VoucherPays(kind, req, room, out.voucher) /\ kind \in TokenKinds
<1> DEFINE invalid == \/ kind \notin TokenKinds
                      \/ kind \notin {"ETHER", "ERC20"} /\ ~has_app
                      \/ kind = "ERC1155_BATCH" /\ Len(req.token_ids) # Len(req.amounts)
           ether   == ~invalid /\ kind = "ETHER"
           tight   == room = -1 \/ SelectorBytes + WordBytes * room < SizeAsked(kind, req)
           put     == PutAll(kind, req, room)
<1>1. CASE invalid
  <2>1. out = [error |-> "EINVAL", voucher |-> NoVoucher]
    BY <1>1 DEF EncodeVoucher
  <2>2. QED
    BY <2>1
<1>2. CASE ether
  <2>1. out = [error |-> "SUCCESS",
               voucher |-> [address |-> req.receiver, value |-> req.amount, words |-> <<>>]]
    BY <1>2 DEF EncodeVoucher
  <2>2. QED
    BY <1>2, <2>1 DEF VoucherPays
<1>3. CASE ~invalid /\ ~ether /\ tight
  <2>1. out = [error |-> "ENOBUFS", voucher |-> NoVoucher]
    BY <1>3 DEF EncodeVoucher
  <2>2. QED
    BY <2>1
<1>4. CASE ~invalid /\ ~ether /\ ~tight
  <2>1. out = [error |-> put.error,
               voucher |-> [address |-> req.token, value |-> 0, words |-> put.words]]
    BY <1>4 DEF EncodeVoucher
  <2>2. kind \in Contracts /\ room \in Nat
    BY <1>4 DEF Contracts
  <2>3. PaysWith(kind, req, put.words) /\ Len(put.words) <= room
    BY <2>1, <2>2, PutsPay
  <2>4. kind # "ETHER" /\ kind \in TokenKinds
    BY <2>2 DEF Contracts
  <2> HIDE DEF put
  <2>5. QED
    BY <2>1, <2>3, <2>4 DEF VoucherPays
<1>5. QED
  BY <1>1, <1>2, <1>3, <1>4

VoucherInv == ApiTypes /\ VoucherPaysRequest

LEMMA EncodeKeeps ==
  ASSUME ApiTypes, Encode
  PROVE  VoucherPaysRequest'
<1>1. VoucherCall(asked)
  BY DEF ApiTypes, Encode, AdvanceCall, InspectCall, Nothing
<1>2. /\ asked.kind \in TokenKinds \cup {"NONE"} /\ AreFields(asked.request)
      /\ asked.room \in Nat \cup {-1}
  BY <1>1, ApiAssumption DEF VoucherCall
<1>3. PICK out : out = EncodeVoucher(asked.kind, asked.has_app, asked.request, asked.room)
  OBVIOUS
<1>4. asked' = asked /\ result' = out.error /\ voucher' = out.voucher
  BY <1>3 DEF Encode
<1>5. out.error = "SUCCESS" => VoucherPays(asked.kind, asked.request, asked.room, out.voucher)
  BY <1>2, <1>3, FieldsAreLists, EncoderPays
<1>6. QED
  BY <1>4, <1>5 DEF VoucherPaysRequest, Returned, VoucherPays, PaysWith

LEMMA VoucherStep == VoucherInv /\ [ApiNext]_apiVars => VoucherInv'
<1> SUFFICES ASSUME VoucherInv, [ApiNext]_apiVars PROVE VoucherPaysRequest'
  BY ApiTypesKept DEF VoucherInv
<1>1. CASE AskAdvance \/ AskInspect \/ AskVoucher
  <2>1. result' = "none"
    BY <1>1 DEF AskAdvance, AskInspect, AskVoucher, Idle, Ask
  <2>2. QED
    BY <2>1 DEF VoucherPaysRequest, Returned
<1>2. CASE Encode
  BY <1>2, EncodeKeeps DEF VoucherInv
<1>3. CASE Decode \/ Inspect \/ Release
  BY <1>3 DEF Decode, Inspect, Release, VoucherPaysRequest, Returned, Nothing
<1>4. CASE UNCHANGED apiVars
  BY <1>4 DEF apiVars, VoucherInv, VoucherPaysRequest, Returned
<1>5. QED
  BY <1>1, <1>2, <1>3, <1>4 DEF ApiNext

\* An encoded voucher pays what was requested, for lists of any length and buffers
\* of any size: a put fails before an argument is cut.
THEOREM VouchersHold == ClientSpec => []VoucherPaysRequest
<1>1. ClientInit => VoucherInv
  BY ApiTypesInit DEF ClientInit, ApiInit, VoucherInv, VoucherPaysRequest, Returned
<1>2. VoucherInv => VoucherPaysRequest
  BY DEF VoucherInv
<1>3. QED
  BY <1>1, <1>2, VoucherStep, ClientSteps, PTL DEF ClientSpec

(***************************************************************************)
(* Inputs.  FlattenSeq is a recursion over the lists it joins.             *)
(***************************************************************************)
\* g is the recursion of FlattenSeq, over the first n of b.
Joined(s, t) == s \o t

Flattens(b, n, g) == g = [k \in 1..n |-> IF k = 1 THEN b[k] ELSE Joined(g[k - 1], b[k])]

LEMMA FlattensAt ==
  ASSUME NEW b, NEW n \in Nat, NEW g, Flattens(b, n, g), NEW k \in 1..n
  PROVE  g[k] = IF k = 1 THEN b[k] ELSE Joined(g[k - 1], b[k])
  BY DEF Flattens

LEMMA FlattenIsChosen ==
  ASSUME NEW b, Len(b) # 0
  PROVE  FlattenSeq(b) = (CHOOSE g : Flattens(b, Len(b), g))[Len(b)]
  BY DEF FlattenSeq, Flattens, Joined

LEMMA FlattensAgree ==
  ASSUME NEW b, NEW n \in Nat, NEW m \in Nat, NEW g, NEW h, n <= m,
         Flattens(b, n, g), Flattens(b, m, h)
  PROVE  \A k \in 1..n : g[k] = h[k]
  <1> DEFINE G == {k \in Nat : k \in 1..n => g[k] = h[k]}
  <1>1. 0 \in G
    OBVIOUS
  <1>2. ASSUME NEW k \in Nat, k \in G
        PROVE  k + 1 \in G
    <2> SUFFICES ASSUME k + 1 \in 1..n
                 PROVE  g[k + 1] = h[k + 1]
      OBVIOUS
    <2>1. k + 1 \in 1..m /\ k + 1 - 1 = k
      OBVIOUS
    <2>2. CASE k = 0
      BY <2>1, <2>2, FlattensAt
    <2>3. CASE k # 0
      <3>1. g[k] = h[k]
        BY <1>2, <2>3
      <3>2. g[k + 1] = Joined(g[k + 1 - 1], b[k + 1]) /\ h[k + 1] = Joined(h[k + 1 - 1], b[k + 1])
        BY <2>1, <2>3, FlattensAt
      <3>3. QED
        BY <2>1, <3>1, <3>2
    <2>4. QED
      BY <2>2, <2>3
  <1>3. QED
    <2> HIDE DEF G
    <2>1. \A k \in Nat : k \in G
      BY <1>1, <1>2, NatCollection
    <2>2. QED
      BY <2>1 DEF G

LEMMA FlattensExist ==
  ASSUME NEW b
  PROVE  \A n \in Nat : \E g : Flattens(b, n, g)
  <1> DEFINE G == {n \in Nat : \E g : Flattens(b, n, g)}
  <1>1. 0 \in G
    <2>1. Flattens(b, 0, [k \in 1..0 |-> 0])
      BY DEF Flattens
    <2>2. QED
      BY <2>1
  <1>2. ASSUME NEW n \in Nat, n \in G
        PROVE  n + 1 \in G
    <2>1. PICK g : Flattens(b, n, g)
      BY <1>2
    <2> DEFINE h == [k \in 1..(n + 1) |->
                       IF k = 1 THEN b[k] ELSE Joined(g[k - 1], b[k])]
    <2>2. ASSUME NEW k \in 1..n
          PROVE  h[k] = g[k]
      BY <2>1, FlattensAt
    <2>3. Flattens(b, n + 1, h)
      <3>1. ASSUME NEW k \in 1..(n + 1), k # 1
            PROVE  k - 1 \in 1..n
        BY <3>1
      <3>2. h = [k \in 1..(n + 1) |-> IF k = 1 THEN b[k] ELSE Joined(h[k - 1], b[k])]
        <4> HIDE DEF h
        <4>1. \A k \in 1..(n + 1) : k # 1 => g[k - 1] = h[k - 1]
          BY <2>2, <3>1
        <4>2. QED
          BY <4>1 DEF h
      <3>3. QED
        BY <3>2 DEF Flattens
    <2>4. QED
      BY <2>3
  <1>3. QED
    <2> HIDE DEF G
    <2>1. \A k \in Nat : k \in G
      BY <1>1, <1>2, NatCollection
    <2>2. QED
      BY <2>1 DEF G

LEMMA FlattenIs ==
  ASSUME NEW b, NEW n \in Nat \ {0}, Len(b) = n, NEW g, NEW m \in Nat, n <= m,
         NEW c, \A k \in 1..n : b[k] = c[k], Flattens(c, m, g)
  PROVE  FlattenSeq(b) = g[n]
  <1> DEFINE h == CHOOSE x : Flattens(b, n, x)
             r == [k \in 1..n |-> g[k]]
  <1>1. Flattens(b, n, h)
    BY FlattensExist
  <1>2. Flattens(b, n, r)
    <2>1. ASSUME NEW k \in 1..n
          PROVE  r[k] = IF k = 1 THEN b[k] ELSE Joined(r[k - 1], b[k])
      <3>1. k \in 1..m /\ (k # 1 => k - 1 \in 1..n)
        OBVIOUS
      <3>2. QED
        BY <3>1, FlattensAt
    <2>2. r = [k \in 1..n |-> IF k = 1 THEN b[k] ELSE Joined(r[k - 1], b[k])]
      <3> HIDE DEF r
      <3>1. r = [k \in 1..n |-> r[k]]
        BY DEF r
      <3>2. QED
        BY <2>1, <3>1
    <2>3. QED
      BY <2>2 DEF Flattens
  <1>3. FlattenSeq(b) = h[n]
    BY FlattenIsChosen
  <1>4. h[n] = r[n]
    <2> HIDE DEF h, r
    <2>1. n \in 1..n /\ n <= n
      OBVIOUS
    <2>2. QED
      BY <1>1, <1>2, <2>1, FlattensAgree
  <1>5. QED
    BY <1>3, <1>4

\* Blocks follow one another.
LEMMA NoBlocks ==
  ASSUME NEW args, NEW fields
  PROVE  AbiBlocks(args, fields, 0) = <<>>
  <1>1. [j \in 1..0 |-> AbiBlock(args, fields[j])] = <<>>
    OBVIOUS
  <1>2. QED
    BY <1>1 DEF AbiBlocks, FlattenSeq

LEMMA OneBlockMore ==
  ASSUME NEW args, NEW fields, NEW n \in Nat
  PROVE  AbiBlocks(args, fields, n + 1) =
           IF n = 0 THEN AbiBlock(args, fields[n + 1])
           ELSE AbiBlocks(args, fields, n) \o AbiBlock(args, fields[n + 1])
  <1> DEFINE c(k) == [j \in 1..k |-> AbiBlock(args, fields[j])]
             g == CHOOSE x : Flattens(c(n + 1), n + 1, x)
  <1>1. ASSUME NEW k \in Nat
        PROVE  Len(c(k)) = k
    OBVIOUS
  <1>2. \A k \in 1..n : c(n)[k] = c(n + 1)[k]
    OBVIOUS
  <1>3. c(n + 1)[n + 1] = AbiBlock(args, fields[n + 1])
    OBVIOUS
  <1> HIDE DEF c
  <1>4. Flattens(c(n + 1), n + 1, g)
    BY FlattensExist
  <1> HIDE DEF g
  <1>5. FlattenSeq(c(n + 1)) = g[n + 1]
    BY <1>1, <1>4, FlattenIs
  <1>6. n # 0 => FlattenSeq(c(n)) = g[n]
    BY <1>1, <1>2, <1>4, FlattenIs
  <1>7. g[n + 1] = IF n + 1 = 1 THEN c(n + 1)[n + 1] ELSE Joined(g[n + 1 - 1], c(n + 1)[n + 1])
    BY <1>4, FlattensAt
  <1>8. n + 1 - 1 = n /\ (n + 1 = 1 <=> n = 0)
    OBVIOUS
  <1>9. QED
    BY <1>3, <1>5, <1>6, <1>7, <1>8 DEF AbiBlocks, c, Joined

LEMMA BlockWords ==
  ASSUME NEW args, AreFields(args), NEW f
  PROVE  /\ AbiBlock(args, f) \in Seq(WordsOf(args))
         /\ ~IsDynamic(f) => Len(AbiBlock(args, f)) = 0
         /\ IsDynamic(f) =>
              /\ Len(args[f]) \in Nat
              /\ Len(AbiBlock(args, f)) = 1 + Len(args[f])
              /\ AbiBlock(args, f)[1] = Len(args[f])
              /\ \A k \in 1..Len(args[f]) : AbiBlock(args, f)[1 + k] = args[f][k]
<1>1. CASE IsDynamic(f)
  <2> DEFINE list == args[f]
             l == Len(list)
             block == <<l>> \o list
  <2>1. AbiBlock(args, f) = block
    BY <1>1 DEF AbiBlock
  <2>2. list \in Seq(WordsOf(args)) /\ Nat \subseteq WordsOf(args)
    BY <1>1, ListsAreWords DEF IsDynamic, WordsOf
  <2> HIDE DEF list
  <2>3. l \in Nat /\ <<l>> \in Seq(WordsOf(args)) /\ Len(<<l>>) = 1 /\ <<l>>[1] = l
    BY <2>2
  <2>4. \A k \in 1..l : 1 + k > 1 /\ 1 + k \in 1..(1 + l) /\ 1 + k - 1 = k
    BY <2>3
  <2>5. block \in Seq(WordsOf(args)) /\ Len(block) = 1 + l /\ block[1] = l
        /\ \A k \in 1..l : block[1 + k] = list[k]
    BY <2>2, <2>3, <2>4, ConcatProperties
  <2>6. QED
    BY <1>1, <2>1, <2>3, <2>5 DEF list
<1>2. CASE ~IsDynamic(f)
  <2>1. AbiBlock(args, f) = <<>>
    BY <1>2 DEF AbiBlock
  <2>2. QED
    BY <1>2, <2>1
<1>3. QED
  BY <1>1, <1>2

LEMMA BlocksFollow ==
  ASSUME NEW args, AreFields(args), NEW order
  PROVE  \A n \in Nat :
           /\ AbiBlocks(args, order, n) \in Seq(WordsOf(args))
           /\ AbiBlocks(args, order, n + 1)
                = AbiBlocks(args, order, n) \o AbiBlock(args, order[n + 1])
<1> DEFINE W == WordsOf(args)
           B(n) == AbiBlocks(args, order, n)
           G == {n \in Nat : B(n) \in Seq(W)}
<1>1. B(0) = <<>>
  BY NoBlocks
<1>2. ASSUME NEW n \in Nat, B(n) \in Seq(W)
      PROVE  B(n + 1) = B(n) \o AbiBlock(args, order[n + 1]) /\ B(n + 1) \in Seq(W)
  <2>1. AbiBlock(args, order[n + 1]) \in Seq(W)
    BY BlockWords
  <2>2. B(n + 1) = IF n = 0 THEN AbiBlock(args, order[n + 1]) ELSE B(n) \o AbiBlock(args, order[n + 1])
    BY OneBlockMore
  <2>3. <<>> \o AbiBlock(args, order[n + 1]) = AbiBlock(args, order[n + 1])
    BY <2>1, ConcatEmptySeq
  <2> HIDE DEF B, W
  <2>4. B(n + 1) = B(n) \o AbiBlock(args, order[n + 1])
    BY <1>1, <2>2, <2>3
  <2>5. QED
    BY <1>2, <2>1, <2>4, ConcatProperties
<1>3. 0 \in G
  <2>1. <<>> \in Seq(W)
    OBVIOUS
  <2> HIDE DEF B, W
  <2>2. QED
    BY <1>1, <2>1
<1> HIDE DEF B, W
<1>4. \A n \in Nat : n \in G => n + 1 \in G
  BY <1>2
<1>5. \A n \in Nat : n \in G
  <2> HIDE DEF G
  <2>1. QED
    BY <1>3, <1>4, NatCollection
<1>6. QED
  BY <1>2, <1>5 DEF B, W

\* More blocks leave those before as they are.
LEMMA BlocksStay ==
  ASSUME NEW args, AreFields(args), NEW order, NEW j \in Nat
  PROVE  \A n \in Nat : j <= n =>
           /\ Len(AbiBlocks(args, order, j)) <= Len(AbiBlocks(args, order, n))
           /\ \A k \in 1..Len(AbiBlocks(args, order, j)) :
                AbiBlocks(args, order, n)[k] = AbiBlocks(args, order, j)[k]
<1> DEFINE W == WordsOf(args)
           B(n) == AbiBlocks(args, order, n)
           Stays(n) == j <= n => /\ Len(B(j)) <= Len(B(n))
                                 /\ \A k \in 1..Len(B(j)) : B(n)[k] = B(j)[k]
           G == {n \in Nat : Stays(n)}
<1>1. \A n \in Nat : B(n) \in Seq(W) /\ B(n + 1) = B(n) \o AbiBlock(args, order[n + 1])
  BY BlocksFollow, Zenon
<1>2. \A n \in Nat : AbiBlock(args, order[n + 1]) \in Seq(W)
  BY BlockWords, Zenon
<1> HIDE DEF B, W
<1>3. \A n \in Nat : B(n) \in Seq(W) /\ Len(B(n)) \in Nat
  BY <1>1
<1>4. \A n \in Nat : B(n + 1) = B(n) \o AbiBlock(args, order[n + 1])
                     /\ AbiBlock(args, order[n + 1]) \in Seq(W)
  BY <1>1, <1>2, Zenon
<1>5. ASSUME NEW n \in Nat
      PROVE  Len(B(n)) <= Len(B(n + 1)) /\ \A k \in 1..Len(B(n)) : B(n + 1)[k] = B(n)[k]
  <2>1. PICK s, t : s = B(n) /\ t = AbiBlock(args, order[n + 1])
    OBVIOUS
  <2>2. s \in Seq(W) /\ t \in Seq(W) /\ B(n + 1) = s \o t
    BY <1>3, <1>4, <2>1
  <2>3. Len(s \o t) = Len(s) + Len(t) /\ \A k \in 1..Len(s) : (s \o t)[k] = s[k]
    BY <2>2, ConcatProperties
  <2>4. Len(s) \in Nat /\ Len(t) \in Nat
    BY <2>2
  <2>5. QED
    BY <2>1, <2>2, <2>3, <2>4
<1>6. ASSUME NEW n \in Nat, j <= n, Stays(n) PROVE Stays(n + 1)
  <2>1. \A k \in 1..Len(B(j)) : k \in 1..Len(B(n))
    BY <1>3, <1>6
  <2>2. Len(B(j)) <= Len(B(n + 1))
    BY <1>3, <1>5, <1>6
  <2>3. QED
    BY <1>5, <1>6, <2>1, <2>2
<1>7. Stays(j)
  BY <1>3
<1>8. 0 \in G
  <2>1. j <= 0 => j = 0
    OBVIOUS
  <2>2. QED
    BY <1>7, <2>1
<1>9. ASSUME NEW n \in Nat, n \in G PROVE n + 1 \in G
  <2>1. CASE j <= n
    BY <1>6, <1>9, <2>1
  <2>2. CASE j = n + 1
    BY <1>7, <2>2
  <2>3. CASE ~(j <= n + 1)
    BY <2>3
  <2>4. QED
    BY <2>1, <2>2, <2>3
<1>10. \A n \in Nat : n \in G
  <2> HIDE DEF G
  <2>1. QED
    BY <1>8, <1>9, NatCollection
<1>11. QED
  BY <1>10 DEF B

LEMMA Shifts ==
  ASSUME NEW s \in Nat, NEW l \in Nat
  PROVE  /\ s + (1 + l) = s + 1 + l
         /\ \A k \in 1..(1 + l) : ~(s + k <= s) /\ s + k \in 1..(s + 1 + l) /\ s + k - s = k
         /\ \A k \in 1..l : 1 + k \in 1..(1 + l) /\ s + (1 + k) = s + 1 + k
         /\ 1 \in 1..(1 + l)
  OBVIOUS

LEMMA AfterBefore ==
  ASSUME NEW W, NEW before \in Seq(W), NEW block \in Seq(W)
  PROVE  \A k \in 1..Len(block) : (before \o block)[Len(before) + k] = block[k]
<1>1. \A k \in 1..(Len(before) + Len(block)) :
        (before \o block)[k] = IF k <= Len(before) THEN before[k] ELSE block[k - Len(before)]
  BY ConcatProperties
<1>2. PICK s \in Nat, n \in Nat : s = Len(before) /\ n = Len(block)
  OBVIOUS
<1>3. \A k \in 1..n : s + k \in 1..(s + n) /\ ~(s + k <= s) /\ s + k - s = k
  OBVIOUS
<1>4. QED
  BY <1>1, <1>2, <1>3

\* A block is where the blocks before it end.
Placed(args, order, n, j) ==
  LET s      == Len(AbiBlocks(args, order, j - 1))
      l      == Len(args[order[j]])
      blocks == AbiBlocks(args, order, n)
  IN  /\ s \in Nat /\ l \in Nat
      /\ Len(AbiBlocks(args, order, j)) = s + 1 + l
      /\ s + 1 + l <= Len(blocks)
      /\ blocks[s + 1] = l
      /\ \A k \in 1..l : blocks[s + 1 + k] = args[order[j]][k]

LEMMA BlockPlace ==
  ASSUME NEW args, AreFields(args), NEW order, NEW n \in Nat, NEW j \in 1..n,
         IsDynamic(order[j])
  PROVE  Placed(args, order, n, j)
<1> DEFINE B(m) == AbiBlocks(args, order, m)
           W == WordsOf(args)
           s == Len(B(j - 1))
           l == Len(args[order[j]])
           blocks == B(n)
<1>1. j - 1 \in Nat /\ j \in Nat /\ (j - 1) + 1 = j /\ j <= n
  OBVIOUS
<1>2. PICK before, block : before = B(j - 1) /\ block = AbiBlock(args, order[j])
  OBVIOUS
<1>3. before \in Seq(W) /\ Len(before) = s /\ B(j) = before \o block
  BY <1>1, <1>2, BlocksFollow
<1>4. /\ block \in Seq(W) /\ l \in Nat /\ Len(block) = 1 + l
      /\ block[1] = l /\ \A k \in 1..l : block[1 + k] = args[order[j]][k]
  BY <1>2, BlockWords
<1>5. s \in Nat
  BY <1>3
<1>6. /\ Len(B(j)) <= Len(blocks)
      /\ \A k \in 1..Len(B(j)) : blocks[k] = B(j)[k]
  BY <1>1, BlocksStay
<1>7. Len(before \o block) = Len(before) + Len(block)
  BY <1>3, <1>4, ConcatProperties
<1>8. \A k \in 1..Len(block) : (before \o block)[Len(before) + k] = block[k]
  BY <1>3, <1>4, AfterBefore
<1> HIDE DEF B, W, s, l, blocks
<1>9. s + (1 + l) = s + 1 + l
  BY <1>4, <1>5, Shifts
<1>10. Len(B(j)) = s + 1 + l
  BY <1>3, <1>4, <1>7, <1>9
<1>11. \A k \in 1..(1 + l) : s + k \in 1..(s + 1 + l)
  BY <1>4, <1>5, Shifts
<1>12. \A k \in 1..(1 + l) : blocks[s + k] = block[k]
  <2>1. \A k \in 1..(1 + l) : B(j)[s + k] = block[k]
    BY <1>3, <1>4, <1>8
  <2>2. QED
    BY <1>6, <1>10, <1>11, <2>1
<1>13. \A k \in 1..l : 1 + k \in 1..(1 + l) /\ s + (1 + k) = s + 1 + k
  BY <1>4, <1>5, Shifts
<1>14. 1 \in 1..(1 + l)
  BY <1>4, <1>5, Shifts
<1>15. s + 1 + l <= Len(blocks)
  BY <1>6, <1>10
<1>16. blocks[s + 1] = l
  BY <1>4, <1>12, <1>14
<1>17. \A k \in 1..l : blocks[s + 1 + k] = args[order[j]][k]
  BY <1>4, <1>12, <1>13
<1>18. QED
  BY <1>4, <1>5, <1>10, <1>15, <1>16, <1>17 DEF B, s, l, blocks, Placed

\* The last of the blocks ends them.
LEMMA BlocksEnd ==
  ASSUME NEW args, AreFields(args), NEW order
  PROVE  \A n \in Nat :
           \/ Len(AbiBlocks(args, order, n)) = 0
           \/ \E j \in 1..n : /\ IsDynamic(order[j])
                              /\ Len(AbiBlocks(args, order, j)) = Len(AbiBlocks(args, order, n))
<1> DEFINE B(m) == AbiBlocks(args, order, m)
           W == WordsOf(args)
           Ends(n) == \/ Len(B(n)) = 0
                      \/ \E j \in 1..n : IsDynamic(order[j]) /\ Len(B(j)) = Len(B(n))
           G == {n \in Nat : Ends(n)}
<1>1. 0 \in G
  BY NoBlocks
<1>2. ASSUME NEW n \in Nat, Ends(n) PROVE Ends(n + 1)
  <2>1. CASE IsDynamic(order[n + 1])
    BY <2>1
  <2>2. CASE ~IsDynamic(order[n + 1])
    <3>1. PICK s, t : s = B(n) /\ t = AbiBlock(args, order[n + 1])
      OBVIOUS
    <3>2. s \in Seq(W) /\ t \in Seq(W) /\ Len(t) = 0 /\ B(n + 1) = s \o t
      BY <2>2, <3>1, BlocksFollow, BlockWords
    <3>3. Len(s \o t) = Len(s) + Len(t)
      BY <3>2, ConcatProperties
    <3>4. Len(B(n + 1)) = Len(B(n))
      BY <3>1, <3>2, <3>3
    <3>5. \A j \in 1..n : j \in 1..(n + 1)
      OBVIOUS
    <3> HIDE DEF B
    <3>6. QED
      BY <1>2, <3>4, <3>5
  <2>3. QED
    BY <2>1, <2>2
<1>3. \A n \in Nat : n \in G
  <2>1. \A n \in Nat : n \in G => n + 1 \in G
    BY <1>2
  <2> HIDE DEF G
  <2>2. QED
    BY <1>1, <2>1, NatCollection
<1>4. QED
  BY <1>3

-----------------------------------------------------------------------------
(* The types of inputs. *)

LEMMA JoinTwo ==
  ASSUME NEW a, NEW b
  PROVE  <<a>> \o <<b>> = <<a, b>>
<1> DEFINE S == {a, b}
           u == <<a, b>>
<1>1. u \in Seq(S) /\ <<a>> \in Seq(S) /\ <<b>> \in Seq(S)
  OBVIOUS
<1>2. <<a>> \o <<b>> = u
  <2> DEFINE s == <<a>> \o <<b>>
  <2>1. s \in Seq(S) /\ Len(s) = 2 /\ s[1] = a /\ s[2] = b
    BY <1>1, ConcatProperties
  <2>2. Len(u) = 2 /\ u[1] = a /\ u[2] = b
    OBVIOUS
  <2> HIDE DEF s, u
  <2>3. s = u
    BY <1>1, <2>1, <2>2, SeqEqual
  <2>4. QED
    BY <2>3 DEF s
<1>3. QED
  BY <1>2

LEMMA JoinThree ==
  ASSUME NEW a, NEW b, NEW c
  PROVE  /\ <<a>> \o <<b, c>> = <<a, b, c>>
         /\ <<a, b>> \o <<c>> = <<a, b, c>>
<1> DEFINE S == {a, b, c}
           u == <<a, b, c>>
<1>1. u \in Seq(S) /\ <<a>> \in Seq(S) /\ <<a, b>> \in Seq(S) /\ <<b, c>> \in Seq(S) /\ <<c>> \in Seq(S)
  OBVIOUS
<1>2. <<a>> \o <<b, c>> = u
  <2> DEFINE s == <<a>> \o <<b, c>>
  <2>1. s \in Seq(S) /\ Len(s) = 3 /\ s[1] = a /\ s[2] = b /\ s[3] = c
    BY <1>1, ConcatProperties
  <2>2. Len(u) = 3 /\ u[1] = a /\ u[2] = b /\ u[3] = c
    OBVIOUS
  <2> HIDE DEF s, u
  <2>3. s = u
    BY <1>1, <2>1, <2>2, SeqEqual
  <2>4. QED
    BY <2>3 DEF s
<1>3. <<a, b>> \o <<c>> = u
  <2> DEFINE s == <<a, b>> \o <<c>>
  <2>1. s \in Seq(S) /\ Len(s) = 3 /\ s[1] = a /\ s[2] = b /\ s[3] = c
    BY <1>1, ConcatProperties
  <2>2. Len(u) = 3 /\ u[1] = a /\ u[2] = b /\ u[3] = c
    OBVIOUS
  <2> HIDE DEF s, u
  <2>3. s = u
    BY <1>1, <2>1, <2>2, SeqEqual
  <2>4. QED
    BY <2>3 DEF s
<1>4. QED
  BY <1>2, <1>3

LEMMA JoinFour ==
  ASSUME NEW a, NEW b, NEW c, NEW d
  PROVE  <<a, b, c>> \o <<d>> = <<a, b, c, d>>
<1> DEFINE S == {a, b, c, d}
           u == <<a, b, c, d>>
<1>1. u \in Seq(S) /\ <<a, b, c>> \in Seq(S) /\ <<d>> \in Seq(S)
  OBVIOUS
<1>2. <<a, b, c>> \o <<d>> = u
  <2> DEFINE s == <<a, b, c>> \o <<d>>
  <2>1. s \in Seq(S) /\ Len(s) = 4 /\ s[1] = a /\ s[2] = b /\ s[3] = c /\ s[4] = d
    BY <1>1, ConcatProperties
  <2>2. Len(u) = 4 /\ u[1] = a /\ u[2] = b /\ u[3] = c /\ u[4] = d
    OBVIOUS
  <2> HIDE DEF s, u
  <2>3. s = u
    BY <1>1, <2>1, <2>2, SeqEqual
  <2>4. QED
    BY <2>3 DEF s
<1>3. QED
  BY <1>2

LEMMA JoinNothing ==
  ASSUME NEW a
  PROVE  <<>> \o <<a>> = <<a>> /\ <<a>> \o <<>> = <<a>>
<1>1. <<a>> \in Seq({a})
  OBVIOUS
<1>2. QED
  BY <1>1, ConcatEmptySeq

\* Decoders read the words that senders write.
LEMMA DepositHeads ==
  ASSUME NEW kind \in TokenKinds
  PROVE  /\ DepositWords(kind) = WordsSent(<<"DEPOSIT", kind>>)
         /\ DepositPacked(kind) = PackedSent(kind)
<1>1. CASE kind = "ETHER"
  <2>1. Values(kind) = <<"amount">> /\ Token(kind) = <<>>
    BY <1>1 DEF Values, Token
  <2>2. DepositWords(kind) = <<"amount">> \o <<>> /\ DepositPacked(kind) = <<>> \o <<"sender">>
    BY <1>1, <2>1 DEF DepositWords, DepositPacked, DataIsPacked
  <2>3. DepositWords(kind) = <<"amount">> /\ DepositPacked(kind) = <<"sender">>
    BY <2>2, JoinNothing, JoinTwo, JoinThree, JoinFour, JoinPairs, JoinOne
  <2>4. WordsSent(<<"DEPOSIT", kind>>) = <<"amount">> /\ PackedSent(kind) = <<"sender">>
    BY <1>1 DEF WordsSent, PackedSent
  <2>5. QED
    BY <2>3, <2>4
<1>2. CASE kind = "ERC20"
  <2>1. Values(kind) = <<"amount">> /\ Token(kind) = <<"token">>
    BY <1>2 DEF Values, Token
  <2>2. DepositWords(kind) = <<"amount">> \o <<>> /\ DepositPacked(kind) = <<"token">> \o <<"sender">>
    BY <1>2, <2>1 DEF DepositWords, DepositPacked, DataIsPacked
  <2>3. DepositWords(kind) = <<"amount">> /\ DepositPacked(kind) = <<"token", "sender">>
    BY <2>2, JoinNothing, JoinTwo, JoinThree, JoinFour, JoinPairs, JoinOne
  <2>4. WordsSent(<<"DEPOSIT", kind>>) = <<"amount">> /\ PackedSent(kind) = <<"token", "sender">>
    BY <1>2 DEF WordsSent, PackedSent
  <2>5. QED
    BY <2>3, <2>4
<1>3. CASE kind = "ERC721"
  <2>1. Values(kind) = <<"token_id">> /\ Token(kind) = <<"token">>
    BY <1>3 DEF Values, Token
  <2>2. DepositWords(kind) = <<"token_id">> \o <<"base_layer_data", "exec_layer_data">> /\ DepositPacked(kind) = <<"token">> \o <<"sender">>
    BY <1>3, <2>1 DEF DepositWords, DepositPacked, DataIsPacked
  <2>3. DepositWords(kind) = <<"token_id", "base_layer_data", "exec_layer_data">> /\ DepositPacked(kind) = <<"token", "sender">>
    BY <2>2, JoinNothing, JoinTwo, JoinThree, JoinFour, JoinPairs, JoinOne
  <2>4. WordsSent(<<"DEPOSIT", kind>>) = <<"token_id", "base_layer_data", "exec_layer_data">> /\ PackedSent(kind) = <<"token", "sender">>
    BY <1>3 DEF WordsSent, PackedSent
  <2>5. QED
    BY <2>3, <2>4
<1>4. CASE kind = "ERC1155_SINGLE"
  <2>1. Values(kind) = <<"token_id", "amount">> /\ Token(kind) = <<"token">>
    BY <1>4 DEF Values, Token
  <2>2. DepositWords(kind) = <<"token_id", "amount">> \o <<"base_layer_data", "exec_layer_data">> /\ DepositPacked(kind) = <<"token">> \o <<"sender">>
    BY <1>4, <2>1 DEF DepositWords, DepositPacked, DataIsPacked
  <2>3. DepositWords(kind) = <<"token_id", "amount", "base_layer_data", "exec_layer_data">> /\ DepositPacked(kind) = <<"token", "sender">>
    BY <2>2, JoinNothing, JoinTwo, JoinThree, JoinFour, JoinPairs, JoinOne
  <2>4. WordsSent(<<"DEPOSIT", kind>>) = <<"token_id", "amount", "base_layer_data", "exec_layer_data">> /\ PackedSent(kind) = <<"token", "sender">>
    BY <1>4 DEF WordsSent, PackedSent
  <2>5. QED
    BY <2>3, <2>4
<1>5. CASE kind = "ERC1155_BATCH"
  <2>1. Values(kind) = <<"token_ids", "amounts">> /\ Token(kind) = <<"token">>
    BY <1>5 DEF Values, Token
  <2>2. DepositWords(kind) = <<"token_ids", "amounts">> \o <<"base_layer_data", "exec_layer_data">> /\ DepositPacked(kind) = <<"token">> \o <<"sender">>
    BY <1>5, <2>1 DEF DepositWords, DepositPacked, DataIsPacked
  <2>3. DepositWords(kind) = <<"token_ids", "amounts", "base_layer_data", "exec_layer_data">> /\ DepositPacked(kind) = <<"token", "sender">>
    BY <2>2, JoinNothing, JoinTwo, JoinThree, JoinFour, JoinPairs, JoinOne
  <2>4. WordsSent(<<"DEPOSIT", kind>>) = <<"token_ids", "amounts", "base_layer_data", "exec_layer_data">> /\ PackedSent(kind) = <<"token", "sender">>
    BY <1>5 DEF WordsSent, PackedSent
  <2>5. QED
    BY <2>3, <2>4
<1>6. QED
  BY <1>1, <1>2, <1>3, <1>4, <1>5 DEF TokenKinds

LEMMA WithdrawalHeads ==
  ASSUME NEW kind \in TokenKinds
  PROVE  WithdrawalWords(kind) = WordsSent(<<"WITHDRAWAL", kind>>)
<1>1. CASE kind = "ETHER"
  <2>1. Values(kind) = <<"amount">> /\ Token(kind) = <<>>
    BY <1>1 DEF Values, Token
  <2>2. WithdrawalWords(kind) = <<>> \o <<"amount">> \o <<"exec_layer_data">>
    BY <2>1 DEF WithdrawalWords
  <2>3. <<>> \o <<"amount">> = <<"amount">>
    BY JoinNothing
  <2>4. <<"amount">> \o <<"exec_layer_data">> = <<"amount", "exec_layer_data">>
    BY JoinTwo
  <2>5. WithdrawalWords(kind) = <<"amount", "exec_layer_data">>
    BY <2>2, <2>3, <2>4
  <2>6. WordsSent(<<"WITHDRAWAL", kind>>) = <<"amount", "exec_layer_data">>
    BY <1>1 DEF WordsSent
  <2>7. QED
    BY <2>5, <2>6
<1>2. CASE kind = "ERC20"
  <2>1. Values(kind) = <<"amount">> /\ Token(kind) = <<"token">>
    BY <1>2 DEF Values, Token
  <2>2. WithdrawalWords(kind) = <<"token">> \o <<"amount">> \o <<"exec_layer_data">>
    BY <2>1 DEF WithdrawalWords
  <2>3. <<"token">> \o <<"amount">> = <<"token", "amount">>
    BY JoinTwo
  <2>4. <<"token", "amount">> \o <<"exec_layer_data">> = <<"token", "amount", "exec_layer_data">>
    BY JoinThree
  <2>5. WithdrawalWords(kind) = <<"token", "amount", "exec_layer_data">>
    BY <2>2, <2>3, <2>4
  <2>6. WordsSent(<<"WITHDRAWAL", kind>>) = <<"token", "amount", "exec_layer_data">>
    BY <1>2 DEF WordsSent
  <2>7. QED
    BY <2>5, <2>6
<1>3. CASE kind = "ERC721"
  <2>1. Values(kind) = <<"token_id">> /\ Token(kind) = <<"token">>
    BY <1>3 DEF Values, Token
  <2>2. WithdrawalWords(kind) = <<"token">> \o <<"token_id">> \o <<"exec_layer_data">>
    BY <2>1 DEF WithdrawalWords
  <2>3. <<"token">> \o <<"token_id">> = <<"token", "token_id">>
    BY JoinTwo
  <2>4. <<"token", "token_id">> \o <<"exec_layer_data">> = <<"token", "token_id", "exec_layer_data">>
    BY JoinThree
  <2>5. WithdrawalWords(kind) = <<"token", "token_id", "exec_layer_data">>
    BY <2>2, <2>3, <2>4
  <2>6. WordsSent(<<"WITHDRAWAL", kind>>) = <<"token", "token_id", "exec_layer_data">>
    BY <1>3 DEF WordsSent
  <2>7. QED
    BY <2>5, <2>6
<1>4. CASE kind = "ERC1155_SINGLE"
  <2>1. Values(kind) = <<"token_id", "amount">> /\ Token(kind) = <<"token">>
    BY <1>4 DEF Values, Token
  <2>2. WithdrawalWords(kind) = <<"token">> \o <<"token_id", "amount">> \o <<"exec_layer_data">>
    BY <2>1 DEF WithdrawalWords
  <2>3. <<"token">> \o <<"token_id", "amount">> = <<"token", "token_id", "amount">>
    BY JoinThree
  <2>4. <<"token", "token_id", "amount">> \o <<"exec_layer_data">> = <<"token", "token_id", "amount", "exec_layer_data">>
    BY JoinFour
  <2>5. WithdrawalWords(kind) = <<"token", "token_id", "amount", "exec_layer_data">>
    BY <2>2, <2>3, <2>4
  <2>6. WordsSent(<<"WITHDRAWAL", kind>>) = <<"token", "token_id", "amount", "exec_layer_data">>
    BY <1>4 DEF WordsSent
  <2>7. QED
    BY <2>5, <2>6
<1>5. CASE kind = "ERC1155_BATCH"
  <2>1. Values(kind) = <<"token_ids", "amounts">> /\ Token(kind) = <<"token">>
    BY <1>5 DEF Values, Token
  <2>2. WithdrawalWords(kind) = <<"token">> \o <<"token_ids", "amounts">> \o <<"exec_layer_data">>
    BY <2>1 DEF WithdrawalWords
  <2>3. <<"token">> \o <<"token_ids", "amounts">> = <<"token", "token_ids", "amounts">>
    BY JoinThree
  <2>4. <<"token", "token_ids", "amounts">> \o <<"exec_layer_data">> = <<"token", "token_ids", "amounts", "exec_layer_data">>
    BY JoinFour
  <2>5. WithdrawalWords(kind) = <<"token", "token_ids", "amounts", "exec_layer_data">>
    BY <2>2, <2>3, <2>4
  <2>6. WordsSent(<<"WITHDRAWAL", kind>>) = <<"token", "token_ids", "amounts", "exec_layer_data">>
    BY <1>5 DEF WordsSent
  <2>7. QED
    BY <2>5, <2>6
<1>6. QED
  BY <1>1, <1>2, <1>3, <1>4, <1>5 DEF TokenKinds

LEMMA TransferHeads ==
  ASSUME NEW kind \in TokenKinds
  PROVE  TransferWords(kind) = WordsSent(<<"TRANSFER", kind>>)
<1>1. CASE kind = "ETHER"
  <2>1. Values(kind) = <<"amount">> /\ Token(kind) = <<>>
    BY <1>1 DEF Values, Token
  <2>2. TransferWords(kind) = <<>> \o <<"receiver">> \o <<"amount">> \o <<"exec_layer_data">>
    BY <2>1 DEF TransferWords
  <2>3. <<>> \o <<"receiver">> = <<"receiver">>
    BY JoinNothing
  <2>4. <<"receiver">> \o <<"amount">> = <<"receiver", "amount">>
    BY JoinTwo
  <2>5. <<"receiver", "amount">> \o <<"exec_layer_data">> = <<"receiver", "amount", "exec_layer_data">>
    BY JoinThree
  <2>6. TransferWords(kind) = <<"receiver", "amount", "exec_layer_data">>
    BY <2>2, <2>3, <2>4, <2>5
  <2>7. WordsSent(<<"TRANSFER", kind>>) = <<"receiver", "amount", "exec_layer_data">>
    BY <1>1 DEF WordsSent
  <2>8. QED
    BY <2>6, <2>7
<1>2. CASE kind = "ERC20"
  <2>1. Values(kind) = <<"amount">> /\ Token(kind) = <<"token">>
    BY <1>2 DEF Values, Token
  <2>2. TransferWords(kind) = <<"token">> \o <<"receiver">> \o <<"amount">> \o <<"exec_layer_data">>
    BY <2>1 DEF TransferWords
  <2>3. <<"token">> \o <<"receiver">> = <<"token", "receiver">>
    BY JoinTwo
  <2>4. <<"token", "receiver">> \o <<"amount">> = <<"token", "receiver", "amount">>
    BY JoinThree
  <2>5. <<"token", "receiver", "amount">> \o <<"exec_layer_data">> = <<"token", "receiver", "amount", "exec_layer_data">>
    BY JoinFour
  <2>6. TransferWords(kind) = <<"token", "receiver", "amount", "exec_layer_data">>
    BY <2>2, <2>3, <2>4, <2>5
  <2>7. WordsSent(<<"TRANSFER", kind>>) = <<"token", "receiver", "amount", "exec_layer_data">>
    BY <1>2 DEF WordsSent
  <2>8. QED
    BY <2>6, <2>7
<1>3. CASE kind = "ERC721"
  <2>1. Values(kind) = <<"token_id">> /\ Token(kind) = <<"token">>
    BY <1>3 DEF Values, Token
  <2>2. TransferWords(kind) = <<"token">> \o <<"receiver">> \o <<"token_id">> \o <<"exec_layer_data">>
    BY <2>1 DEF TransferWords
  <2>3. <<"token">> \o <<"receiver">> = <<"token", "receiver">>
    BY JoinTwo
  <2>4. <<"token", "receiver">> \o <<"token_id">> = <<"token", "receiver", "token_id">>
    BY JoinThree
  <2>5. <<"token", "receiver", "token_id">> \o <<"exec_layer_data">> = <<"token", "receiver", "token_id", "exec_layer_data">>
    BY JoinFour
  <2>6. TransferWords(kind) = <<"token", "receiver", "token_id", "exec_layer_data">>
    BY <2>2, <2>3, <2>4, <2>5
  <2>7. WordsSent(<<"TRANSFER", kind>>) = <<"token", "receiver", "token_id", "exec_layer_data">>
    BY <1>3 DEF WordsSent
  <2>8. QED
    BY <2>6, <2>7
<1>4. CASE kind = "ERC1155_SINGLE"
  <2>1. Values(kind) = <<"token_id", "amount">> /\ Token(kind) = <<"token">>
    BY <1>4 DEF Values, Token
  <2>2. TransferWords(kind) = <<"token">> \o <<"receiver">> \o <<"token_id", "amount">> \o <<"exec_layer_data">>
    BY <2>1 DEF TransferWords
  <2>3. <<"token">> \o <<"receiver">> = <<"token", "receiver">>
    BY JoinTwo
  <2>4. <<"token", "receiver">> \o <<"token_id", "amount">> = <<"token", "receiver", "token_id", "amount">>
    BY JoinPairs
  <2>5. <<"token", "receiver", "token_id", "amount">> \o <<"exec_layer_data">> = <<"token", "receiver", "token_id", "amount", "exec_layer_data">>
    BY JoinOne
  <2>6. TransferWords(kind) = <<"token", "receiver", "token_id", "amount", "exec_layer_data">>
    BY <2>2, <2>3, <2>4, <2>5
  <2>7. WordsSent(<<"TRANSFER", kind>>) = <<"token", "receiver", "token_id", "amount", "exec_layer_data">>
    BY <1>4 DEF WordsSent
  <2>8. QED
    BY <2>6, <2>7
<1>5. CASE kind = "ERC1155_BATCH"
  <2>1. Values(kind) = <<"token_ids", "amounts">> /\ Token(kind) = <<"token">>
    BY <1>5 DEF Values, Token
  <2>2. TransferWords(kind) = <<"token">> \o <<"receiver">> \o <<"token_ids", "amounts">> \o <<"exec_layer_data">>
    BY <2>1 DEF TransferWords
  <2>3. <<"token">> \o <<"receiver">> = <<"token", "receiver">>
    BY JoinTwo
  <2>4. <<"token", "receiver">> \o <<"token_ids", "amounts">> = <<"token", "receiver", "token_ids", "amounts">>
    BY JoinPairs
  <2>5. <<"token", "receiver", "token_ids", "amounts">> \o <<"exec_layer_data">> = <<"token", "receiver", "token_ids", "amounts", "exec_layer_data">>
    BY JoinOne
  <2>6. TransferWords(kind) = <<"token", "receiver", "token_ids", "amounts", "exec_layer_data">>
    BY <2>2, <2>3, <2>4, <2>5
  <2>7. WordsSent(<<"TRANSFER", kind>>) = <<"token", "receiver", "token_ids", "amounts", "exec_layer_data">>
    BY <1>5 DEF WordsSent
  <2>8. QED
    BY <2>6, <2>7
<1>6. QED
  BY <1>1, <1>2, <1>3, <1>4, <1>5 DEF TokenKinds

LEMMA TypesAre ==
  \A type \in InputTypes :
    /\ type[1] \in {"DEPOSIT", "WITHDRAWAL", "TRANSFER"} /\ type[2] \in TokenKinds
    /\ type = <<type[1], type[2]>>
  BY DEF InputTypes

LEMMA HeadsAreSent ==
  ASSUME NEW type \in InputTypes
  PROVE  /\ HeadWords(type) = WordsSent(type)
         /\ Packed(type) = IF IsDeposit(type) THEN PackedSent(type[2]) ELSE <<>>
<1>1. type[2] \in TokenKinds /\ type = <<type[1], type[2]>>
      /\ type[1] \in {"DEPOSIT", "WITHDRAWAL", "TRANSFER"}
  BY TypesAre
<1>2. CASE type[1] = "DEPOSIT"
  <2>1. HeadWords(type) = DepositWords(type[2]) /\ Packed(type) = DepositPacked(type[2])
    BY <1>2 DEF HeadWords, Packed, IsDeposit
  <2>2. type = <<"DEPOSIT", type[2]>>
    BY <1>1, <1>2
  <2>3. DepositWords(type[2]) = WordsSent(<<"DEPOSIT", type[2]>>) /\ DepositPacked(type[2]) = PackedSent(type[2])
    BY <1>1, DepositHeads
  <2>4. QED
    BY <1>2, <2>1, <2>2, <2>3 DEF IsDeposit
<1>3. CASE type[1] = "WITHDRAWAL"
  <2>1. HeadWords(type) = WithdrawalWords(type[2]) /\ Packed(type) = <<>>
    BY <1>3 DEF HeadWords, Packed, IsDeposit
  <2>2. type = <<"WITHDRAWAL", type[2]>>
    BY <1>1, <1>3
  <2>3. WithdrawalWords(type[2]) = WordsSent(<<"WITHDRAWAL", type[2]>>)
    BY <1>1, WithdrawalHeads
  <2>4. QED
    BY <1>3, <2>1, <2>2, <2>3 DEF IsDeposit
<1>4. CASE type[1] = "TRANSFER"
  <2>1. HeadWords(type) = TransferWords(type[2]) /\ Packed(type) = <<>>
    BY <1>4 DEF HeadWords, Packed, IsDeposit
  <2>2. type = <<"TRANSFER", type[2]>>
    BY <1>1, <1>4
  <2>3. TransferWords(type[2]) = WordsSent(<<"TRANSFER", type[2]>>)
    BY <1>1, TransferHeads
  <2>4. QED
    BY <1>4, <2>1, <2>2, <2>3 DEF IsDeposit
<1>5. QED
  BY <1>1, <1>2, <1>3, <1>4

\* What the head of every type has.
WellLaid(type, head) ==
  /\ head \in Seq(FieldNames) /\ Len(head) \in Nat \ {0}
  /\ \A j, k \in 1..Len(head) : head[j] = head[k] => j = k
  /\ \A k \in 1..Len(head) : head[k] # "sender" /\ (IsDeposit(type) => head[k] # "token")
  /\ HasPackedData(type) => \A k \in 1..Len(head) : IsStatic(head[k])
  /\ ~HasPackedData(type) => head[Len(head)] = "exec_layer_data"
  /\ type[2] = "ERC1155_BATCH" =>
       /\ \E k \in 1..Len(head) : head[k] = "token_ids"
       /\ \E k \in 1..Len(head) : head[k] = "amounts"

LEMMA DepositsLaid ==
  ASSUME NEW kind \in TokenKinds
  PROVE  WellLaid(<<"DEPOSIT", kind>>, WordsSent(<<"DEPOSIT", kind>>))
<1>1. CASE kind = "ETHER"
  <2>1. WordsSent(<<"DEPOSIT", kind>>) = <<"amount">>
    BY <1>1 DEF WordsSent
  <2> DEFINE t == <<"amount">>
  <2>2. t \in Seq(FieldNames) /\ Len(t) = 1
    BY DEF FieldNames, Dynamic
  <2>3. t[1] = "amount"
    OBVIOUS
  <2> HIDE DEF t
  <2>4. \A k \in 1..1 : t[k] # "sender" /\ t[k] # "token" /\ IsStatic(t[k])
    BY <2>3 DEF IsStatic, Dynamic
  <2>9. \A j, k \in 1..1 : t[j] = t[k] => j = k
    BY <2>3
  <2>5. HasPackedData(<<"DEPOSIT", kind>>) /\ IsDeposit(<<"DEPOSIT", kind>>) /\ <<"DEPOSIT", kind>>[2] = kind
    BY <1>1 DEF HasPackedData, DataIsPacked, IsDeposit
  <2>6. WellLaid(<<"DEPOSIT", kind>>, t)
    BY <1>1, <2>2, <2>3, <2>4, <2>5, <2>9 DEF WellLaid
  <2>7. QED
    BY <2>1, <2>6 DEF t
<1>2. CASE kind = "ERC20"
  <2>1. WordsSent(<<"DEPOSIT", kind>>) = <<"amount">>
    BY <1>2 DEF WordsSent
  <2> DEFINE t == <<"amount">>
  <2>2. t \in Seq(FieldNames) /\ Len(t) = 1
    BY DEF FieldNames, Dynamic
  <2>3. t[1] = "amount"
    OBVIOUS
  <2> HIDE DEF t
  <2>4. \A k \in 1..1 : t[k] # "sender" /\ t[k] # "token" /\ IsStatic(t[k])
    BY <2>3 DEF IsStatic, Dynamic
  <2>9. \A j, k \in 1..1 : t[j] = t[k] => j = k
    BY <2>3
  <2>5. HasPackedData(<<"DEPOSIT", kind>>) /\ IsDeposit(<<"DEPOSIT", kind>>) /\ <<"DEPOSIT", kind>>[2] = kind
    BY <1>2 DEF HasPackedData, DataIsPacked, IsDeposit
  <2>6. WellLaid(<<"DEPOSIT", kind>>, t)
    BY <1>2, <2>2, <2>3, <2>4, <2>5, <2>9 DEF WellLaid
  <2>7. QED
    BY <2>1, <2>6 DEF t
<1>3. CASE kind = "ERC721"
  <2>1. WordsSent(<<"DEPOSIT", kind>>) = <<"token_id", "base_layer_data", "exec_layer_data">>
    BY <1>3 DEF WordsSent
  <2> DEFINE t == <<"token_id", "base_layer_data", "exec_layer_data">>
  <2>2. t \in Seq(FieldNames) /\ Len(t) = 3
    BY DEF FieldNames, Dynamic
  <2>3. t[1] = "token_id" /\ t[2] = "base_layer_data" /\ t[3] = "exec_layer_data"
    OBVIOUS
  <2> HIDE DEF t
  <2>4. \A k \in 1..3 : t[k] # "sender" /\ t[k] # "token"
    BY <2>3
  <2>9. \A j, k \in 1..3 : t[j] = t[k] => j = k
    BY <2>3
  <2>5. ~HasPackedData(<<"DEPOSIT", kind>>) /\ IsDeposit(<<"DEPOSIT", kind>>) /\ <<"DEPOSIT", kind>>[2] = kind
    BY <1>3 DEF HasPackedData, DataIsPacked, IsDeposit
  <2>6. WellLaid(<<"DEPOSIT", kind>>, t)
    BY <1>3, <2>2, <2>3, <2>4, <2>5, <2>9 DEF WellLaid
  <2>7. QED
    BY <2>1, <2>6 DEF t
<1>4. CASE kind = "ERC1155_SINGLE"
  <2>1. WordsSent(<<"DEPOSIT", kind>>) = <<"token_id", "amount", "base_layer_data", "exec_layer_data">>
    BY <1>4 DEF WordsSent
  <2> DEFINE t == <<"token_id", "amount", "base_layer_data", "exec_layer_data">>
  <2>2. t \in Seq(FieldNames) /\ Len(t) = 4
    BY DEF FieldNames, Dynamic
  <2>3. t[1] = "token_id" /\ t[2] = "amount" /\ t[3] = "base_layer_data" /\ t[4] = "exec_layer_data"
    OBVIOUS
  <2> HIDE DEF t
  <2>4. \A k \in 1..4 : t[k] # "sender" /\ t[k] # "token"
    BY <2>3
  <2>9. \A j, k \in 1..4 : t[j] = t[k] => j = k
    BY <2>3
  <2>5. ~HasPackedData(<<"DEPOSIT", kind>>) /\ IsDeposit(<<"DEPOSIT", kind>>) /\ <<"DEPOSIT", kind>>[2] = kind
    BY <1>4 DEF HasPackedData, DataIsPacked, IsDeposit
  <2>6. WellLaid(<<"DEPOSIT", kind>>, t)
    BY <1>4, <2>2, <2>3, <2>4, <2>5, <2>9 DEF WellLaid
  <2>7. QED
    BY <2>1, <2>6 DEF t
<1>5. CASE kind = "ERC1155_BATCH"
  <2>1. WordsSent(<<"DEPOSIT", kind>>) = <<"token_ids", "amounts", "base_layer_data", "exec_layer_data">>
    BY <1>5 DEF WordsSent
  <2> DEFINE t == <<"token_ids", "amounts", "base_layer_data", "exec_layer_data">>
  <2>2. t \in Seq(FieldNames) /\ Len(t) = 4
    BY DEF FieldNames, Dynamic
  <2>3. t[1] = "token_ids" /\ t[2] = "amounts" /\ t[3] = "base_layer_data" /\ t[4] = "exec_layer_data"
    OBVIOUS
  <2> HIDE DEF t
  <2>4. \A k \in 1..4 : t[k] # "sender" /\ t[k] # "token"
    BY <2>3
  <2>9. \A j, k \in 1..4 : t[j] = t[k] => j = k
    BY <2>3
  <2>5. ~HasPackedData(<<"DEPOSIT", kind>>) /\ IsDeposit(<<"DEPOSIT", kind>>) /\ <<"DEPOSIT", kind>>[2] = kind
    BY <1>5 DEF HasPackedData, DataIsPacked, IsDeposit
  <2>6. (\E k \in 1..4 : t[k] = "token_ids") /\ (\E k \in 1..4 : t[k] = "amounts")
    BY <2>3
  <2>7. WellLaid(<<"DEPOSIT", kind>>, t)
    BY <1>5, <2>2, <2>3, <2>4, <2>5, <2>9, <2>6 DEF WellLaid
  <2>8. QED
    BY <2>1, <2>7 DEF t
<1>6. QED
  BY <1>1, <1>2, <1>3, <1>4, <1>5 DEF TokenKinds

LEMMA WithdrawalsLaid ==
  ASSUME NEW kind \in TokenKinds
  PROVE  WellLaid(<<"WITHDRAWAL", kind>>, WordsSent(<<"WITHDRAWAL", kind>>))
<1>1. CASE kind = "ETHER"
  <2>1. WordsSent(<<"WITHDRAWAL", kind>>) = <<"amount", "exec_layer_data">>
    BY <1>1 DEF WordsSent
  <2> DEFINE t == <<"amount", "exec_layer_data">>
  <2>2. t \in Seq(FieldNames) /\ Len(t) = 2
    BY DEF FieldNames, Dynamic
  <2>3. t[1] = "amount" /\ t[2] = "exec_layer_data"
    OBVIOUS
  <2> HIDE DEF t
  <2>4. \A k \in 1..2 : t[k] # "sender"
    BY <2>3
  <2>9. \A j, k \in 1..2 : t[j] = t[k] => j = k
    BY <2>3
  <2>5. ~HasPackedData(<<"WITHDRAWAL", kind>>) /\ ~IsDeposit(<<"WITHDRAWAL", kind>>) /\ <<"WITHDRAWAL", kind>>[2] = kind
    BY <1>1 DEF HasPackedData, DataIsPacked, IsDeposit
  <2>6. WellLaid(<<"WITHDRAWAL", kind>>, t)
    BY <1>1, <2>2, <2>3, <2>4, <2>5, <2>9 DEF WellLaid
  <2>7. QED
    BY <2>1, <2>6 DEF t
<1>2. CASE kind = "ERC20"
  <2>1. WordsSent(<<"WITHDRAWAL", kind>>) = <<"token", "amount", "exec_layer_data">>
    BY <1>2 DEF WordsSent
  <2> DEFINE t == <<"token", "amount", "exec_layer_data">>
  <2>2. t \in Seq(FieldNames) /\ Len(t) = 3
    BY DEF FieldNames, Dynamic
  <2>3. t[1] = "token" /\ t[2] = "amount" /\ t[3] = "exec_layer_data"
    OBVIOUS
  <2> HIDE DEF t
  <2>4. \A k \in 1..3 : t[k] # "sender"
    BY <2>3
  <2>9. \A j, k \in 1..3 : t[j] = t[k] => j = k
    BY <2>3
  <2>5. ~HasPackedData(<<"WITHDRAWAL", kind>>) /\ ~IsDeposit(<<"WITHDRAWAL", kind>>) /\ <<"WITHDRAWAL", kind>>[2] = kind
    BY <1>2 DEF HasPackedData, DataIsPacked, IsDeposit
  <2>6. WellLaid(<<"WITHDRAWAL", kind>>, t)
    BY <1>2, <2>2, <2>3, <2>4, <2>5, <2>9 DEF WellLaid
  <2>7. QED
    BY <2>1, <2>6 DEF t
<1>3. CASE kind = "ERC721"
  <2>1. WordsSent(<<"WITHDRAWAL", kind>>) = <<"token", "token_id", "exec_layer_data">>
    BY <1>3 DEF WordsSent
  <2> DEFINE t == <<"token", "token_id", "exec_layer_data">>
  <2>2. t \in Seq(FieldNames) /\ Len(t) = 3
    BY DEF FieldNames, Dynamic
  <2>3. t[1] = "token" /\ t[2] = "token_id" /\ t[3] = "exec_layer_data"
    OBVIOUS
  <2> HIDE DEF t
  <2>4. \A k \in 1..3 : t[k] # "sender"
    BY <2>3
  <2>9. \A j, k \in 1..3 : t[j] = t[k] => j = k
    BY <2>3
  <2>5. ~HasPackedData(<<"WITHDRAWAL", kind>>) /\ ~IsDeposit(<<"WITHDRAWAL", kind>>) /\ <<"WITHDRAWAL", kind>>[2] = kind
    BY <1>3 DEF HasPackedData, DataIsPacked, IsDeposit
  <2>6. WellLaid(<<"WITHDRAWAL", kind>>, t)
    BY <1>3, <2>2, <2>3, <2>4, <2>5, <2>9 DEF WellLaid
  <2>7. QED
    BY <2>1, <2>6 DEF t
<1>4. CASE kind = "ERC1155_SINGLE"
  <2>1. WordsSent(<<"WITHDRAWAL", kind>>) = <<"token", "token_id", "amount", "exec_layer_data">>
    BY <1>4 DEF WordsSent
  <2> DEFINE t == <<"token", "token_id", "amount", "exec_layer_data">>
  <2>2. t \in Seq(FieldNames) /\ Len(t) = 4
    BY DEF FieldNames, Dynamic
  <2>3. t[1] = "token" /\ t[2] = "token_id" /\ t[3] = "amount" /\ t[4] = "exec_layer_data"
    OBVIOUS
  <2> HIDE DEF t
  <2>4. \A k \in 1..4 : t[k] # "sender"
    BY <2>3
  <2>9. \A j, k \in 1..4 : t[j] = t[k] => j = k
    BY <2>3
  <2>5. ~HasPackedData(<<"WITHDRAWAL", kind>>) /\ ~IsDeposit(<<"WITHDRAWAL", kind>>) /\ <<"WITHDRAWAL", kind>>[2] = kind
    BY <1>4 DEF HasPackedData, DataIsPacked, IsDeposit
  <2>6. WellLaid(<<"WITHDRAWAL", kind>>, t)
    BY <1>4, <2>2, <2>3, <2>4, <2>5, <2>9 DEF WellLaid
  <2>7. QED
    BY <2>1, <2>6 DEF t
<1>5. CASE kind = "ERC1155_BATCH"
  <2>1. WordsSent(<<"WITHDRAWAL", kind>>) = <<"token", "token_ids", "amounts", "exec_layer_data">>
    BY <1>5 DEF WordsSent
  <2> DEFINE t == <<"token", "token_ids", "amounts", "exec_layer_data">>
  <2>2. t \in Seq(FieldNames) /\ Len(t) = 4
    BY DEF FieldNames, Dynamic
  <2>3. t[1] = "token" /\ t[2] = "token_ids" /\ t[3] = "amounts" /\ t[4] = "exec_layer_data"
    OBVIOUS
  <2> HIDE DEF t
  <2>4. \A k \in 1..4 : t[k] # "sender"
    BY <2>3
  <2>9. \A j, k \in 1..4 : t[j] = t[k] => j = k
    BY <2>3
  <2>5. ~HasPackedData(<<"WITHDRAWAL", kind>>) /\ ~IsDeposit(<<"WITHDRAWAL", kind>>) /\ <<"WITHDRAWAL", kind>>[2] = kind
    BY <1>5 DEF HasPackedData, DataIsPacked, IsDeposit
  <2>6. (\E k \in 1..4 : t[k] = "token_ids") /\ (\E k \in 1..4 : t[k] = "amounts")
    BY <2>3
  <2>7. WellLaid(<<"WITHDRAWAL", kind>>, t)
    BY <1>5, <2>2, <2>3, <2>4, <2>5, <2>9, <2>6 DEF WellLaid
  <2>8. QED
    BY <2>1, <2>7 DEF t
<1>6. QED
  BY <1>1, <1>2, <1>3, <1>4, <1>5 DEF TokenKinds

LEMMA TransfersLaid ==
  ASSUME NEW kind \in TokenKinds
  PROVE  WellLaid(<<"TRANSFER", kind>>, WordsSent(<<"TRANSFER", kind>>))
<1>1. CASE kind = "ETHER"
  <2>1. WordsSent(<<"TRANSFER", kind>>) = <<"receiver", "amount", "exec_layer_data">>
    BY <1>1 DEF WordsSent
  <2> DEFINE t == <<"receiver", "amount", "exec_layer_data">>
  <2>2. t \in Seq(FieldNames) /\ Len(t) = 3
    BY DEF FieldNames, Dynamic
  <2>3. t[1] = "receiver" /\ t[2] = "amount" /\ t[3] = "exec_layer_data"
    OBVIOUS
  <2> HIDE DEF t
  <2>4. \A k \in 1..3 : t[k] # "sender"
    BY <2>3
  <2>9. \A j, k \in 1..3 : t[j] = t[k] => j = k
    BY <2>3
  <2>5. ~HasPackedData(<<"TRANSFER", kind>>) /\ ~IsDeposit(<<"TRANSFER", kind>>) /\ <<"TRANSFER", kind>>[2] = kind
    BY <1>1 DEF HasPackedData, DataIsPacked, IsDeposit
  <2>6. WellLaid(<<"TRANSFER", kind>>, t)
    BY <1>1, <2>2, <2>3, <2>4, <2>5, <2>9 DEF WellLaid
  <2>7. QED
    BY <2>1, <2>6 DEF t
<1>2. CASE kind = "ERC20"
  <2>1. WordsSent(<<"TRANSFER", kind>>) = <<"token", "receiver", "amount", "exec_layer_data">>
    BY <1>2 DEF WordsSent
  <2> DEFINE t == <<"token", "receiver", "amount", "exec_layer_data">>
  <2>2. t \in Seq(FieldNames) /\ Len(t) = 4
    BY DEF FieldNames, Dynamic
  <2>3. t[1] = "token" /\ t[2] = "receiver" /\ t[3] = "amount" /\ t[4] = "exec_layer_data"
    OBVIOUS
  <2> HIDE DEF t
  <2>4. \A k \in 1..4 : t[k] # "sender"
    BY <2>3
  <2>9. \A j, k \in 1..4 : t[j] = t[k] => j = k
    BY <2>3
  <2>5. ~HasPackedData(<<"TRANSFER", kind>>) /\ ~IsDeposit(<<"TRANSFER", kind>>) /\ <<"TRANSFER", kind>>[2] = kind
    BY <1>2 DEF HasPackedData, DataIsPacked, IsDeposit
  <2>6. WellLaid(<<"TRANSFER", kind>>, t)
    BY <1>2, <2>2, <2>3, <2>4, <2>5, <2>9 DEF WellLaid
  <2>7. QED
    BY <2>1, <2>6 DEF t
<1>3. CASE kind = "ERC721"
  <2>1. WordsSent(<<"TRANSFER", kind>>) = <<"token", "receiver", "token_id", "exec_layer_data">>
    BY <1>3 DEF WordsSent
  <2> DEFINE t == <<"token", "receiver", "token_id", "exec_layer_data">>
  <2>2. t \in Seq(FieldNames) /\ Len(t) = 4
    BY DEF FieldNames, Dynamic
  <2>3. t[1] = "token" /\ t[2] = "receiver" /\ t[3] = "token_id" /\ t[4] = "exec_layer_data"
    OBVIOUS
  <2> HIDE DEF t
  <2>4. \A k \in 1..4 : t[k] # "sender"
    BY <2>3
  <2>9. \A j, k \in 1..4 : t[j] = t[k] => j = k
    BY <2>3
  <2>5. ~HasPackedData(<<"TRANSFER", kind>>) /\ ~IsDeposit(<<"TRANSFER", kind>>) /\ <<"TRANSFER", kind>>[2] = kind
    BY <1>3 DEF HasPackedData, DataIsPacked, IsDeposit
  <2>6. WellLaid(<<"TRANSFER", kind>>, t)
    BY <1>3, <2>2, <2>3, <2>4, <2>5, <2>9 DEF WellLaid
  <2>7. QED
    BY <2>1, <2>6 DEF t
<1>4. CASE kind = "ERC1155_SINGLE"
  <2>1. WordsSent(<<"TRANSFER", kind>>) = <<"token", "receiver", "token_id", "amount", "exec_layer_data">>
    BY <1>4 DEF WordsSent
  <2> DEFINE t == <<"token", "receiver", "token_id", "amount", "exec_layer_data">>
  <2>2. t \in Seq(FieldNames) /\ Len(t) = 5
    BY DEF FieldNames, Dynamic
  <2>3. t[1] = "token" /\ t[2] = "receiver" /\ t[3] = "token_id" /\ t[4] = "amount" /\ t[5] = "exec_layer_data"
    OBVIOUS
  <2> HIDE DEF t
  <2>4. \A k \in 1..5 : t[k] # "sender"
    BY <2>3
  <2>9. \A j, k \in 1..5 : t[j] = t[k] => j = k
    BY <2>3
  <2>5. ~HasPackedData(<<"TRANSFER", kind>>) /\ ~IsDeposit(<<"TRANSFER", kind>>) /\ <<"TRANSFER", kind>>[2] = kind
    BY <1>4 DEF HasPackedData, DataIsPacked, IsDeposit
  <2>6. WellLaid(<<"TRANSFER", kind>>, t)
    BY <1>4, <2>2, <2>3, <2>4, <2>5, <2>9 DEF WellLaid
  <2>7. QED
    BY <2>1, <2>6 DEF t
<1>5. CASE kind = "ERC1155_BATCH"
  <2>1. WordsSent(<<"TRANSFER", kind>>) = <<"token", "receiver", "token_ids", "amounts", "exec_layer_data">>
    BY <1>5 DEF WordsSent
  <2> DEFINE t == <<"token", "receiver", "token_ids", "amounts", "exec_layer_data">>
  <2>2. t \in Seq(FieldNames) /\ Len(t) = 5
    BY DEF FieldNames, Dynamic
  <2>3. t[1] = "token" /\ t[2] = "receiver" /\ t[3] = "token_ids" /\ t[4] = "amounts" /\ t[5] = "exec_layer_data"
    OBVIOUS
  <2> HIDE DEF t
  <2>4. \A k \in 1..5 : t[k] # "sender"
    BY <2>3
  <2>9. \A j, k \in 1..5 : t[j] = t[k] => j = k
    BY <2>3
  <2>5. ~HasPackedData(<<"TRANSFER", kind>>) /\ ~IsDeposit(<<"TRANSFER", kind>>) /\ <<"TRANSFER", kind>>[2] = kind
    BY <1>5 DEF HasPackedData, DataIsPacked, IsDeposit
  <2>6. (\E k \in 1..5 : t[k] = "token_ids") /\ (\E k \in 1..5 : t[k] = "amounts")
    BY <2>3
  <2>7. WellLaid(<<"TRANSFER", kind>>, t)
    BY <1>5, <2>2, <2>3, <2>4, <2>5, <2>9, <2>6 DEF WellLaid
  <2>8. QED
    BY <2>1, <2>7 DEF t
<1>6. QED
  BY <1>1, <1>2, <1>3, <1>4, <1>5 DEF TokenKinds

\* The words that the sender does not count are those the decoder does not.
LEMMA FramesAreSent ==
  ASSUME NEW type \in InputTypes
  PROVE  /\ FrameStart(type) =
              IF IsDeposit(type)
              THEN Cardinality({j \in DOMAIN WordsSent(type) : IsStatic(WordsSent(type)[j])}) ELSE 0
         /\ FrameStart(type) \in Nat
<1> DEFINE S == {j \in DOMAIN WordsSent(type) : IsStatic(WordsSent(type)[j])}
<1>1. type[2] \in TokenKinds /\ type = <<type[1], type[2]>>
  BY TypesAre
<1>2. CASE ~IsDeposit(type)
  BY <1>2 DEF FrameStart
<1>3. CASE IsDeposit(type)
  <2>1. type = <<"DEPOSIT", type[2]>> /\ FrameStart(type) = DepositFrame(type[2])
    BY <1>1, <1>3 DEF IsDeposit, FrameStart
  <2>2. CASE type[2] \in {"ETHER", "ERC20"}
    <3>1. WordsSent(type) = <<"amount">>
      BY <2>1, <2>2 DEF WordsSent
    <3>2. S = {1}
      BY <3>1 DEF IsStatic, Dynamic
    <3>3. DepositFrame(type[2]) = 1
      BY <2>2 DEF DepositFrame, Values
    <3>4. QED
      BY <1>3, <2>1, <3>2, <3>3, FS_Singleton
  <2>3. CASE type[2] = "ERC721"
    <3>1. WordsSent(type) = <<"token_id", "base_layer_data", "exec_layer_data">>
      BY <2>1, <2>3 DEF WordsSent
    <3>2. S = {1}
      BY <3>1 DEF IsStatic, Dynamic
    <3>3. DepositFrame(type[2]) = 1
      BY <2>3 DEF DepositFrame, Values
    <3>4. QED
      BY <1>3, <2>1, <3>2, <3>3, FS_Singleton
  <2>4. CASE type[2] = "ERC1155_SINGLE"
    <3>1. WordsSent(type) = <<"token_id", "amount", "base_layer_data", "exec_layer_data">>
      BY <2>1, <2>4 DEF WordsSent
    <3>2. S = 1..2
      BY <3>1 DEF IsStatic, Dynamic
    <3>3. DepositFrame(type[2]) = 2
      BY <2>4 DEF DepositFrame, Values
    <3>4. Cardinality(1..2) = 2
      <4>1. 1..2 = {1} \cup {2} /\ 2 \notin {1}
        OBVIOUS
      <4>2. IsFiniteSet({1}) /\ Cardinality({1}) = 1
        BY FS_Singleton
      <4>3. Cardinality({1} \cup {2}) = Cardinality({1}) + 1
        BY <4>1, <4>2, FS_AddElement
      <4>4. QED
        BY <4>1, <4>2, <4>3
    <3>5. QED
      BY <1>3, <2>1, <3>2, <3>3, <3>4
  <2>5. CASE type[2] = "ERC1155_BATCH"
    <3>1. WordsSent(type) = <<"token_ids", "amounts", "base_layer_data", "exec_layer_data">>
      BY <2>1, <2>5 DEF WordsSent
    <3>2. S = {}
      BY <3>1 DEF IsStatic, Dynamic
    <3>3. DepositFrame(type[2]) = 0
      BY <2>5 DEF DepositFrame
    <3>4. QED
      BY <1>3, <2>1, <3>2, <3>3, FS_EmptySet
  <2>6. QED
    BY <1>1, <2>2, <2>3, <2>4, <2>5 DEF TokenKinds
<1>4. QED
  BY <1>2, <1>3

LEMMA HeadsAreLaid ==
  ASSUME NEW type \in InputTypes
  PROVE  WellLaid(type, WordsSent(type))
  BY TypesAre, DepositsLaid, WithdrawalsLaid, TransfersLaid

-----------------------------------------------------------------------------
(* The words of an input. *)

LEMMA IndexIn ==
  ASSUME NEW s, NEW e, \E k \in DOMAIN s : s[k] = e
  PROVE  IndexOf(s, e) \in DOMAIN s /\ s[IndexOf(s, e)] = e
  BY DEF IndexOf

\* In both orders of the blocks there is one for each word of the head.
LEMMA BothOrders ==
  ASSUME NEW S, NEW head \in Seq(S), NEW backwards \in BOOLEAN,
         \A j, k \in 1..Len(head) : head[j] = head[k] => j = k
  PROVE  /\ DOMAIN Ordered(head, backwards) = 1..Len(head)
         /\ \A k \in 1..Len(head) : \E j \in 1..Len(head) : Ordered(head, backwards)[j] = head[k]
         /\ \A j \in 1..Len(head) : \E k \in 1..Len(head) : Ordered(head, backwards)[j] = head[k]
         /\ \A j \in 1..Len(head) : IndexOf(Ordered(head, backwards), Ordered(head, backwards)[j]) = j
<1> DEFINE order == Ordered(head, backwards)
<1>1. PICK n \in Nat : n = Len(head)
  OBVIOUS
<1>2. DOMAIN head = 1..n
  BY <1>1
<1>3. CASE ~backwards
  <2>1. order = head
    BY <1>3 DEF Ordered
  <2>2. \A j \in 1..n : IndexOf(head, head[j]) = j
    BY <1>1, <1>2, IndexAt
  <2>3. QED
    BY <1>1, <1>2, <2>1, <2>2
<1>4. CASE backwards
  <2>1. DOMAIN order = 1..n /\ \A j \in 1..n : order[j] = head[n - j + 1]
    BY <1>1, <1>4 DEF Ordered, Reverse
  <2>2. \A j \in 1..n : n - j + 1 \in 1..n /\ n - (n - j + 1) + 1 = j
    OBVIOUS
  <2> HIDE DEF order
  <2>3. \A j, k \in 1..n : order[j] = order[k] => j = k
    <3> SUFFICES ASSUME NEW j \in 1..n, NEW k \in 1..n, order[j] = order[k] PROVE j = k
      OBVIOUS
    <3>1. n - j + 1 = n - k + 1
      BY <1>1, <2>1, <2>2
    <3>2. QED
      BY <3>1
  <2>4. \A j \in 1..n : IndexOf(order, order[j]) = j
    BY <2>1, <2>3, IndexAt
  <2>5. \A k \in 1..n : order[n - k + 1] = head[k]
    BY <2>1, <2>2
  <2>6. QED
    BY <1>1, <2>1, <2>2, <2>4, <2>5 DEF order
<1>5. QED
  BY <1>3, <1>4

AllWords(args) == WordsOf(args) \cup Int

\* Data after the head, without an offset.
LeftOf(type, args) == IF HasPackedData(type) THEN args["exec_layer_data"] ELSE <<>>

\* What word k of the head leads to: a block that ends before `end`.
BlockSent(type, args, words, k, end) ==
  LET at_  == BlockAt(words, FrameStart(type), k)
      list == args[WordsSent(type)[k]]
  IN  /\ Len(list) \in Nat /\ at_ \in Nat /\ at_ > Len(WordsSent(type))
      /\ at_ + Len(list) <= end
      /\ words[at_] = Len(list)
      /\ \A j \in 1..Len(list) : words[at_ + j] = list[j]

\* The head, blocks of length l, then what is left.
InputLaid(type, args, words, l) ==
  LET head == WordsSent(type)
      n    == Len(head)
      left == LeftOf(type, args)
  IN  /\ words \in Seq(AllWords(args))
      /\ Len(words) = n + l + Len(left)
      /\ \A k \in 1..n : IsStatic(head[k]) => words[k] = args[head[k]]
      /\ \A k \in 1..n : IsDynamic(head[k]) => BlockSent(type, args, words, k, n + l)
      /\ \/ l = 0
         \/ \E k \in 1..n : /\ IsDynamic(head[k])
                            /\ BlockAt(words, FrameStart(type), k) + Len(args[head[k]]) = n + l
      /\ \A k \in 1..Len(left) : words[n + l + k] = left[k]

LEMMA ThreeParts ==
  ASSUME NEW S, NEW a \in Seq(S), NEW b \in Seq(S), NEW c \in Seq(S)
  PROVE  /\ (a \o b) \o c \in Seq(S)
         /\ Len((a \o b) \o c) = Len(a) + Len(b) + Len(c)
         /\ \A k \in 1..Len(a) : ((a \o b) \o c)[k] = a[k]
         /\ \A k \in 1..Len(b) : ((a \o b) \o c)[Len(a) + k] = b[k]
         /\ \A k \in 1..Len(c) : ((a \o b) \o c)[Len(a) + Len(b) + k] = c[k]
<1> DEFINE ab == a \o b
<1>1. PICK m \in Nat, n \in Nat, o \in Nat : m = Len(a) /\ n = Len(b) /\ o = Len(c)
  OBVIOUS
<1>2. /\ ab \in Seq(S) /\ Len(ab) = Len(a) + Len(b)
      /\ \A k \in 1..(Len(a) + Len(b)) : ab[k] = IF k <= Len(a) THEN a[k] ELSE b[k - Len(a)]
  BY ConcatProperties
<1>3. \A k \in 1..Len(b) : ab[Len(a) + k] = b[k]
  BY AfterBefore
<1>11. ab \in Seq(S)
  BY <1>2
<1> HIDE DEF ab
<1>4. /\ ab \o c \in Seq(S) /\ Len(ab \o c) = Len(ab) + Len(c)
      /\ \A k \in 1..(Len(ab) + Len(c)) : (ab \o c)[k] = IF k <= Len(ab) THEN ab[k] ELSE c[k - Len(ab)]
  BY <1>11, ConcatProperties
<1>5. \A k \in 1..Len(c) : (ab \o c)[Len(ab) + k] = c[k]
  BY <1>11, AfterBefore
<1>6. \A k \in 1..m : k \in 1..(m + n) /\ k \in 1..(m + n + o) /\ k <= m /\ k <= m + n
  OBVIOUS
<1>7. \A k \in 1..n : m + k \in 1..(m + n + o) /\ m + k <= m + n
  OBVIOUS
<1>8. \A k \in 1..m : (ab \o c)[k] = a[k]
  BY <1>1, <1>2, <1>4, <1>6
<1>9. \A k \in 1..n : (ab \o c)[m + k] = b[k]
  BY <1>1, <1>2, <1>3, <1>4, <1>7
<1>10. QED
  BY <1>1, <1>2, <1>4, <1>5, <1>8, <1>9 DEF ab

\* A sequence made of three, one after the other.
InThreeParts(S, s, a, b, c) ==
  /\ s \in Seq(S) /\ Len(s) = Len(a) + Len(b) + Len(c)
  /\ \A k \in 1..Len(a) : s[k] = a[k]
  /\ \A k \in 1..Len(b) : s[Len(a) + k] = b[k]
  /\ \A k \in 1..Len(c) : s[Len(a) + Len(b) + k] = c[k]

LEMMA ThreeJoined ==
  ASSUME NEW S, NEW a \in Seq(S), NEW b \in Seq(S), NEW c \in Seq(S),
         NEW s, s = (a \o b) \o c
  PROVE  InThreeParts(S, s, a, b, c)
<1> DEFINE t == (a \o b) \o c
<1>1. InThreeParts(S, t, a, b, c)
  BY ThreeParts DEF InThreeParts
<1>2. s = t
  OBVIOUS
<1> HIDE DEF t
<1>3. QED
  BY <1>1, <1>2

LEMMA InputParts ==
  ASSUME NEW type \in InputTypes, NEW args, NEW backwards \in BOOLEAN
  PROVE  /\ InputOf(type, args, backwards).selector = IF IsDeposit(type) THEN None ELSE type
         /\ InputOf(type, args, backwards).packed = [k \in DOMAIN Packed(type) |-> args[Packed(type)[k]]]
         /\ InputOf(type, args, backwards).words
              = AbiWords(FrameStart(type), WordsSent(type), args, backwards) \o LeftOf(type, args)
<1>1. Packed(type) = IF IsDeposit(type) THEN PackedSent(type[2]) ELSE <<>>
  BY HeadsAreSent
<1>2. LeftOf(type, args) = IF IsDeposit(type) /\ type[2] \in {"ETHER", "ERC20"}
                           THEN args["exec_layer_data"] ELSE <<>>
  BY DEF LeftOf, HasPackedData, DataIsPacked
<1>3. FrameStart(type) =
        IF IsDeposit(type)
        THEN Cardinality({j \in DOMAIN WordsSent(type) : IsStatic(WordsSent(type)[j])}) ELSE 0
  BY FramesAreSent
<1>4. QED
  BY <1>1, <1>2, <1>3 DEF InputOf, Payload

LEMMA InputWords ==
  ASSUME NEW type \in InputTypes, NEW args, AreFields(args), NEW backwards \in BOOLEAN
  PROVE  \E l \in Nat : InputLaid(type, args, InputOf(type, args, backwards).words, l)
<1> DEFINE head     == WordsSent(type)
           n        == Len(head)
           frame    == FrameStart(type)
           order    == Ordered(head, backwards)
           B(j)     == AbiBlocks(args, order, j)
           Start(f) == Len(B(IndexOf(order, f) - 1))
           first    == [j \in 1..n |-> IF IsDynamic(head[j]) THEN n - frame + Start(head[j])
                                       ELSE args[head[j]]]
           blocks   == B(n)
           left     == LeftOf(type, args)
           words    == (first \o blocks) \o left
           l        == Len(blocks)
           A        == AllWords(args)
<1>1. InputOf(type, args, backwards).words = words
  BY InputParts DEF AbiWords
<1>2. /\ head \in Seq(FieldNames) /\ n \in Nat \ {0}
      /\ \A j, k \in 1..n : head[j] = head[k] => j = k
  BY HeadsAreLaid DEF WellLaid
<1>3. frame \in Nat
  BY FramesAreSent
<1>4. /\ \A k \in 1..n : \E j \in 1..n : order[j] = head[k]
      /\ \A j \in 1..n : \E k \in 1..n : order[j] = head[k]
      /\ \A j \in 1..n : IndexOf(order, order[j]) = j
  BY <1>2, BothOrders
<1>5. blocks \in Seq(WordsOf(args)) /\ WordsOf(args) \subseteq A
  BY <1>2, BlocksFollow DEF AllWords
<1>6. blocks \in Seq(A)
  BY <1>5, SeqWider
<1>7. left \in Seq(A)
  <2>1. left \in Seq(WordsOf(args))
    BY ListsAreWords DEF LeftOf, Dynamic
  <2>2. QED
    BY <1>5, <2>1, SeqWider
<1>8. \A k \in 1..n : IsDynamic(head[k]) =>
        /\ IndexOf(order, head[k]) \in 1..n /\ order[IndexOf(order, head[k])] = head[k]
        /\ Placed(args, order, n, IndexOf(order, head[k]))
  BY <1>2, <1>4, BlockPlace
<1>9. \A k \in 1..n : IsDynamic(head[k]) =>
        /\ Start(head[k]) \in Nat
        /\ Len(args[head[k]]) \in Nat
        /\ Len(B(IndexOf(order, head[k]))) = Start(head[k]) + 1 + Len(args[head[k]])
        /\ Start(head[k]) + 1 + Len(args[head[k]]) <= l
        /\ blocks[Start(head[k]) + 1] = Len(args[head[k]])
        /\ \A j \in 1..Len(args[head[k]]) : blocks[Start(head[k]) + 1 + j] = args[head[k]][j]
  <2> SUFFICES ASSUME NEW k \in 1..n, IsDynamic(head[k])
               PROVE  /\ Start(head[k]) \in Nat
                      /\ Len(args[head[k]]) \in Nat
                      /\ Len(B(IndexOf(order, head[k]))) = Start(head[k]) + 1 + Len(args[head[k]])
                      /\ Start(head[k]) + 1 + Len(args[head[k]]) <= l
                      /\ blocks[Start(head[k]) + 1] = Len(args[head[k]])
                      /\ \A j \in 1..Len(args[head[k]]) : blocks[Start(head[k]) + 1 + j] = args[head[k]][j]
    OBVIOUS
  <2>1. order[IndexOf(order, head[k])] = head[k] /\ Placed(args, order, n, IndexOf(order, head[k]))
    BY <1>8
  <2> HIDE DEF order, head, n
  <2>2. QED
    BY <2>1 DEF Placed
<1>10. \/ l = 0
       \/ \E k \in 1..n : IsDynamic(head[k]) /\ Start(head[k]) + 1 + Len(args[head[k]]) = l
  <2>1. l = 0 \/ \E j \in 1..n : IsDynamic(order[j]) /\ Len(B(j)) = l
    BY <1>2, BlocksEnd
  <2>2. ASSUME NEW j \in 1..n, IsDynamic(order[j]), Len(B(j)) = l
        PROVE  \E k \in 1..n : IsDynamic(head[k]) /\ Start(head[k]) + 1 + Len(args[head[k]]) = l
    <3>1. PICK k \in 1..n : order[j] = head[k]
      BY <1>4
    <3>2. IndexOf(order, head[k]) = j
      BY <1>4, <3>1
    <3> HIDE DEF head, n, order, B, Start, blocks, l
    <3>3. Len(B(j)) = Start(head[k]) + 1 + Len(args[head[k]])
      BY <1>9, <2>2, <3>1, <3>2
    <3>4. QED
      BY <2>2, <3>1, <3>3
  <2>3. QED
    BY <2>1, <2>2
<1>11. l \in Nat
  BY <1>6
<1>12. first \in Seq(A) /\ Len(first) = n
  <2>1. \A j \in 1..n : first[j] \in A
    <3> SUFFICES ASSUME NEW j \in 1..n PROVE first[j] \in A
      OBVIOUS
    <3>1. CASE IsDynamic(head[j])
      <4>1. n - frame + Start(head[j]) \in Int
        BY <1>2, <1>3, <1>9, <3>1
      <4> HIDE DEF head, n, Start
      <4>2. QED
        BY <3>1, <4>1 DEF AllWords
    <3>2. CASE ~IsDynamic(head[j])
      <4>1. head[j] \in FieldNames
        BY <1>2
      <4>2. args[head[j]] \in A
        BY <4>1 DEF AllWords, WordsOf
      <4> HIDE DEF head, n, Start, A
      <4>3. QED
        BY <3>2, <4>2
    <3>3. QED
      BY <3>1, <3>2
  <2>2. first \in [1..n -> A]
    <3>1. first = [j \in 1..n |-> first[j]]
      OBVIOUS
    <3> HIDE DEF A, first, n
    <3>2. QED
      BY <2>1, <3>1
  <2>3. n \in Nat
    BY <1>2
  <2> HIDE DEF A, first, head, n
  <2>4. QED
    BY <2>2, <2>3, LenProperties
<1>13. \A k \in 1..n : first[k] = IF IsDynamic(head[k]) THEN n - frame + Start(head[k]) ELSE args[head[k]]
  OBVIOUS
<1> HIDE DEF A, first, head, n, frame, order, B, Start, blocks, left, l
<1>14. /\ words \in Seq(A) /\ Len(words) = n + l + Len(left)
       /\ \A k \in 1..n : words[k] = first[k]
       /\ \A k \in 1..l : words[n + k] = blocks[k]
       /\ \A k \in 1..Len(left) : words[n + l + k] = left[k]
  <2>1. /\ words \in Seq(A) /\ Len(words) = Len(first) + Len(blocks) + Len(left)
        /\ \A k \in 1..Len(first) : words[k] = first[k]
        /\ \A k \in 1..Len(blocks) : words[Len(first) + k] = blocks[k]
        /\ \A k \in 1..Len(left) : words[Len(first) + Len(blocks) + k] = left[k]
    <3>1. first \in Seq(A)
      BY <1>12
    <3>2. words = (first \o blocks) \o left
      OBVIOUS
    <3> HIDE DEF words
    <3>3. InThreeParts(A, words, first, blocks, left)
      BY <3>1, <3>2, <1>6, <1>7, ThreeJoined
    <3>4. QED
      BY <3>3 DEF InThreeParts
  <2>2. Len(first) = n /\ Len(blocks) = l
    BY <1>12 DEF l
  <2> HIDE DEF words
  <2>3. QED
    BY <2>1, <2>2
<1> HIDE DEF words
<1>15. \A k \in 1..n : IsDynamic(head[k]) =>
         BlockAt(words, frame, k) = n + Start(head[k]) + 1
  BY <1>2, <1>3, <1>9, <1>13, <1>14 DEF BlockAt
<1>16. \A k \in 1..n : IsDynamic(head[k]) => BlockSent(type, args, words, k, n + l)
  <2> SUFFICES ASSUME NEW k \in 1..n, IsDynamic(head[k])
               PROVE  BlockSent(type, args, words, k, n + l)
    OBVIOUS
  <2>1. PICK s, m : s = Start(head[k]) /\ m = Len(args[head[k]])
    OBVIOUS
  <2>2. /\ s \in Nat /\ m \in Nat /\ s + 1 + m <= l
        /\ blocks[s + 1] = m /\ \A j \in 1..m : blocks[s + 1 + j] = args[head[k]][j]
    BY <1>9, <2>1
  <2>3. BlockAt(words, frame, k) = n + s + 1
    BY <1>15, <2>1
  <2>4. /\ s + 1 \in 1..l /\ n + (s + 1) = n + s + 1 /\ n + s + 1 + m <= n + l
        /\ n + s + 1 \in Nat /\ n + s + 1 > n
        /\ \A j \in 1..m : s + 1 + j \in 1..l /\ n + (s + 1 + j) = n + s + 1 + j
    BY <1>2, <1>11, <2>2
  <2>5. words[n + s + 1] = m /\ \A j \in 1..m : words[n + s + 1 + j] = args[head[k]][j]
    BY <1>14, <2>2, <2>4
  <2>6. QED
    BY <2>1, <2>2, <2>3, <2>4, <2>5 DEF BlockSent, frame, head, n
<1>17. \/ l = 0
       \/ \E k \in 1..n : IsDynamic(head[k]) /\ BlockAt(words, frame, k) + Len(args[head[k]]) = n + l
  <2>1. ASSUME NEW k \in 1..n, IsDynamic(head[k]), Start(head[k]) + 1 + Len(args[head[k]]) = l
        PROVE  BlockAt(words, frame, k) + Len(args[head[k]]) = n + l
    <3>1. PICK s \in Nat, m \in Nat : s = Start(head[k]) /\ m = Len(args[head[k]])
      BY <1>9, <2>1
    <3>2. BlockAt(words, frame, k) = n + s + 1 /\ s + 1 + m = l
      BY <1>15, <2>1, <3>1
    <3>3. n \in Nat
      BY <1>2
    <3>4. n + s + 1 + m = n + (s + 1 + m)
      BY <3>3
    <3>5. QED
      BY <3>1, <3>2, <3>4
  <2>2. QED
    BY <1>10, <2>1
<1>18. \A k \in 1..n : IsStatic(head[k]) => words[k] = args[head[k]]
  BY <1>13, <1>14 DEF IsStatic, IsDynamic
<1>19. InputLaid(type, args, words, l)
  BY <1>14, <1>16, <1>17, <1>18 DEF InputLaid, A, head, n, frame, left
<1>20. QED
  BY <1>1, <1>11, <1>19

-----------------------------------------------------------------------------
(* The first parts of an input. *)

LEMMA FirstOf ==
  ASSUME NEW S, NEW s \in Seq(S), NEW n \in 0..Len(s)
  PROVE  /\ SubSeq(s, 1, n) \in Seq(S) /\ Len(SubSeq(s, 1, n)) = n
         /\ \A k \in 1..n : SubSeq(s, 1, n)[k] = s[k]
<1>1. n \in Nat /\ Len(s) \in Nat /\ n <= Len(s)
  BY LenProperties
<1>2. \A k \in 1..n : k \in 1..Len(s) /\ 1 + k - 1 = k
  BY <1>1
<1>3. \A k \in 1..n : s[k] \in S
  BY <1>2
<1>4. /\ SubSeq(s, 1, n) \in Seq(S)
      /\ Len(SubSeq(s, 1, n)) = IF 1 <= n THEN n - 1 + 1 ELSE 0
      /\ \A k \in 1..(n - 1 + 1) : SubSeq(s, 1, n)[k] = s[1 + k - 1]
  BY <1>1, <1>3, SubSeqProperties
<1>5. n - 1 + 1 = n /\ (~(1 <= n) => n = 0)
  BY <1>1
<1>6. QED
  BY <1>2, <1>4, <1>5

Selectors(whole) == IF whole.selector = None THEN 0 ELSE 1

\* The first q packed parts and m words are there; words come last.
CutLaid(S, whole, p, n, q, m) ==
  /\ p.selector = whole.selector
  /\ q \in 0..Len(whole.packed) /\ Len(p.packed) = q
  /\ \A k \in 1..q : p.packed[k] = whole.packed[k]
  /\ m \in 0..Len(whole.words) /\ Len(p.words) = m /\ p.words \in Seq(S)
  /\ \A k \in 1..m : p.words[k] = whole.words[k]
  /\ q < Len(whole.packed) => m = 0
  /\ n = Selectors(whole) + q + m

LEMMA CutParts ==
  ASSUME NEW S, NEW whole, whole.packed \in Seq(S), whole.words \in Seq(S),
         whole.selector = None \/ Len(whole.packed) = 0,
         NEW n \in 0..Parts(whole), Selectors(whole) = 0 \/ n # 0
  PROVE  \E q, m \in Nat : CutLaid(S, whole, Cut(whole, n), n, q, m)
<1>1. PICK x \in Nat, w \in Nat, sel \in {0, 1} :
        x = Len(whole.packed) /\ w = Len(whole.words) /\ sel = Selectors(whole)
  BY DEF Selectors
<1>2. n \in 0..(sel + x + w) /\ (sel = 0 \/ x = 0) /\ (sel = 0 \/ n # 0)
  BY <1>1 DEF Parts, Selectors
<1>3. n \in Nat /\ n <= sel + x + w
  BY <1>2
<1> DEFINE q == IF n <= x THEN n ELSE x
           m == n - sel - q
<1>4. q = Min({n, x})
  BY <1>3, MinOfTwo
<1>5. q \in 0..x
  BY <1>3
<1>6. m \in 0..w
  <2>1. CASE sel = 0
    BY <1>3, <2>1
  <2>2. CASE sel = 1
    <3>1. x = 0 /\ n # 0
      BY <1>2, <2>2
    <3>2. QED
      BY <1>3, <2>2, <3>1
  <2>3. QED
    BY <2>1, <2>2
<1>7. q < x => m = 0
  BY <1>2, <1>3
<1>8. n = sel + q + m
  BY <1>3, <1>5
<1> HIDE DEF q, m
<1>9. /\ SubSeq(whole.packed, 1, q) \in Seq(S) /\ Len(SubSeq(whole.packed, 1, q)) = q
      /\ \A k \in 1..q : SubSeq(whole.packed, 1, q)[k] = whole.packed[k]
  BY <1>1, <1>5, FirstOf
<1>10. /\ SubSeq(whole.words, 1, m) \in Seq(S) /\ Len(SubSeq(whole.words, 1, m)) = m
       /\ \A k \in 1..m : SubSeq(whole.words, 1, m)[k] = whole.words[k]
  BY <1>1, <1>6, FirstOf
<1>11. ~(sel = 1 /\ n = 0)
  BY <1>2
<1>12. Cut(whole, n) = Payload(whole.selector, SubSeq(whole.packed, 1, q), SubSeq(whole.words, 1, m))
  BY <1>1, <1>4, <1>9, <1>11 DEF Cut, Selectors, m
<1>13. q \in Nat /\ m \in Nat
  BY <1>5, <1>6
<1>14. CutLaid(S, whole, Cut(whole, n), n, q, m)
  <2>1. PICK p, packed, words :
          p = Cut(whole, n) /\ packed = SubSeq(whole.packed, 1, q) /\ words = SubSeq(whole.words, 1, m)
    OBVIOUS
  <2>2. p.selector = whole.selector /\ p.packed = packed /\ p.words = words
    <3>1. p = Payload(whole.selector, packed, words)
      BY <1>12, <2>1, Zenon
    <3>2. QED
      BY <3>1 DEF Payload
  <2>3. q \in 0..Len(whole.packed) /\ m \in 0..Len(whole.words) /\ (q < Len(whole.packed) => m = 0)
        /\ n = Selectors(whole) + q + m
    BY <1>1, <1>5, <1>6, <1>7, <1>8
  <2>4. Len(packed) = q /\ \A k \in 1..q : packed[k] = whole.packed[k]
    BY <1>9, <2>1
  <2>5. words \in Seq(S) /\ Len(words) = m /\ \A k \in 1..m : words[k] = whole.words[k]
    BY <1>10, <2>1
  <2>6. CutLaid(S, whole, p, n, q, m)
    BY <2>2, <2>3, <2>4, <2>5 DEF CutLaid
  <2>7. QED
    BY <2>1, <2>6
<1>15. QED
  BY <1>13, <1>14

LEMMA CutToNothing ==
  ASSUME NEW whole, Selectors(whole) = 1
  PROVE  Cut(whole, 0) = Payload(Junk, <<>>, <<>>)
  BY DEF Cut, Selectors

-----------------------------------------------------------------------------
(* What a decoder reads. *)

\* Addresses are packed once each, and only in deposits.
PackedLaid(type, packed) ==
  /\ packed \in Seq({"token", "sender"}) /\ Len(packed) \in Nat
  /\ \A j \in 1..Len(packed) : IndexOf(packed, packed[j]) = j
  /\ IsDeposit(type) \/ Len(packed) = 0

LEMMA PackedAreLaid ==
  ASSUME NEW type \in InputTypes
  PROVE  PackedLaid(type, Packed(type))
<1>1. CASE ~IsDeposit(type)
  <2>1. Packed(type) = <<>>
    BY <1>1 DEF Packed
  <2>2. QED
    BY <1>1, <2>1 DEF PackedLaid
<1>2. CASE IsDeposit(type) /\ type[2] = "ETHER"
  <2> DEFINE t == <<"sender">>
  <2>1. Packed(type) = t
    BY <1>2, HeadsAreSent DEF PackedSent
  <2>2. t \in Seq({"token", "sender"}) /\ Len(t) = 1 /\ DOMAIN t = 1..1 /\ t[1] = "sender"
    OBVIOUS
  <2> HIDE DEF t
  <2>3. \A j \in 1..1 : IndexOf(t, t[j]) = j
    BY <2>2, IndexAt
  <2>4. QED
    BY <1>2, <2>1, <2>2, <2>3 DEF PackedLaid
<1>3. CASE IsDeposit(type) /\ type[2] # "ETHER"
  <2> DEFINE t == <<"token", "sender">>
  <2>1. Packed(type) = t
    BY <1>3, HeadsAreSent DEF PackedSent
  <2>2. t \in Seq({"token", "sender"}) /\ Len(t) = 2 /\ DOMAIN t = 1..2 /\ t[1] = "token" /\ t[2] = "sender"
    OBVIOUS
  <2> HIDE DEF t
  <2>3. \A j, k \in 1..2 : t[j] = t[k] => j = k
    BY <2>2
  <2>4. \A j \in 1..2 : IndexOf(t, t[j]) = j
    BY <2>2, <2>3, IndexAt
  <2>5. QED
    BY <1>3, <2>1, <2>2, <2>4 DEF PackedLaid
<1>4. QED
  BY <1>1, <1>2, <1>3

\* The packed fields, those of the head, and last of all the data.
ReadsLaid(type, reads, packed, head) ==
  /\ Len(reads) \in Nat \ {0} /\ DOMAIN reads = 1..Len(reads)
  /\ reads[Len(reads)] = "exec_layer_data"
  /\ \A f : f \in ToSet(reads) <=>
              f \in ToSet(packed) \/ f \in ToSet(head) \/ f = "exec_layer_data"

LEMMA InToSet ==
  ASSUME NEW S, NEW s \in Seq(S), NEW f
  PROVE  f \in ToSet(s) <=> \E k \in 1..Len(s) : s[k] = f
  BY DEF ToSet

LEMMA ReadsAreLaid ==
  ASSUME NEW type \in InputTypes
  PROVE  ReadsLaid(type, Reads(type), Packed(type), HeadWords(type))
<1> DEFINE a == Packed(type)
           b == HeadWords(type)
           c == IF HasPackedData(type) THEN <<"exec_layer_data">> ELSE <<>>
           reads == (a \o b) \o c
           S == FieldNames
<1>1. a \in Seq({"token", "sender"})
  BY PackedAreLaid DEF PackedLaid
<1>2. a \in Seq(S)
  BY <1>1, SeqWider DEF FieldNames
<1>3. b = WordsSent(type)
  BY HeadsAreSent
<1>4. /\ b \in Seq(S) /\ Len(b) \in Nat \ {0}
      /\ ~HasPackedData(type) => b[Len(b)] = "exec_layer_data"
  BY <1>3, HeadsAreLaid DEF WellLaid
<1>5. /\ c \in Seq(S)
      /\ HasPackedData(type) => Len(c) = 1 /\ c[1] = "exec_layer_data"
      /\ ~HasPackedData(type) => Len(c) = 0
  BY DEF FieldNames, Dynamic
<1>6. b \in Seq(S)
  BY <1>4
<1>7. c \in Seq(S)
  BY <1>5
<1>8. Reads(type) = reads
  BY DEF Reads
<1> HIDE DEF a, b, c, S
<1>9. /\ reads \in Seq(S) /\ Len(reads) = Len(a) + Len(b) + Len(c)
      /\ \A k \in 1..Len(a) : reads[k] = a[k]
      /\ \A k \in 1..Len(b) : reads[Len(a) + k] = b[k]
      /\ \A k \in 1..Len(c) : reads[Len(a) + Len(b) + k] = c[k]
  <2>1. reads = (a \o b) \o c
    OBVIOUS
  <2> HIDE DEF reads
  <2>2. InThreeParts(S, reads, a, b, c)
    BY <2>1, <1>2, <1>6, <1>7, ThreeJoined
  <2>3. QED
    BY <2>2 DEF InThreeParts
<1> HIDE DEF reads
<1>10. PICK x \in Nat, y \in Nat, z \in Nat : x = Len(a) /\ y = Len(b) /\ z = Len(c)
  BY <1>2, <1>6, <1>7
<1>11. y # 0
  BY <1>4, <1>10
<1>12. Len(reads) = x + y + z
  BY <1>9, <1>10
<1>13. z \in {0, 1}
  BY <1>5, <1>10
<1>14. reads[x + y + z] = "exec_layer_data"
  <2>1. CASE HasPackedData(type)
    <3>1. z = 1 /\ c[1] = "exec_layer_data"
      BY <1>5, <1>10, <2>1
    <3>2. QED
      BY <1>9, <1>10, <3>1
  <2>2. CASE ~HasPackedData(type)
    <3>1. z = 0 /\ b[y] = "exec_layer_data"
      BY <1>4, <1>5, <1>10, <2>2
    <3>2. y \in 1..y /\ x + y + z = x + y
      BY <1>11, <3>1
    <3>3. reads[x + y] = b[y]
      BY <1>9, <1>10, <3>2
    <3>4. QED
      BY <3>1, <3>2, <3>3
  <2>3. QED
    BY <2>1, <2>2
<1>15. ASSUME NEW f
       PROVE  f \in ToSet(reads) <=> f \in ToSet(a) \/ f \in ToSet(b) \/ f = "exec_layer_data"
  <2>1. /\ f \in ToSet(reads) <=> \E k \in 1..(x + y + z) : reads[k] = f
        /\ f \in ToSet(a) <=> \E k \in 1..x : a[k] = f
        /\ f \in ToSet(b) <=> \E k \in 1..y : b[k] = f
    <3>1. reads \in Seq(S)
      BY <1>9
    <3>2. QED
      BY <1>2, <1>6, <1>10, <1>12, <3>1, InToSet
  <2>2. ASSUME NEW k \in 1..(x + y + z)
        PROVE  \/ k \in 1..x /\ reads[k] = a[k]
               \/ k - x \in 1..y /\ reads[k] = b[k - x]
               \/ k = x + y + z /\ z = 1
    <3>1. CASE k <= x
      BY <1>9, <1>10, <3>1
    <3>2. CASE k > x /\ k <= x + y
      <4>1. k - x \in 1..y /\ x + (k - x) = k
        BY <3>2
      <4>2. QED
        BY <1>9, <1>10, <4>1
    <3>3. CASE k > x + y
      BY <1>13, <3>3
    <3>4. QED
      BY <3>1, <3>2, <3>3
  <2>3. \A k \in 1..x : k \in 1..(x + y + z) /\ reads[k] = a[k]
    BY <1>9, <1>10
  <2>4. \A k \in 1..y : x + k \in 1..(x + y + z) /\ reads[x + k] = b[k]
    BY <1>9, <1>10
  <2>5. x + y + z \in 1..(x + y + z)
    BY <1>11
  <2>6. QED
    BY <1>14, <2>1, <2>2, <2>3, <2>4, <2>5
<1>16. x + y + z \in Nat \ {0}
  BY <1>11
<1>17. DOMAIN reads = 1..Len(reads)
  BY <1>9
<1>18. QED
  BY <1>8, <1>12, <1>14, <1>15, <1>16, <1>17 DEF ReadsLaid, a, b

LEMMA ReadsFields ==
  ASSUME NEW type \in InputTypes
  PROVE  ToSet(Reads(type)) \subseteq FieldNames
<1>1. \A f : f \in ToSet(Reads(type)) <=>
               f \in ToSet(Packed(type)) \/ f \in ToSet(HeadWords(type)) \/ f = "exec_layer_data"
  BY ReadsAreLaid DEF ReadsLaid
<1>2. Packed(type) \in Seq({"token", "sender"})
  BY PackedAreLaid DEF PackedLaid
<1>3. HeadWords(type) \in Seq(FieldNames)
  BY HeadsAreSent, HeadsAreLaid DEF WellLaid
<1>4. ToSet(Packed(type)) \subseteq {"token", "sender"} /\ ToSet(HeadWords(type)) \subseteq FieldNames
  BY <1>2, <1>3 DEF ToSet
<1>5. QED
  BY <1>1, <1>4 DEF FieldNames, Dynamic

\* Every field is there.
AllReadable(type, p) == \A f \in ToSet(Reads(type)) : Readable(type, p, f)

\* A decoder goes on to the end just if every field is there, and lists match.
LEMMA StopsAtEnd ==
  ASSUME NEW type \in InputTypes, NEW p,
         type[2] = "ERC1155_BATCH" => "amounts" \in ToSet(Reads(type))
  PROVE  IF AllReadable(type, p) /\ ~ListsMismatch(type, p)
         THEN StopAt(type, p) = Len(Reads(type)) + 1
         ELSE StopAt(type, p) \in 1..Len(Reads(type))
<1> DEFINE reads    == Reads(type)
           n        == Len(reads)
           failing  == {j \in DOMAIN reads : ~Readable(type, p, reads[j])}
           mismatch == IF ListsMismatch(type, p) THEN {IndexOf(reads, "amounts") + 1} ELSE {}
           stops    == failing \cup mismatch \cup {n + 1}
<1>1. /\ Len(reads) \in Nat \ {0} /\ DOMAIN reads = 1..Len(reads)
      /\ reads[Len(reads)] = "exec_layer_data"
  BY ReadsAreLaid DEF ReadsLaid
<1>2. StopAt(type, p) = Min(stops)
  BY DEF StopAt
<1>3. ListsMismatch(type, p) => IndexOf(reads, "amounts") + 1 \in 1..Len(reads)
  <2> SUFFICES ASSUME ListsMismatch(type, p) PROVE IndexOf(reads, "amounts") + 1 \in 1..Len(reads)
    OBVIOUS
  <2>1. \E k \in DOMAIN reads : reads[k] = "amounts"
    BY DEF ListsMismatch, ToSet
  <2>2. IndexOf(reads, "amounts") \in 1..Len(reads) /\ reads[IndexOf(reads, "amounts")] = "amounts"
    BY <1>1, <2>1, IndexIn
  <2> HIDE DEF reads
  <2>3. IndexOf(reads, "amounts") # Len(reads)
    BY <1>1, <2>2
  <2>4. QED
    BY <1>1, <2>2, <2>3
<1>4. failing \subseteq 1..n
  BY <1>1
<1>5. mismatch \subseteq 1..n /\ (ListsMismatch(type, p) <=> mismatch # {})
  BY <1>3
<1>6. AllReadable(type, p) <=> failing = {}
  BY DEF AllReadable, ToSet
<1>11. n \in Nat \ {0}
  BY <1>1
<1> HIDE DEF reads, failing, mismatch, n
<1>7. stops \in SUBSET Nat /\ stops # {} /\ n + 1 \in stops
  BY <1>11, <1>4, <1>5
<1>8. CASE AllReadable(type, p) /\ ~ListsMismatch(type, p)
  <2>1. stops = {n + 1}
    BY <1>5, <1>6, <1>8
  <2>2. Min(stops) = n + 1
    BY <1>11, <1>7, <2>1, MinIs
  <2>3. QED
    BY <1>2, <1>8, <2>2 DEF reads, n
<1>9. CASE ~(AllReadable(type, p) /\ ~ListsMismatch(type, p))
  <2>1. PICK x \in stops : x \in 1..n
    BY <1>4, <1>5, <1>6, <1>9
  <2>2. Min(stops) \in stops /\ Min(stops) <= x
    BY <1>7, MinFound
  <2>3. \A y \in stops : y \in 1..n \/ y = n + 1
    BY <1>4, <1>5
  <2> HIDE DEF stops
  <2>4. Min(stops) \in 1..n
    <3>1. PICK y : y = Min(stops)
      OBVIOUS
    <3>2. (y \in 1..n \/ y = n + 1) /\ y <= x
      BY <2>2, <2>3, <3>1
    <3>3. y # n + 1
      BY <1>11, <2>1, <3>2
    <3>4. QED
      BY <3>1, <3>2, <3>3
  <2>5. QED
    BY <1>2, <1>9, <2>4 DEF reads, n
<1>10. QED
  BY <1>8, <1>9

\* Then it succeeds, and has written all it reads.
LEMMA DecodesAll ==
  ASSUME NEW type \in InputTypes, NEW p, SelectorError(type, p) = "SUCCESS",
         type[2] = "ERC1155_BATCH" => "amounts" \in ToSet(Reads(type))
  PROVE  /\ DecodeAs(type, p).error = "SUCCESS" <=>
              AllReadable(type, p) /\ ~ListsMismatch(type, p)
         /\ DecodeAs(type, p).error = "SUCCESS" => DecodeAs(type, p).written = ToSet(Reads(type))
<1> DEFINE n    == Len(Reads(type))
           stop == StopAt(type, p)
           all  == AllReadable(type, p) /\ ~ListsMismatch(type, p)
           out  == DecodeAs(type, p)
<1>1. n \in Nat \ {0} /\ DOMAIN Reads(type) = 1..n
  BY ReadsAreLaid DEF ReadsLaid
<1>2. IF all THEN stop = n + 1 ELSE stop \in 1..n
  BY StopsAtEnd
<1>3. out.error = (IF stop > n THEN "SUCCESS"
                   ELSE IF ListsMismatch(type, p) /\ stop > IndexOf(Reads(type), "amounts")
                   THEN "EINVAL" ELSE "ENOBUFS")
      /\ out.written = {Reads(type)[j] : j \in 1..(stop - 1)}
  BY DEF DecodeAs
<1> HIDE DEF n, stop, all, out
<1>4. stop > n <=> all
  BY <1>1, <1>2
<1>5. out.error = "SUCCESS" <=> all
  BY <1>3, <1>4
<1>6. all => 1..(stop - 1) = DOMAIN Reads(type)
  BY <1>1, <1>2
<1>7. all => out.written = ToSet(Reads(type))
  BY <1>3, <1>6 DEF ToSet
<1>8. QED
  BY <1>5, <1>7 DEF all, out

-----------------------------------------------------------------------------
(* What there is to read in the first parts of an input. *)

LEMMA ListRead ==
  ASSUME NEW S, NEW words \in Seq(S), NEW list \in Seq(S), NEW at_ \in Nat,
         at_ + Len(list) <= Len(words),
         \A j \in 1..Len(list) : words[at_ + j] = list[j]
  PROVE  SubSeq(words, at_ + 1, at_ + Len(list)) = list
<1>1. PICK n \in Nat, w \in Nat : n = Len(list) /\ w = Len(words)
  OBVIOUS
<1>2. at_ + n <= w /\ \A j \in 1..n : words[at_ + j] = list[j]
  BY <1>1
<1>3. at_ + 1 \in Int /\ at_ + n \in Int
  OBVIOUS
<1>4. \A j \in (at_ + 1)..(at_ + n) : j \in 1..w
  BY <1>2
<1>5. \A j \in (at_ + 1)..(at_ + n) : words[j] \in S
  BY <1>1, <1>4
<1>6. PICK s : s = SubSeq(words, at_ + 1, at_ + n)
  OBVIOUS
<1>7. /\ s \in Seq(S) /\ Len(s) = IF at_ + 1 <= at_ + n THEN at_ + n - (at_ + 1) + 1 ELSE 0
      /\ \A j \in 1..(at_ + n - (at_ + 1) + 1) : s[j] = words[at_ + 1 + j - 1]
  BY <1>3, <1>5, <1>6, SubSeqProperties
<1>8. at_ + n - (at_ + 1) + 1 = n /\ (~(at_ + 1 <= at_ + n) => n = 0)
      /\ \A j \in 1..n : at_ + 1 + j - 1 = at_ + j
  OBVIOUS
<1>9. Len(s) = n /\ \A j \in 1..n : s[j] = list[j]
  BY <1>2, <1>7, <1>8
<1>10. s \in Seq(S)
  BY <1>7
<1>11. s = list
  BY <1>1, <1>9, <1>10, SeqEqual
<1>12. QED
  BY <1>1, <1>6, <1>11

\* The first m words of an input.
FirstWords(S, words, all, m) ==
  /\ words \in Seq(S) /\ Len(words) = m /\ m \in 0..Len(all)
  /\ \A k \in 1..m : words[k] = all[k]

\* A block fits when it ends in time, and is then read as it was sent.
BlockThere(words, frame, k, list, fits) ==
  /\ BlockFits(words, frame, k) <=> fits
  /\ fits => Block(words, frame, k) = list

LEMMA BlocksThere ==
  ASSUME NEW type, NEW args, FrameStart(type) \in Nat, NEW all, NEW words, NEW m \in Nat,
         FirstWords(AllWords(args), words, all, m),
         NEW k \in 1..Len(WordsSent(type)), Len(WordsSent(type)) \in Nat,
         Len(WordsSent(type)) <= m,
         args[WordsSent(type)[k]] \in Seq(AllWords(args)),
         NEW end, BlockSent(type, args, all, k, end), end \in Nat, end <= Len(all)
  PROVE  BlockThere(words, FrameStart(type), k, args[WordsSent(type)[k]],
                    BlockAt(all, FrameStart(type), k) + Len(args[WordsSent(type)[k]]) <= m)
<1> DEFINE frame == FrameStart(type)
           list  == args[WordsSent(type)[k]]
           at_   == BlockAt(all, frame, k)
           n     == Len(WordsSent(type))
           l     == Len(list)
<1>1. /\ l \in Nat /\ at_ \in Nat /\ at_ > n /\ at_ + l <= end
      /\ all[at_] = l /\ \A j \in 1..l : all[at_ + j] = list[j]
  BY DEF BlockSent
<1>2. words \in Seq(AllWords(args)) /\ Len(words) = m /\ \A j \in 1..m : words[j] = all[j]
  BY DEF FirstWords
<1>3. n \in Nat /\ n <= m /\ k \in 1..n
  OBVIOUS
<1>4. BlockAt(words, frame, k) = at_
  <2>1. k \in 1..m
    BY <1>3
  <2>2. words[k] = all[k]
    BY <1>2, <2>1
  <2>3. QED
    BY <2>2 DEF BlockAt
<1>5. list \in Seq(AllWords(args))
  OBVIOUS
<1>6. BlockFits(words, frame, k) <=> at_ <= m /\ at_ + words[at_] <= m
  BY <1>2, <1>4 DEF BlockFits
<1>7. Block(words, frame, k) = SubSeq(words, at_ + 1, at_ + words[at_])
  BY <1>4 DEF Block
<1> HIDE DEF frame, list, at_, n, l
<1>8. at_ <= m => words[at_] = l
  <2>1. at_ <= m => at_ \in 1..m
    BY <1>1, <1>3
  <2>2. QED
    BY <1>1, <1>2, <2>1
<1>9. at_ + l <= m => at_ <= m
  BY <1>1
<1>10. BlockFits(words, frame, k) <=> at_ + l <= m
  BY <1>6, <1>8, <1>9
<1>11. ASSUME at_ + l <= m PROVE Block(words, frame, k) = list
  <2>1. \A j \in 1..l : at_ + j \in 1..m
    BY <1>1, <1>11
  <2>2. \A j \in 1..l : words[at_ + j] = list[j]
    BY <1>1, <1>2, <2>1
  <2>3. words \in Seq(AllWords(args)) /\ at_ \in Nat
    BY <1>1, <1>2
  <2>4. at_ + Len(list) <= Len(words) /\ \A j \in 1..Len(list) : words[at_ + j] = list[j]
    BY <1>2, <1>11, <2>2 DEF l
  <2>5. SubSeq(words, at_ + 1, at_ + Len(list)) = list
    BY <1>5, <2>3, <2>4, ListRead
  <2>6. words[at_] = l
    BY <1>8, <1>9, <1>11
  <2>7. QED
    BY <1>7, <2>5, <2>6 DEF l
<1>12. QED
  BY <1>10, <1>11 DEF BlockThere, frame, list, at_, l

-----------------------------------------------------------------------------
(* The fields of an input. *)

LEMMA PackedApart ==
  ASSUME NEW type \in InputTypes, NEW f \in ToSet(Packed(type))
  PROVE  f \notin ToSet(WordsSent(type))
<1>1. WellLaid(type, WordsSent(type)) /\ PackedLaid(type, Packed(type))
  BY HeadsAreLaid, PackedAreLaid
<1>2. Packed(type) \in Seq({"token", "sender"}) /\ (IsDeposit(type) \/ Len(Packed(type)) = 0)
  BY <1>1 DEF PackedLaid
<1>3. f \in {"token", "sender"} /\ IsDeposit(type)
  BY <1>2 DEF ToSet
<1>4. ASSUME NEW k \in DOMAIN WordsSent(type), WordsSent(type)[k] = f PROVE FALSE
  <2>1. k \in 1..Len(WordsSent(type))
    BY <1>1 DEF WellLaid
  <2>2. f # "sender" /\ (IsDeposit(type) => f # "token")
    BY <1>1, <1>4, <2>1 DEF WellLaid
  <2>3. QED
    BY <1>3, <2>2
<1>5. QED
  BY <1>4 DEF ToSet

\* Where a field of the head is looked for.
LEMMA ReadsHead ==
  ASSUME NEW type \in InputTypes, NEW p, NEW k \in 1..Len(WordsSent(type))
  PROVE  LET f == WordsSent(type)[k]
             n == Len(WordsSent(type))
         IN  /\ Readable(type, p, f) <=>
                  IF IsStatic(f) THEN k <= Len(p.words)
                  ELSE n <= Len(p.words) /\ BlockFits(p.words, FrameStart(type), k)
             /\ ValueRead(type, p, f) =
                  IF IsStatic(f) THEN p.words[k] ELSE Block(p.words, FrameStart(type), k)
<1> DEFINE head == WordsSent(type)
           n    == Len(head)
           f    == head[k]
<1>1. HeadWords(type) = head
  BY HeadsAreSent
<1>2. WellLaid(type, head) /\ PackedLaid(type, Packed(type))
  BY HeadsAreLaid, PackedAreLaid
<1> HIDE DEF head
<1>3. DOMAIN head = 1..n /\ \A i_, j \in 1..n : head[i_] = head[j] => i_ = j
  BY <1>2 DEF WellLaid
<1>4. k \in 1..n
  BY DEF head
<1>5. IndexOf(head, f) = k /\ f \in ToSet(head)
  BY <1>3, <1>4, IndexAt DEF ToSet
<1>6. f \notin ToSet(Packed(type))
  BY <1>5, PackedApart DEF head
<1> HIDE DEF f, n
<1>7. Readable(type, p, f) <=>
        IF IsStatic(f) THEN k <= Len(p.words)
        ELSE n <= Len(p.words) /\ BlockFits(p.words, FrameStart(type), k)
  BY <1>1, <1>5, <1>6 DEF Readable, IsStatic, IsDynamic, n
<1>8. ValueRead(type, p, f) =
        IF IsStatic(f) THEN p.words[k] ELSE Block(p.words, FrameStart(type), k)
  BY <1>1, <1>5, <1>6 DEF ValueRead, IsStatic, IsDynamic
<1>9. QED
  BY <1>7, <1>8 DEF f, n, head

LEMMA ReadsPacked ==
  ASSUME NEW type \in InputTypes, NEW p, NEW j \in 1..Len(Packed(type))
  PROVE  /\ Readable(type, p, Packed(type)[j]) <=> j <= Len(p.packed)
         /\ ValueRead(type, p, Packed(type)[j]) = p.packed[j]
<1> DEFINE packed == Packed(type)
           f == packed[j]
<1>1. PackedLaid(type, packed)
  BY PackedAreLaid
<1> HIDE DEF packed
<1>2. j \in 1..Len(packed)
  BY DEF packed
<1>3. DOMAIN packed = 1..Len(packed)
  BY <1>1 DEF PackedLaid
<1>4. IndexOf(packed, f) = j /\ f \in ToSet(packed)
  BY <1>1, <1>2, <1>3 DEF PackedLaid, ToSet
<1>8. HeadWords(type) = WordsSent(type)
  BY HeadsAreSent
<1>9. f \notin ToSet(HeadWords(type))
  BY <1>4, <1>8, PackedApart DEF packed
<1> HIDE DEF f
<1>5. Readable(type, p, f) <=> j <= Len(p.packed)
  BY <1>4, <1>9 DEF Readable, packed
<1>6. ValueRead(type, p, f) = p.packed[j]
  BY <1>4, <1>9 DEF ValueRead, packed
<1>7. QED
  BY <1>5, <1>6 DEF f, packed

LEMMA ReadsLeft ==
  ASSUME NEW type \in InputTypes, NEW p, HasPackedData(type)
  PROVE  LET n == Len(WordsSent(type)) IN
         /\ Readable(type, p, "exec_layer_data") <=> n <= Len(p.words)
         /\ ValueRead(type, p, "exec_layer_data") = SubSeq(p.words, n + 1, Len(p.words))
<1> DEFINE head == WordsSent(type)
           n    == Len(head)
<1>1. HeadWords(type) = head
  BY HeadsAreSent
<1>2. WellLaid(type, head) /\ PackedLaid(type, Packed(type))
  BY HeadsAreLaid, PackedAreLaid
<1> HIDE DEF head
<1>3. "exec_layer_data" \notin ToSet(head)
  <2> SUFFICES ASSUME NEW j \in DOMAIN head, head[j] = "exec_layer_data" PROVE FALSE
    BY DEF ToSet
  <2>1. IsStatic(head[j])
    BY <1>2 DEF WellLaid
  <2>2. QED
    BY <2>1 DEF IsStatic, Dynamic
<1>4. "exec_layer_data" \notin ToSet(Packed(type))
  <2>1. Packed(type) \in Seq({"token", "sender"})
    BY <1>2 DEF PackedLaid
  <2>2. QED
    BY <2>1 DEF ToSet
<1>5. Readable(type, p, "exec_layer_data") <=> n <= Len(p.words)
  BY <1>1, <1>3, <1>4 DEF Readable
<1>6. ValueRead(type, p, "exec_layer_data") = SubSeq(p.words, n + 1, Len(p.words))
  BY <1>1, <1>3, <1>4 DEF ValueRead
<1>7. QED
  BY <1>5, <1>6 DEF head

\* An input, and what was kept of it.
Received(type, args, whole, p, n, l, q, m) ==
  /\ InputLaid(type, args, whole.words, l)
  /\ whole.packed = [k \in DOMAIN Packed(type) |-> args[Packed(type)[k]]]
  /\ CutLaid(AllWords(args), whole, p, n, q, m)

LEMMA HeadThere ==
  ASSUME NEW type \in InputTypes, NEW args, AreFields(args), NEW whole, NEW p, NEW n,
         NEW l \in Nat, NEW q \in Nat, NEW m \in Nat,
         Received(type, args, whole, p, n, l, q, m),
         NEW k \in 1..Len(WordsSent(type))
  PROVE  LET f    == WordsSent(type)[k]
             head == Len(WordsSent(type))
             end  == BlockAt(whole.words, FrameStart(type), k) + Len(args[f])
         IN  /\ head \in Nat \ {0}
             /\ IsStatic(f) => /\ Readable(type, p, f) <=> k <= m
                               /\ k <= m => ValueRead(type, p, f) = args[f]
             /\ IsDynamic(f) => /\ Readable(type, p, f) <=> head <= m /\ end <= m
                                /\ head <= m /\ end <= m => ValueRead(type, p, f) = args[f]
                                /\ end \in Nat /\ end <= head + l
<1> DEFINE f     == WordsSent(type)[k]
           head  == Len(WordsSent(type))
           frame == FrameStart(type)
           words == whole.words
           end   == BlockAt(words, frame, k) + Len(args[f])
<1>1. head \in Nat \ {0}
  BY HeadsAreLaid DEF WellLaid
<1>2. frame \in Nat
  BY FramesAreSent
<1>3. /\ Len(words) = head + l + Len(LeftOf(type, args))
      /\ IsStatic(f) => words[k] = args[f]
      /\ IsDynamic(f) => BlockSent(type, args, words, k, head + l)
  BY DEF Received, InputLaid
<1>4. FirstWords(AllWords(args), p.words, words, m)
  BY DEF Received, CutLaid, FirstWords
<1>5. Len(p.words) = m /\ (k \in 1..m => p.words[k] = words[k])
  BY <1>4 DEF FirstWords
<1>6. /\ Readable(type, p, f) <=>
           IF IsStatic(f) THEN k <= Len(p.words)
           ELSE head <= Len(p.words) /\ BlockFits(p.words, frame, k)
      /\ ValueRead(type, p, f) = IF IsStatic(f) THEN p.words[k] ELSE Block(p.words, frame, k)
  BY ReadsHead
<1>7. k \in 1..head
  OBVIOUS
<1>8. CASE IsStatic(f)
  <2>1. ~IsDynamic(f)
    BY <1>8 DEF IsStatic, IsDynamic
  <2> HIDE DEF f, head, frame, words, end
  <2>2. k <= m => k \in 1..m
    BY <1>1, <1>7
  <2>3. QED
    BY <1>1, <1>3, <1>5, <1>6, <1>8, <2>1, <2>2 DEF f, head
<1>9. CASE IsDynamic(f)
  <2>1. ~IsStatic(f)
    BY <1>9 DEF IsStatic, IsDynamic
  <2>2. /\ Len(args[f]) \in Nat /\ BlockAt(words, frame, k) \in Nat
        /\ BlockAt(words, frame, k) + Len(args[f]) <= head + l
    BY <1>3, <1>9 DEF BlockSent
  <2>3. args[f] \in Seq(AllWords(args))
    <3>1. args[f] \in Seq(WordsOf(args))
      BY <1>9, ListsAreWords DEF IsDynamic
    <3>2. WordsOf(args) \subseteq AllWords(args)
      BY DEF AllWords
    <3> HIDE DEF f
    <3>3. QED
      BY <3>1, <3>2, SeqWider
  <2>4. Len(LeftOf(type, args)) \in Nat
    <3>1. LeftOf(type, args) \in Seq(WordsOf(args))
      BY ListsAreWords DEF LeftOf, Dynamic
    <3>2. QED
      BY <3>1
  <2>5. head + l \in Nat /\ head + l <= Len(words)
    BY <1>1, <1>3, <2>4
  <2>6. ASSUME head <= m PROVE BlockThere(p.words, frame, k, args[f], end <= m)
    BY <1>1, <1>2, <1>3, <1>4, <1>9, <2>3, <2>5, <2>6, BlocksThere
  <2>7. head <= m => /\ BlockFits(p.words, frame, k) <=> end <= m
                     /\ end <= m => Block(p.words, frame, k) = args[f]
    BY <2>6 DEF BlockThere
  <2>8. end \in Nat
    BY <2>2
  <2> HIDE DEF f, head, frame, words
  <2>9. QED
    BY <1>1, <1>5, <1>6, <2>1, <2>2, <2>7, <2>8 DEF f, head, frame, words
<1>10. QED
  BY <1>8, <1>9 DEF IsStatic, IsDynamic

LEMMA PackedThere ==
  ASSUME NEW type \in InputTypes, NEW args, NEW whole, NEW p, NEW n,
         NEW l \in Nat, NEW q \in Nat, NEW m \in Nat,
         Received(type, args, whole, p, n, l, q, m), m # 0,
         NEW f \in ToSet(Packed(type))
  PROVE  Readable(type, p, f) /\ ValueRead(type, p, f) = args[f]
<1> DEFINE packed == Packed(type)
<1>1. Len(packed) \in Nat /\ DOMAIN packed = 1..Len(packed)
  BY PackedAreLaid DEF PackedLaid
<1>2. PICK j \in 1..Len(packed) : packed[j] = f
  BY <1>1 DEF ToSet
<1>3. whole.packed = [k \in 1..Len(packed) |-> args[packed[k]]]
  BY <1>1 DEF Received
<1> HIDE DEF packed
<1>4. Len(whole.packed) = Len(packed) /\ whole.packed[j] = args[f]
  BY <1>1, <1>2, <1>3
<1>5. /\ q \in 0..Len(whole.packed) /\ Len(p.packed) = q
      /\ \A k \in 1..q : p.packed[k] = whole.packed[k]
      /\ q < Len(whole.packed) => m = 0
  BY DEF Received, CutLaid
<1>6. PICK x \in Nat : x = Len(packed)
  BY <1>1
<1>7. q = x
  <2>1. q \in 0..x /\ ~(q < x)
    BY <1>4, <1>5, <1>6
  <2>2. QED
    BY <2>1
<1>8. j \in 1..x /\ j <= q /\ j \in 1..q
  BY <1>6, <1>7
<1>9. p.packed[j] = args[f]
  BY <1>4, <1>5, <1>8
<1>10. Readable(type, p, packed[j]) <=> j <= Len(p.packed)
  BY ReadsPacked DEF packed
<1>11. ValueRead(type, p, packed[j]) = p.packed[j]
  BY ReadsPacked DEF packed
<1>12. QED
  BY <1>2, <1>5, <1>8, <1>9, <1>10, <1>11

LEMMA LeftThere ==
  ASSUME NEW type \in InputTypes, NEW args, AreFields(args), NEW whole, NEW p, NEW n,
         NEW l \in Nat, NEW q \in Nat, NEW m \in Nat,
         Received(type, args, whole, p, n, l, q, m), HasPackedData(type)
  PROVE  /\ Readable(type, p, "exec_layer_data") <=> Len(WordsSent(type)) <= m
         /\ Len(WordsSent(type)) <= m =>
              IsPrefix(ValueRead(type, p, "exec_layer_data"), args["exec_layer_data"])
<1> DEFINE head  == Len(WordsSent(type))
           data  == args["exec_layer_data"]
           words == whole.words
           A     == AllWords(args)
<1>1. head \in Nat \ {0} /\ \A k \in 1..head : IsStatic(WordsSent(type)[k])
  BY HeadsAreLaid DEF WellLaid
<1>2. LeftOf(type, args) = data
  BY DEF LeftOf
<1>3. l = 0
  <2>1. \/ l = 0
        \/ \E k \in 1..head : IsDynamic(WordsSent(type)[k])
    BY DEF Received, InputLaid
  <2>2. QED
    BY <1>1, <2>1 DEF IsStatic, IsDynamic
<1>4. /\ Len(words) = head + l + Len(data)
      /\ \A k \in 1..Len(data) : words[head + l + k] = data[k]
  BY <1>2 DEF Received, InputLaid
<1>5. Len(words) = head + Len(data) /\ \A k \in 1..Len(data) : words[head + k] = data[k]
  BY <1>1, <1>3, <1>4
<1>6. data \in Seq(A)
  <2>1. data \in Seq(WordsOf(args))
    BY ListsAreWords DEF Dynamic
  <2>2. QED
    BY <2>1, SeqWider DEF AllWords
<1>7. /\ m \in 0..Len(words) /\ Len(p.words) = m /\ p.words \in Seq(A)
      /\ \A k \in 1..m : p.words[k] = words[k]
  BY DEF Received, CutLaid
<1>8. /\ Readable(type, p, "exec_layer_data") <=> head <= m
      /\ ValueRead(type, p, "exec_layer_data") = SubSeq(p.words, head + 1, m)
  BY <1>7, ReadsLeft
<1>9. ASSUME head <= m PROVE IsPrefix(SubSeq(p.words, head + 1, m), data)
  <2> DEFINE d == m - head
  <2>1. d \in 0..Len(data)
    <3>1. PICK w \in Nat : w = Len(data)
      BY <1>6
    <3> HIDE DEF head, data, words
    <3>2. m <= head + w
      BY <1>5, <1>7, <3>1
    <3>3. QED
      BY <1>1, <1>9, <3>1, <3>2
  <2>2. m = head + d /\ d \in Nat /\ head \in Nat
    BY <1>1, <1>9
  <2>3. \A k \in 1..d : head + k \in 1..m /\ k \in 1..Len(data)
    <3>1. PICK w \in Nat : w = Len(data)
      BY <1>6
    <3> HIDE DEF head, data
    <3>2. QED
      BY <2>1, <2>2, <3>1
  <2> DEFINE list == SubSeq(data, 1, d)
  <2>4. list \in Seq(A) /\ Len(list) = d /\ \A k \in 1..d : list[k] = data[k]
    BY <1>6, <2>1, FirstOf
  <2> HIDE DEF head, data, words, A, d, list
  <2>5. \A k \in 1..d : p.words[head + k] = list[k]
    BY <1>5, <1>7, <2>3, <2>4
  <2>6. head + Len(list) <= Len(p.words)
    BY <1>7, <2>2, <2>4
  <2>7. p.words \in Seq(A) /\ list \in Seq(A) /\ Len(list) = d
    BY <1>7, <2>4
  <2>8. SubSeq(p.words, head + 1, head + Len(list)) = list
    BY <2>2, <2>5, <2>6, <2>7, ListRead
  <2>9. SubSeq(p.words, head + 1, m) = list
    BY <2>2, <2>7, <2>8
  <2>10. d <= Len(data)
    BY <2>1
  <2>11. SubSeq(list, 1, d) = list
    <3>1. d \in 0..Len(list)
      BY <2>2, <2>7
    <3>2. /\ SubSeq(list, 1, d) \in Seq(A) /\ Len(SubSeq(list, 1, d)) = d
          /\ \A k \in 1..d : SubSeq(list, 1, d)[k] = list[k]
      BY <2>7, <3>1, FirstOf
    <3>3. SubSeq(list, 1, d) \in Seq(A) /\ Len(SubSeq(list, 1, d)) = Len(list)
          /\ \A k \in 1..Len(SubSeq(list, 1, d)) : SubSeq(list, 1, d)[k] = list[k]
      BY <2>7, <3>2
    <3>4. QED
      BY <2>7, <3>3, SeqEqual
  <2>12. QED
    BY <2>7, <2>9, <2>10, <2>11 DEF IsPrefix, list
<1>10. QED
  BY <1>8, <1>9

\* All of what was sent was received, but for data that may be of any length.
AllSent(type, args, p) ==
  /\ \A f \in ToSet(Reads(type)) : f # "exec_layer_data" => ValueRead(type, p, f) = args[f]
  /\ IsPrefix(ValueRead(type, p, "exec_layer_data"), args["exec_layer_data"])

LEMMA PrefixOfItself == ASSUME NEW s PROVE IsPrefix(s, s) <=> Len(s) <= Len(s)
  BY DEF IsPrefix

LEMMA AllThere ==
  ASSUME NEW type \in InputTypes, NEW args, AreFields(args), NEW whole, NEW p, NEW n,
         NEW l \in Nat, NEW q \in Nat, NEW m \in Nat,
         Received(type, args, whole, p, n, l, q, m)
  PROVE  /\ AllReadable(type, p) <=> Len(WordsSent(type)) + l <= m
         /\ Len(WordsSent(type)) + l <= m => AllSent(type, args, p)
<1> DEFINE words == WordsSent(type)
           head  == Len(words)
           end(k) == BlockAt(whole.words, FrameStart(type), k) + Len(args[words[k]])
           data  == args["exec_layer_data"]
<1>1. /\ head \in Nat \ {0} /\ words \in Seq(FieldNames)
      /\ ~HasPackedData(type) => words[head] = "exec_layer_data"
  BY HeadsAreLaid DEF WellLaid
<1>2. \A f : f \in ToSet(Reads(type)) <=>
               f \in ToSet(Packed(type)) \/ f \in ToSet(words) \/ f = "exec_layer_data"
  BY ReadsAreLaid, HeadsAreSent DEF ReadsLaid
<1>3. \A k \in 1..head :
        /\ IsStatic(words[k]) => /\ Readable(type, p, words[k]) <=> k <= m
                                 /\ k <= m => ValueRead(type, p, words[k]) = args[words[k]]
        /\ IsDynamic(words[k]) =>
             /\ Readable(type, p, words[k]) <=> head <= m /\ end(k) <= m
             /\ head <= m /\ end(k) <= m => ValueRead(type, p, words[k]) = args[words[k]]
             /\ end(k) \in Nat /\ end(k) <= head + l
  BY HeadThere
<1>4. m # 0 => \A f \in ToSet(Packed(type)) : Readable(type, p, f) /\ ValueRead(type, p, f) = args[f]
  BY PackedThere
<1>5. HasPackedData(type) =>
        /\ Readable(type, p, "exec_layer_data") <=> head <= m
        /\ head <= m => IsPrefix(ValueRead(type, p, "exec_layer_data"), data)
  BY LeftThere
<1>6. \/ l = 0
      \/ \E k \in 1..head : IsDynamic(words[k]) /\ end(k) = head + l
  BY DEF Received, InputLaid
<1>7. Len(data) \in Nat
  <2>1. data \in Seq(WordsOf(args))
    BY ListsAreWords DEF Dynamic
  <2>2. QED
    BY <2>1
<1>8. \A f : f \in ToSet(words) <=> \E k \in 1..head : words[k] = f
  <2>1. words \in Seq(FieldNames)
    BY <1>1
  <2>2. QED
    BY <2>1, InToSet
<1> HIDE DEF words, head, end, data
<1>9. ASSUME head + l <= m
      PROVE  /\ \A f \in ToSet(words) : Readable(type, p, f) /\ ValueRead(type, p, f) = args[f]
             /\ Readable(type, p, "exec_layer_data")
             /\ IsPrefix(ValueRead(type, p, "exec_layer_data"), data)
  <2>1. head <= m
    BY <1>1, <1>9
  <2>2. ASSUME NEW f \in ToSet(words) PROVE Readable(type, p, f) /\ ValueRead(type, p, f) = args[f]
    <3>1. PICK k \in 1..head : words[k] = f
      BY <1>8
    <3>2. CASE IsStatic(f)
      <4>1. k <= m
        BY <1>1, <2>1
      <4>2. QED
        BY <1>3, <3>1, <3>2, <4>1
    <3>3. CASE IsDynamic(f)
      <4>1. end(k) \in Nat /\ end(k) <= head + l
        BY <1>3, <3>1, <3>3
      <4>2. end(k) <= m
        BY <1>1, <1>9, <4>1
      <4>3. QED
        BY <1>3, <2>1, <3>1, <3>3, <4>2
    <3>4. QED
      BY <3>2, <3>3 DEF IsStatic, IsDynamic
  <2>3. CASE HasPackedData(type)
    BY <1>5, <2>1, <2>2, <2>3
  <2>4. CASE ~HasPackedData(type)
    <3>1. "exec_layer_data" \in ToSet(words)
      BY <1>1, <1>8, <2>4
    <3>2. Readable(type, p, "exec_layer_data") /\ ValueRead(type, p, "exec_layer_data") = data
      BY <2>2, <3>1 DEF data
    <3>3. Len(data) <= Len(data)
      BY <1>7
    <3>4. IsPrefix(data, data)
      BY <3>3, PrefixOfItself
    <3>5. QED
      BY <2>2, <3>2, <3>4
  <2>5. QED
    BY <2>3, <2>4
<1>10. ASSUME head + l <= m PROVE AllReadable(type, p) /\ AllSent(type, args, p)
  <2>1. m # 0
    BY <1>1, <1>10
  <2>2. \A f \in ToSet(Reads(type)) : Readable(type, p, f)
    BY <1>2, <1>4, <1>9, <1>10, <2>1
  <2>3. \A f \in ToSet(Reads(type)) : f # "exec_layer_data" => ValueRead(type, p, f) = args[f]
    BY <1>2, <1>4, <1>9, <1>10, <2>1
  <2>4. QED
    BY <1>9, <1>10, <2>2, <2>3 DEF AllReadable, AllSent, data
<1>11. ASSUME AllReadable(type, p) PROVE head + l <= m
  <2>1. Readable(type, p, "exec_layer_data")
    BY <1>2, <1>11 DEF AllReadable
  <2>2. head <= m
    <3>1. CASE HasPackedData(type)
      BY <1>5, <2>1, <3>1
    <3>2. CASE ~HasPackedData(type)
      <4>1. head \in 1..head /\ words[head] = "exec_layer_data"
        BY <1>1, <3>2
      <4>2. IsDynamic(words[head])
        BY <4>1 DEF IsDynamic, Dynamic
      <4>3. QED
        BY <1>3, <2>1, <4>1, <4>2
    <3>3. QED
      BY <3>1, <3>2
  <2>3. ASSUME NEW k \in 1..head, IsDynamic(words[k]), end(k) = head + l PROVE head + l <= m
    <3>1. words[k] \in ToSet(Reads(type))
      BY <1>2, <1>8
    <3>2. Readable(type, p, words[k])
      BY <1>11, <3>1 DEF AllReadable
    <3>3. QED
      BY <1>3, <2>3, <3>2
  <2>4. l = 0 => head + l <= m
    BY <1>1, <2>2
  <2>5. QED
    BY <1>6, <2>3, <2>4
<1>12. QED
  BY <1>10, <1>11 DEF head, words

-----------------------------------------------------------------------------
(* The decoder an input is for. *)

Paired(type, args) ==
  type[2] = "ERC1155_BATCH" => Len(args["token_ids"]) = Len(args["amounts"])

WholeAt(type, args, whole, n) ==
  n >= Parts(whole) - (IF HasPackedData(type) THEN Len(args["exec_layer_data"]) ELSE 0)

LEMMA BatchReads ==
  ASSUME NEW type \in InputTypes, type[2] = "ERC1155_BATCH"
  PROVE  "token_ids" \in ToSet(Reads(type)) /\ "amounts" \in ToSet(Reads(type))
<1> DEFINE words == WordsSent(type)
<1>1. /\ words \in Seq(FieldNames)
      /\ \E k \in 1..Len(words) : words[k] = "token_ids"
      /\ \E k \in 1..Len(words) : words[k] = "amounts"
  BY HeadsAreLaid DEF WellLaid
<1> HIDE DEF words
<1>2. words \in Seq(FieldNames)
  BY <1>1
<1>3. "token_ids" \in ToSet(words) /\ "amounts" \in ToSet(words)
  BY <1>1, <1>2, InToSet
<1>4. QED
  BY <1>3, ReadsAreLaid, HeadsAreSent DEF ReadsLaid, words

\* Lists that are read are as long as those that were sent.
LEMMA MatchesWhenPaired ==
  ASSUME NEW type \in InputTypes, NEW args, NEW p, AllReadable(type, p), AllSent(type, args, p)
  PROVE  ~ListsMismatch(type, p) <=> Paired(type, args)
<1>1. CASE type[2] # "ERC1155_BATCH"
  BY <1>1 DEF ListsMismatch, Paired
<1>2. CASE type[2] = "ERC1155_BATCH"
  <2>1. "token_ids" \in ToSet(Reads(type)) /\ "amounts" \in ToSet(Reads(type))
    BY <1>2, BatchReads
  <2>2. Readable(type, p, "token_ids") /\ Readable(type, p, "amounts")
    BY <2>1 DEF AllReadable
  <2>3. ValueRead(type, p, "token_ids") = args["token_ids"]
        /\ ValueRead(type, p, "amounts") = args["amounts"]
    BY <2>1 DEF AllSent
  <2>4. QED
    BY <1>2, <2>2, <2>3 DEF ListsMismatch, Paired
<1>3. QED
  BY <1>1, <1>2

\* What the decoder returns is just what was sent.
OwnDecoded(type, args, whole, p, n, out) ==
  /\ out.error = "SUCCESS" <=> WholeAt(type, args, whole, n) /\ Paired(type, args)
  /\ out.error = "SUCCESS" =>
       /\ out.written = ToSet(Reads(type)) /\ AllSent(type, args, p)
       /\ p.selector = whole.selector

LEMMA OwnDecoder ==
  ASSUME NEW type \in InputTypes, NEW args, AreFields(args), NEW backwards \in BOOLEAN,
         NEW whole, whole = InputOf(type, args, backwards),
         NEW n \in 0..Parts(whole), NEW p, p = Cut(whole, n)
  PROVE  OwnDecoded(type, args, whole, p, n, DecodeAs(type, p))
<1> DEFINE words == WordsSent(type)
           head  == Len(words)
           left  == Len(LeftOf(type, args))
           x     == Len(Packed(type))
           sel   == IF IsDeposit(type) THEN 0 ELSE 1
           A     == AllWords(args)
           out   == DecodeAs(type, p)
           all   == WholeAt(type, args, whole, n)
<1>1. /\ whole.selector = IF IsDeposit(type) THEN None ELSE type
      /\ whole.packed = [k \in DOMAIN Packed(type) |-> args[Packed(type)[k]]]
  BY InputParts
<1>2. PICK l \in Nat : InputLaid(type, args, whole.words, l)
  BY InputWords
<1>3. None \notin InputTypes /\ type # None /\ type # Junk
  BY JunkAssumption DEF None, InputTypes
<1>4. Selectors(whole) = sel
  BY <1>1, <1>3 DEF Selectors
<1>5. PackedLaid(type, Packed(type))
  BY PackedAreLaid
<1>6. x \in Nat /\ DOMAIN Packed(type) = 1..x /\ (sel = 0 \/ x = 0) /\ sel \in {0, 1}
  BY <1>5 DEF PackedLaid
<1>7. whole.packed \in Seq(A) /\ Len(whole.packed) = x
  <2>1. \A k \in 1..x : args[Packed(type)[k]] \in A
    <3> SUFFICES ASSUME NEW k \in 1..x PROVE args[Packed(type)[k]] \in A
      OBVIOUS
    <3>1. Packed(type) \in Seq({"token", "sender"})
      BY <1>5 DEF PackedLaid
    <3>2. Packed(type)[k] \in FieldNames
      BY <1>6, <3>1 DEF FieldNames
    <3>3. QED
      BY <3>2 DEF AllWords, WordsOf
  <2>2. whole.packed = [k \in 1..x |-> args[Packed(type)[k]]]
    BY <1>1, <1>6
  <2> HIDE DEF x, A
  <2>3. whole.packed \in [1..x -> A]
    BY <2>1, <2>2
  <2>4. QED
    BY <1>6, <2>3
<1>8. head \in Nat \ {0}
  BY HeadsAreLaid DEF WellLaid
<1>9. LeftOf(type, args) \in Seq(WordsOf(args)) /\ left \in Nat
  BY ListsAreWords DEF LeftOf, Dynamic
<1>10. whole.words \in Seq(A) /\ Len(whole.words) = head + l + left
  BY <1>2 DEF InputLaid
<1>11. Parts(whole) = sel + x + (head + l + left)
  BY <1>4, <1>7, <1>10 DEF Parts, Selectors
<1>12. all <=> n >= (sel + x + (head + l + left)) - left
  <2>1. left = IF HasPackedData(type) THEN Len(args["exec_layer_data"]) ELSE 0
    BY DEF LeftOf
  <2> HIDE DEF left, head, x, sel
  <2>2. all <=> n >= Parts(whole) - left
    BY <2>1, Zenon DEF WholeAt
  <2> HIDE DEF all
  <2>3. QED
    BY <1>11, <2>2, Zenon
<1>13. n \in Nat
  <2> HIDE DEF left, head, x
  <2>1. sel + x + (head + l + left) \in Nat
    BY <1>6, <1>8, <1>9
  <2>2. QED
    BY <1>11, <2>1
<1>14. CASE sel = 1 /\ n = 0
  <2>1. p = Payload(Junk, <<>>, <<>>)
    BY <1>4, <1>14, CutToNothing
  <2>2. SelectorError(type, p) = "ENOBUFS"
    BY <1>3, <1>14, <2>1 DEF SelectorError, Payload
  <2>3. out.error # "SUCCESS"
    BY <2>2 DEF DecodeAs
  <2> HIDE DEF left, head, x, sel, all, out
  <2>4. ~all
    BY <1>6, <1>8, <1>9, <1>12, <1>14
  <2>5. QED
    BY <2>3, <2>4 DEF OwnDecoded, all, out
<1>15. CASE ~(sel = 1 /\ n = 0)
  <2>1. whole.selector = None \/ Len(whole.packed) = 0
    BY <1>1, <1>6, <1>7
  <2>2. Selectors(whole) = 0 \/ n # 0
    BY <1>4, <1>15
  <2>3. whole.packed \in Seq(A) /\ whole.words \in Seq(A)
    BY <1>7, <1>10
  <2> HIDE DEF A
  <2>4. PICK q \in Nat, m \in Nat : CutLaid(A, whole, p, n, q, m)
    BY <2>1, <2>2, <2>3, CutParts
  <2>5. Received(type, args, whole, p, n, l, q, m)
    BY <1>1, <1>2, <2>4 DEF Received, A
  <2>6. /\ AllReadable(type, p) <=> head + l <= m
        /\ head + l <= m => AllSent(type, args, p)
    BY <2>5, AllThere
  <2>7. p.selector = whole.selector
    BY <2>4 DEF CutLaid
  <2>8. SelectorError(type, p) = "SUCCESS"
    BY <1>1, <2>7 DEF SelectorError
  <2>9. /\ out.error = "SUCCESS" <=> AllReadable(type, p) /\ ~ListsMismatch(type, p)
        /\ out.error = "SUCCESS" => out.written = ToSet(Reads(type))
    BY <2>8, BatchReads, DecodesAll
  <2>10. AllReadable(type, p) => (~ListsMismatch(type, p) <=> Paired(type, args))
    BY <2>6, MatchesWhenPaired
  <2>11. q \in 0..x /\ (q < x => m = 0) /\ n = sel + q + m
    BY <1>4, <1>7, <2>4 DEF CutLaid
  <2> HIDE DEF left, head, x, sel, all, out
  <2>12. all <=> head + l <= m
    <3>1. CASE q < x
      <4>1. m = 0 /\ n = sel + q
        BY <1>6, <2>11, <3>1
      <4>2. ~(head + l <= m)
        BY <1>8, <4>1
      <4>3. ~(sel + q >= (sel + x + (head + l + left)) - left)
        BY <1>6, <1>8, <1>9, <2>11, <3>1
      <4>4. QED
        BY <1>12, <4>1, <4>2, <4>3
    <3>2. CASE q = x
      BY <1>6, <1>8, <1>9, <1>12, <2>11, <3>2
    <3>3. QED
      BY <1>6, <2>11, <3>1, <3>2
  <2>13. QED
    BY <2>6, <2>7, <2>9, <2>10, <2>12 DEF OwnDecoded, all, out
<1>16. QED
  BY <1>14, <1>15

-----------------------------------------------------------------------------
(* The decoders an input can meet. *)

LEMMA SelectorKept ==
  ASSUME NEW whole, NEW n, NEW p, p = Cut(whole, n)
  PROVE  p.selector = IF Selectors(whole) = 1 /\ n = 0 THEN Junk ELSE whole.selector
<1> DEFINE packed == SubSeq(whole.packed, 1, Min({n, Len(whole.packed)}))
           words  == n - Selectors(whole) - Len(packed)
           rest   == Payload(whole.selector, packed, SubSeq(whole.words, 1, words))
<1>1. p = IF Selectors(whole) = 1 /\ n = 0 THEN Payload(Junk, <<>>, <<>>) ELSE rest
  BY DEF Cut, Selectors
<1>2. rest.selector = whole.selector
  BY DEF Payload
<1>3. Payload(Junk, <<>>, <<>>).selector = Junk
  BY DEF Payload
<1> HIDE DEF rest
<1>4. QED
  BY <1>1, <1>2, <1>3

Allowed(type, from) == type = from \/ (type = AutoType /\ ~IsDeposit(from))

\* It is decoded by its own decoder, by name or by selector, or not at all.
AdvanceDecoded(type, from, args, whole, p, n, out) ==
  /\ out.error = "SUCCESS" <=>
       Allowed(type, from) /\ WholeAt(from, args, whole, n) /\ Paired(from, args)
  /\ out.error = "SUCCESS" =>
       /\ out.written = ToSet(Reads(from)) /\ AllSent(from, args, p)
       /\ DecoderOf(type, p) = from

LEMMA DecoderMeets ==
  ASSUME NEW from \in InputTypes, NEW args, AreFields(args), NEW backwards \in BOOLEAN,
         NEW whole, whole = InputOf(from, args, backwards),
         NEW n \in 0..Parts(whole), NEW p, p = Cut(whole, n),
         NEW type \in DecodersFor(from)
  PROVE  AdvanceDecoded(type, from, args, whole, p, n, DecodeAdvance(type, p))
<1> DEFINE own == DecodeAs(from, p)
           out == DecodeAdvance(type, p)
<1>1. OwnDecoded(from, args, whole, p, n, own)
  BY OwnDecoder
<1>2. whole.selector = IF IsDeposit(from) THEN None ELSE from
  BY InputParts
<1>3. None \notin InputTypes /\ AutoType \notin InputTypes /\ None # AutoType
      /\ Junk \notin InputTypes
  BY JunkAssumption DEF None, AutoType, InputTypes
<1>4. p.selector \in {whole.selector, Junk}
  BY SelectorKept
<1>5. IsDeposit(from) => p.selector = None
  <2>1. IsDeposit(from) => Selectors(whole) = 0
    BY <1>2 DEF Selectors
  <2>2. QED
    BY <1>2, <2>1, SelectorKept
<1>6. CASE type = from
  <2>1. out = own
    BY <1>3, <1>6 DEF DecodeAdvance
  <2>2. DecoderOf(type, p) = from /\ Allowed(type, from)
    BY <1>3, <1>6 DEF DecoderOf, Allowed
  <2> HIDE DEF out, own
  <2>3. QED
    BY <1>1, <2>1, <2>2 DEF AdvanceDecoded, OwnDecoded, out
<1>7. CASE type = AutoType
  <2>1. out = DecodeAuto(p)
    BY <1>3, <1>7 DEF DecodeAdvance
  <2>2. type # from /\ DecoderOf(type, p) = p.selector
    BY <1>3, <1>7 DEF DecoderOf
  <2>3. CASE p.selector \in InputTypes
    <3>1. p.selector = from /\ ~IsDeposit(from)
      BY <1>2, <1>3, <1>4, <1>5, <2>3
    <3>2. out = own
      BY <2>1, <2>3, <3>1 DEF DecodeAuto
    <3>3. Allowed(type, from)
      BY <1>7, <3>1 DEF Allowed
    <3> HIDE DEF out, own
    <3>4. QED
      BY <1>1, <2>2, <3>1, <3>2, <3>3 DEF AdvanceDecoded, OwnDecoded, out
  <2>4. CASE p.selector \notin InputTypes
    <3>1. out.error = "EINVAL"
      BY <2>1, <2>4 DEF DecodeAuto
    <3>2. ~IsDeposit(from) => own.error # "SUCCESS"
      <4>1. p.selector # from
        BY <2>4
      <4>2. ~IsDeposit(from) => SelectorError(from, p) # "SUCCESS"
        BY <4>1 DEF SelectorError
      <4>3. QED
        BY <4>2 DEF DecodeAs
    <3>3. ~(Allowed(type, from) /\ WholeAt(from, args, whole, n) /\ Paired(from, args))
      BY <1>1, <2>2, <3>2 DEF OwnDecoded, Allowed
    <3> HIDE DEF out, own
    <3>4. QED
      BY <3>1, <3>3 DEF AdvanceDecoded, out
  <2>5. QED
    BY <2>3, <2>4
<1>8. CASE type = None
  <2>1. out.error = "EINVAL"
    BY <1>3, <1>8 DEF DecodeAdvance
  <2>2. ~Allowed(type, from)
    BY <1>3, <1>8 DEF Allowed
  <2> HIDE DEF out
  <2>3. QED
    BY <2>1, <2>2 DEF AdvanceDecoded, out
<1>9. CASE type \in InputTypes /\ type # from /\ ~IsDeposit(type) /\ ~IsDeposit(from)
  <2>1. out = DecodeAs(type, p)
    BY <1>3, <1>9 DEF DecodeAdvance
  <2>2. p.selector # type
    BY <1>2, <1>3, <1>4, <1>9
  <2>3. SelectorError(type, p) # "SUCCESS"
    BY <1>9, <2>2 DEF SelectorError
  <2>4. out.error # "SUCCESS"
    BY <2>1, <2>3 DEF DecodeAs
  <2>5. ~Allowed(type, from)
    BY <1>3, <1>9 DEF Allowed
  <2> HIDE DEF out
  <2>6. QED
    BY <2>4, <2>5 DEF AdvanceDecoded, out
<1>10. QED
  BY <1>6, <1>7, <1>8, <1>9 DEF DecodersFor

\* Whatever was in the structure before the call.
LEMMA DecodeKeeps ==
  ASSUME ApiTypes, Decode
  PROVE  DecodesJustTheInput'
<1>1. AdvanceCall(asked)
  BY DEF ApiTypes, Decode, InspectCall, VoucherCall, Nothing
<1>2. PICK input \in ClientInputs :
        \E type \in DecodersFor(input.from), n \in 0..Parts(input.whole) :
          asked = [call |-> "advance", type |-> type, input |-> input, parts |-> n]
  BY <1>1 DEF AdvanceCall
<1>3. PICK from \in InputTypes, args \in Args, backwards \in BOOLEAN :
        input = [from |-> from, args |-> args, whole |-> InputOf(from, args, backwards)]
  BY DEF ClientInputs
<1>4. PICK whole : whole = InputOf(from, args, backwards)
  OBVIOUS
<1>5. input.from = from /\ input.args = args /\ input.whole = whole
  BY <1>3, <1>4
<1>6. PICK type \in DecodersFor(from), n \in 0..Parts(whole) :
        asked = [call |-> "advance", type |-> type, input |-> input, parts |-> n]
  BY <1>2, <1>5
<1>7. /\ asked.type = type /\ asked.parts = n /\ asked.input.from = from
      /\ asked.input.args = args /\ asked.input.whole = whole
  BY <1>5, <1>6
<1>8. PICK p, out : p = Cut(whole, n) /\ out = DecodeAdvance(type, p)
  OBVIOUS
<1>9. AreFields(args)
  BY ApiAssumption
<1>10. AdvanceDecoded(type, from, args, whole, p, n, out)
  BY <1>4, <1>8, <1>9, DecoderMeets
<1>11. /\ asked' = asked /\ result' = out.error
       /\ parser_input'.fields = FieldsAfter(type, p, out.written, parser_input.fields)
       /\ parser_input'.type = TypeAfter(type, p, out.error, parser_input.type)
  BY <1>7, <1>8 DEF Decode, ApiTypes
<1>12. Whole' <=> WholeAt(from, args, whole, n)
  BY <1>7, <1>11 DEF Whole, WholeAt
<1>13. ASSUME out.error = "SUCCESS"
       PROVE  /\ parser_input'.type = from
              /\ \A f \in ToSet(Reads(from)) \ {"exec_layer_data"} : parser_input'.fields[f] = args[f]
              /\ IsPrefix(parser_input'.fields["exec_layer_data"], args["exec_layer_data"])
  <2>1. /\ out.written = ToSet(Reads(from)) /\ AllSent(from, args, p)
        /\ DecoderOf(type, p) = from
    BY <1>10, <1>13 DEF AdvanceDecoded
  <2>2. parser_input'.type = from
    BY <1>11, <1>13, <2>1 DEF TypeAfter
  <2>3. "exec_layer_data" \in ToSet(Reads(from))
    BY ReadsAreLaid DEF ReadsLaid
  <2>4. ToSet(Reads(from)) \subseteq FieldNames
    BY ReadsFields
  <2>5. parser_input'.fields =
          [f \in FieldNames |-> IF f \in ToSet(Reads(from)) THEN ValueRead(from, p, f) ELSE Junk]
    BY <1>11, <2>1, <2>3 DEF FieldsAfter
  <2>6. \A f \in ToSet(Reads(from)) : parser_input'.fields[f] = ValueRead(from, p, f)
    BY <2>4, <2>5
  <2>7. QED
    BY <2>1, <2>2, <2>3, <2>6 DEF AllSent
<1>14. QED
  BY <1>7, <1>10, <1>11, <1>12, <1>13
     DEF DecodesJustTheInput, Returned, AdvanceDecoded, Allowed, Paired

DecodeInv == ApiTypes /\ DecodesJustTheInput

LEMMA DecodeStep == DecodeInv /\ [ApiNext]_apiVars => DecodeInv'
<1> SUFFICES ASSUME DecodeInv, [ApiNext]_apiVars PROVE DecodesJustTheInput'
  BY ApiTypesKept DEF DecodeInv
<1>1. CASE AskAdvance \/ AskInspect \/ AskVoucher
  <2>1. result' = "none"
    BY <1>1 DEF AskAdvance, AskInspect, AskVoucher, Idle, Ask
  <2>2. QED
    BY <2>1 DEF DecodesJustTheInput, Returned
<1>2. CASE Decode
  BY <1>2, DecodeKeeps DEF DecodeInv
<1>3. CASE Inspect \/ Encode \/ Release
  BY <1>3 DEF Inspect, Encode, Release, DecodesJustTheInput, Returned, Nothing
<1>4. CASE UNCHANGED apiVars
  BY <1>4 DEF apiVars, DecodeInv, DecodesJustTheInput, Returned, Whole
<1>5. QED
  BY <1>1, <1>2, <1>3, <1>4 DEF ApiNext

\* decode_advance succeeds just for a whole input that goes to its own decoder, and
\* what it writes is what was sent: for lists and data of any length, with the blocks
\* in either order, wherever the input is cut, and whatever the structure held.
THEOREM DecodesHold == ClientSpec => []DecodesJustTheInput
<1>1. ClientInit => DecodeInv
  BY ApiTypesInit DEF ClientInit, ApiInit, DecodeInv, DecodesJustTheInput, Returned
<1>2. DecodeInv => DecodesJustTheInput
  BY DEF DecodeInv
<1>3. QED
  BY <1>1, <1>2, DecodeStep, ClientSteps, PTL DEF ClientSpec

\* The parts an input has, before any is cut.
LEMMA SentParts ==
  ASSUME NEW type \in InputTypes, NEW args, AreFields(args), NEW backwards \in BOOLEAN,
         NEW whole, whole = InputOf(type, args, backwards)
  PROVE  /\ whole = Payload(whole.selector, whole.packed, whole.words)
         /\ whole.packed \in Seq(AllWords(args)) /\ Len(whole.packed) = Len(Packed(type))
         /\ whole.words \in Seq(AllWords(args))
         /\ Len(LeftOf(type, args)) \in Nat /\ Len(LeftOf(type, args)) <= Len(whole.words)
<1> DEFINE x == Len(Packed(type))
           A == AllWords(args)
<1>1. whole.packed = [k \in DOMAIN Packed(type) |-> args[Packed(type)[k]]]
  BY InputParts
<1>2. Packed(type) \in Seq({"token", "sender"}) /\ x \in Nat /\ DOMAIN Packed(type) = 1..x
  BY PackedAreLaid DEF PackedLaid
<1>3. \A k \in 1..x : args[Packed(type)[k]] \in A
  <2> SUFFICES ASSUME NEW k \in 1..x PROVE args[Packed(type)[k]] \in A
    OBVIOUS
  <2>1. Packed(type)[k] \in FieldNames
    BY <1>2 DEF FieldNames
  <2>2. QED
    BY <2>1 DEF AllWords, WordsOf
<1>4. whole.packed = [k \in 1..x |-> args[Packed(type)[k]]]
  BY <1>1, <1>2
<1> HIDE DEF x, A
<1>5. whole.packed \in [1..x -> A]
  BY <1>3, <1>4
<1>6. whole.packed \in Seq(A) /\ Len(whole.packed) = x
  BY <1>2, <1>5
<1>7. whole = Payload(whole.selector, whole.packed, whole.words)
  BY DEF InputOf, Payload
<1>8. PICK l \in Nat : InputLaid(type, args, whole.words, l)
  BY InputWords
<1>9. whole.words \in Seq(A)
  BY <1>8 DEF InputLaid, A
<1>10. Len(WordsSent(type)) \in Nat \ {0}
  BY HeadsAreLaid DEF WellLaid
<1>11. Len(LeftOf(type, args)) \in Nat
  <2>1. LeftOf(type, args) \in Seq(WordsOf(args))
    BY ListsAreWords DEF LeftOf, Dynamic
  <2>2. QED
    BY <2>1
<1>12. Len(whole.words) = Len(WordsSent(type)) + l + Len(LeftOf(type, args))
  BY <1>8 DEF InputLaid
<1>13. Len(LeftOf(type, args)) <= Len(whole.words)
  <2>1. PICK y \in Nat, z \in Nat : y = Len(WordsSent(type)) /\ z = Len(LeftOf(type, args))
    BY <1>10, <1>11
  <2>2. z <= y + l + z
    OBVIOUS
  <2>3. QED
    BY <1>12, <2>1, <2>2
<1>14. QED
  BY <1>6, <1>7, <1>9, <1>11, <1>13 DEF x, A

LEMMA CutNothing ==
  ASSUME NEW S, NEW whole, whole = Payload(whole.selector, whole.packed, whole.words),
         whole.packed \in Seq(S), whole.words \in Seq(S), whole.selector = None
  PROVE  Cut(whole, Parts(whole)) = whole
<1> DEFINE packed == whole.packed
           words  == whole.words
<1>1. PICK x \in Nat, w \in Nat : x = Len(packed) /\ w = Len(words)
  OBVIOUS
<1>2. \A s \in Seq(S) : SubSeq(s, 1, Len(s)) = s
  <2> SUFFICES ASSUME NEW s \in Seq(S) PROVE SubSeq(s, 1, Len(s)) = s
    OBVIOUS
  <2>1. PICK t : t = SubSeq(s, 1, Len(s))
    OBVIOUS
  <2>2. Len(s) \in 0..Len(s)
    OBVIOUS
  <2>3. t \in Seq(S) /\ Len(t) = Len(s) /\ \A k \in 1..Len(s) : t[k] = s[k]
    BY <2>1, <2>2, FirstOf
  <2>4. t \in Seq(S) /\ Len(t) = Len(s) /\ \A k \in 1..Len(t) : t[k] = s[k]
    BY <2>3
  <2>5. t = s
    BY <2>4, SeqEqual
  <2>6. QED
    BY <2>1, <2>5
<1>3. SubSeq(packed, 1, x) = packed /\ SubSeq(words, 1, w) = words
  BY <1>1, <1>2
<1>4. Parts(whole) = x + w
  BY <1>1 DEF Parts
<1>5. Min({x + w, x}) = x
  <2>1. ~(x + w <= x) \/ w = 0
    OBVIOUS
  <2>2. QED
    BY <2>1, MinOfTwo
<1>6. x + w - 0 - x = w
  OBVIOUS
<1> HIDE DEF packed, words
<1>7. Cut(whole, Parts(whole)) = Payload(None, packed, words)
  <2>1. SubSeq(packed, 1, Min({Parts(whole), Len(packed)})) = packed
    BY <1>1, <1>3, <1>4, <1>5
  <2>2. Parts(whole) - 0 - Len(packed) = w
    BY <1>1, <1>4, <1>6
  <2>3. QED
    <3> DEFINE n == Parts(whole)
               k == SubSeq(packed, 1, Min({n, Len(packed)}))
    <3>5. Cut(whole, n) =
            IF Selectors(whole) = 1 /\ n = 0 THEN Payload(Junk, <<>>, <<>>)
            ELSE Payload(whole.selector, k, SubSeq(words, 1, n - Selectors(whole) - Len(k)))
      BY DEF Cut, Selectors, packed, words
    <3>6. Selectors(whole) = 0 /\ Selectors(whole) # 1
      BY DEF Selectors
    <3>1. Cut(whole, n) = Payload(None, k, SubSeq(words, 1, n - 0 - Len(k)))
      BY <3>5, <3>6, Zenon
    <3> HIDE DEF k
    <3>2. k = packed
      BY <2>1 DEF k
    <3>3. n - 0 - Len(k) = w
      BY <2>2, <3>2
    <3>4. QED
      BY <1>3, <3>1, <3>2, <3>3, Zenon
<1>8. QED
  BY <1>7 DEF packed, words

\* What the portal of a kind sends.
Portal(kind, type, args, from, payload) ==
  /\ kind \in TokenKinds /\ type = <<"DEPOSIT", kind>> /\ AreFields(args)
  /\ from.kind = kind /\ from.args = args /\ from.whole \in BOOLEAN
  /\ SentByPortal(from, payload)

\* What the echo application decodes: all of what a portal sent, or nothing.
DepositRead(type, args, from, payload, out) ==
  /\ out.error = "SUCCESS" <=> from.whole /\ Paired(type, args)
  /\ out.error = "SUCCESS" =>
       /\ out.written = ToSet(Reads(type)) /\ AllSent(type, args, payload)
       /\ DecoderOf(type, payload) = type

LEMMA DepositDecoded ==
  ASSUME NEW kind, NEW type, NEW args, NEW from, NEW payload,
         Portal(kind, type, args, from, payload)
  PROVE  DepositRead(type, args, from, payload, DecodeAdvance(type, payload))
<1> DEFINE out == DecodeAdvance(type, payload)
<1>0. /\ kind \in TokenKinds /\ type = <<"DEPOSIT", kind>> /\ AreFields(args)
      /\ from.kind = kind /\ from.args = args /\ from.whole \in BOOLEAN
      /\ SentByPortal(from, payload)
  BY DEF Portal
<1>1. type \in InputTypes /\ IsDeposit(type) /\ type[2] = kind
  BY <1>0 DEF InputTypes, IsDeposit
<1>2. PICK whole : whole = InputOf(type, args, FALSE)
  OBVIOUS
<1> DEFINE left == Len(LeftOf(type, args))
           sent == Parts(whole)
<1>3. left = (IF HasPackedData(type) THEN Len(args["exec_layer_data"]) ELSE 0)
      /\ left = (IF DataIsPacked(kind) THEN Len(args["exec_layer_data"]) ELSE 0)
  BY <1>1 DEF LeftOf, HasPackedData
<1>4. /\ whole = Payload(whole.selector, whole.packed, whole.words)
      /\ whole.packed \in Seq(AllWords(args)) /\ whole.words \in Seq(AllWords(args))
      /\ left \in Nat /\ left <= Len(whole.words)
  <2>1. PICK backwards \in BOOLEAN : whole = InputOf(type, args, backwards)
    BY <1>2
  <2> HIDE DEF left
  <2>2. /\ whole = Payload(whole.selector, whole.packed, whole.words)
        /\ whole.packed \in Seq(AllWords(args)) /\ whole.words \in Seq(AllWords(args))
        /\ Len(LeftOf(type, args)) \in Nat /\ Len(LeftOf(type, args)) <= Len(whole.words)
    BY <1>0, <1>1, <2>1, SentParts
  <2>3. QED
    BY <2>2, Zenon DEF left
<1>5. whole.selector = None
  BY <1>1, <1>2, InputParts
<1>6. sent \in Nat /\ left <= sent
  <2>1. PICK x \in Nat, w \in Nat : x = Len(whole.packed) /\ w = Len(whole.words)
    BY <1>4
  <2>2. sent = x + w /\ left <= w
    BY <1>4, <1>5, <2>1 DEF Parts
  <2>3. left \in Nat
    BY <1>4
  <2> HIDE DEF left, sent
  <2>4. QED
    BY <2>2, <2>3
<1>7. Allowed(type, type) /\ type \in DecodersFor(type)
  BY DEF Allowed, DecodersFor
<1>8. \A n \in 0..sent : AdvanceDecoded(type, type, args, whole, Cut(whole, n), n,
                                        DecodeAdvance(type, Cut(whole, n)))
  BY <1>0, <1>1, <1>2, <1>7, DecoderMeets
<1>9. \A n : WholeAt(type, args, whole, n) <=> n >= sent - left
  BY <1>3, Zenon DEF WholeAt
<1> HIDE DEF left, sent, out
<1>10. CASE from.whole
  <2>1. payload = whole
    BY <1>0, <1>2, <1>10 DEF SentByPortal
  <2>2. Cut(whole, sent) = whole
    BY <1>4, <1>5, CutNothing DEF sent
  <2>3. sent \in 0..sent /\ sent >= sent - left
    BY <1>4, <1>6
  <2>4. AdvanceDecoded(type, type, args, whole, payload, sent, out)
    BY <1>8, <2>1, <2>2, <2>3 DEF out
  <2>5. WholeAt(type, args, whole, sent)
    BY <1>9, <2>3
  <2>6. QED
    BY <1>7, <1>10, <2>4, <2>5 DEF AdvanceDecoded, DepositRead, out
<1>11. CASE ~from.whole
  <2>1. PICK n \in 0..(sent - left - 1) : payload = Cut(whole, n)
    <3>1. \E n \in 0..(sent - (IF DataIsPacked(kind) THEN Len(args["exec_layer_data"]) ELSE 0) - 1) :
            payload = Cut(whole, n)
      BY <1>0, <1>2, <1>11, Zenon DEF SentByPortal, sent
    <3>2. QED
      BY <1>3, <3>1, Zenon
  <2>2. n \in 0..sent /\ ~(n >= sent - left)
    BY <1>4, <1>6, <2>1
  <2>3. AdvanceDecoded(type, type, args, whole, payload, n, out)
    BY <1>8, <2>1, <2>2 DEF out
  <2>4. ~WholeAt(type, args, whole, n)
    BY <1>9, <2>2
  <2>5. QED
    BY <1>11, <2>3, <2>4 DEF AdvanceDecoded, DepositRead, out
<1>12. QED
  BY <1>10, <1>11 DEF DepositRead, out

-----------------------------------------------------------------------------
(* A buffer with enough room. *)

\* The block of parameter k is put behind the words, for which there is room.
HasRoom(kind, req, room, words, k, r) ==
  /\ words \in Seq(WordsOf(req)) /\ k \in 1..Len(Parameters(kind))
  /\ Len(Parameters(kind)) <= Len(words) /\ IsDynamic(Parameters(kind)[k])
  /\ Len(words) + 1 + Len(req[Parameters(kind)[k]]) <= room
  /\ r = PutBlock(kind, req, room, [words |-> words, error |-> "SUCCESS"], Parameters(kind)[k])

WentIn(kind, req, words, k, r) ==
  /\ r.words \in Seq(WordsOf(req))
  /\ Len(r.words) = Len(words) + 1 + Len(req[Parameters(kind)[k]])
  /\ r = [words |-> r.words, error |-> "SUCCESS"]

LEMMA PutGoes ==
  ASSUME NEW kind \in Contracts, NEW req, HasLists(kind, req), NEW room \in Nat,
         NEW words, NEW k, NEW r, HasRoom(kind, req, room, words, k, r)
  PROVE  WentIn(kind, req, words, k, r)
<1> DEFINE f     == Parameters(kind)[k]
           list  == req[f]
           put   == [words |-> words, error |-> "SUCCESS"]
           block == <<Len(req[f])>> \o req[f]
           more  == put.error # "SUCCESS" \/ Len(put.words) + Len(block) > room
           W     == WordsOf(req)
<1>0. /\ words \in Seq(W) /\ k \in 1..Len(Parameters(kind))
      /\ Len(Parameters(kind)) <= Len(words) /\ IsDynamic(f)
      /\ Len(words) + 1 + Len(list) <= room
      /\ r = PutBlock(kind, req, room, put, f)
  BY DEF HasRoom
<1>1. list \in Seq(W) /\ Nat \subseteq W
  BY <1>0 DEF HasLists, WordsOf
<1>2. Len(list) \in Nat /\ Len(words) \in Nat /\ Len(Parameters(kind)) \in 2..5
  <2>1. Len(Parameters(kind)) \in 2..5
    BY ParametersDiffer
  <2> HIDE DEF list, W
  <2>2. QED
    BY <1>0, <1>1, <2>1
<1>3. Len(block) = 1 + Len(list)
  <2>1. <<Len(list)>> \in Seq(W) /\ Len(<<Len(list)>>) = 1
    BY <1>1, <1>2
  <2>2. block = <<Len(list)>> \o list
    OBVIOUS
  <2> HIDE DEF list, W, block
  <2>3. QED
    BY <1>1, <2>1, <2>2, ConcatProperties
<1>4. ~more
  <2>1. put.error = "SUCCESS" /\ put.words = words
    OBVIOUS
  <2>2. Len(words) + 1 + Len(list) <= room
    BY <1>0
  <2> HIDE DEF list, block, put
  <2>3. QED
    BY <1>2, <1>3, <2>1, <2>2
<1>5. r = [put EXCEPT !.words =
             [@ EXCEPT ![IndexOf(Arguments(kind), f)] = OffsetOf(put.words)] \o block]
  BY <1>0, <1>4 DEF PutBlock
<1>6. r.error = "SUCCESS"
  BY <1>5
<1>7. /\ r.words = Extended(words, k, list)
      /\ r = [words |-> r.words, error |-> "SUCCESS"]
  BY <1>0, <1>6, PutFits
<1>8. k \in 1..Len(words)
  BY <1>0, <1>2
<1>9. PICK new : new = Extended(words, k, list)
  OBVIOUS
<1>10. Grown(W, words, k, list, new)
  BY <1>0, <1>1, <1>8, <1>9, BlockAdded
<1>11. QED
  BY <1>7, <1>9, <1>10 DEF Grown, WentIn

LEMMA HeadGoes ==
  ASSUME NEW kind \in Contracts, NEW req, NEW room \in Nat, Len(Parameters(kind)) <= room
  PROVE  /\ Len(PutHead(kind, req, room)) = Len(Parameters(kind))
         /\ PutHead(kind, req, room) \in Seq(WordsOf(req))
         /\ ~(Len(PutHead(kind, req, room)) < Len(Arguments(kind)))
<1> DEFINE names == Parameters(kind)
           n     == Len(names)
           head  == PutHead(kind, req, room)
<1>1. Arguments(kind) = names /\ n \in 2..5
  BY ArgumentsAreParameters, ParametersDiffer
<1>2. Min({n, room}) = n
  BY <1>1, MinOfTwo
<1>3. head = [k \in 1..n |-> IF IsDynamic(names[k]) THEN Junk ELSE req[names[k]]]
  BY <1>1, <1>2 DEF PutHead
<1>4. n \in Nat
  BY <1>1
<1> HIDE DEF head, n
<1>5. Len(head) = n
  BY <1>3, <1>4
<1>6. ~(Len(head) < Len(Arguments(kind)))
  BY <1>1, <1>4, <1>5 DEF n
<1>7. head \in Seq(WordsOf(req))
  BY <1>6, HeadPut DEF head
<1>8. QED
  BY <1>5, <1>6, <1>7 DEF head, n

\* Words a voucher needs.
WordsNeeded(kind, req) ==
  CASE kind = "ERC20"          -> 2
    [] kind = "ERC721"         -> 3
    [] kind = "ERC1155_SINGLE" -> 5 + 1 + Len(req["exec_layer_data"])
    [] kind = "ERC1155_BATCH"  ->
         5 + 1 + Len(req["token_ids"]) + 1 + Len(req["amounts"]) + 1 + Len(req["exec_layer_data"])

LEMMA PutsGo ==
  ASSUME NEW kind \in Contracts, NEW req, HasLists(kind, req), NEW room \in Nat,
         WordsNeeded(kind, req) <= room
  PROVE  PutAll(kind, req, room).error = "SUCCESS"
<1> DEFINE head  == PutHead(kind, req, room)
           error == IF Len(head) < Len(Arguments(kind)) THEN "ENOBUFS" ELSE "SUCCESS"
           n     == Len(Parameters(kind))
           W     == WordsOf(req)
<1>1. n \in 2..5
  BY ParametersDiffer
<1>2. ASSUME n <= room PROVE head \in Seq(W) /\ Len(head) = n /\ error = "SUCCESS"
  BY <1>2, HeadGoes
<1>3. {"token_ids", "amounts", "exec_layer_data"} \subseteq Dynamic
  BY DEF Dynamic
<1>4. CASE kind \in {"ERC20", "ERC721"}
  <2>1. WordsNeeded(kind, req) = n
    BY <1>4 DEF WordsNeeded, Parameters
  <2>2. n <= room
    BY <2>1
  <2>3. PutAll(kind, req, room) = [words |-> head, error |-> error]
    BY <1>4 DEF PutAll
  <2> HIDE DEF head, error
  <2>4. QED
    BY <1>2, <2>2, <2>3
<1>5. CASE kind = "ERC1155_SINGLE"
  <2> DEFINE c == Len(req["exec_layer_data"])
             put == PutAll(kind, req, room)
  <2>1. n = 5 /\ Parameters(kind)[5] = "exec_layer_data" /\ IsDynamic(Parameters(kind)[5])
        /\ 5 \in 1..n
    BY <1>3, <1>5, DynamicParameters DEF IsDynamic
  <2>2. req["exec_layer_data"] \in Seq(W)
    BY <2>1 DEF HasLists
  <2>3. c \in Nat
    BY <2>2
  <2>4. 5 + 1 + c <= room
    BY <1>5 DEF WordsNeeded
  <2> HIDE DEF c
  <2>5. 5 <= room
    BY <2>3, <2>4
  <2>6. head \in Seq(W) /\ Len(head) = 5 /\ error = "SUCCESS"
    BY <1>2, <2>1, <2>5
  <2>7. put = PutBlock(kind, req, room, [words |-> head, error |-> error], "exec_layer_data")
    BY <1>5 DEF PutAll
  <2> HIDE DEF head, error, put
  <2>8. put = PutBlock(kind, req, room, [words |-> head, error |-> "SUCCESS"], Parameters(kind)[5])
    BY <2>1, <2>6, <2>7
  <2>9. Len(head) + 1 + Len(req[Parameters(kind)[5]]) <= room
    BY <2>1, <2>4, <2>6 DEF c
  <2>10. head \in Seq(W) /\ n <= Len(head)
    BY <2>1, <2>6
  <2>11. HasRoom(kind, req, room, head, 5, put)
    BY <2>1, <2>8, <2>9, <2>10 DEF HasRoom
  <2>12. WentIn(kind, req, head, 5, put)
    BY <2>11, PutGoes
  <2>13. put.error = "SUCCESS"
    BY <2>12 DEF WentIn
  <2>14. QED
    BY <2>13 DEF put
<1>6. CASE kind = "ERC1155_BATCH"
  <2> DEFINE a == Len(req["token_ids"])
             b == Len(req["amounts"])
             c == Len(req["exec_layer_data"])
             put1 == PutBlock(kind, req, room, [words |-> head, error |-> error], "token_ids")
             put2 == PutBlock(kind, req, room, put1, "amounts")
             put  == PutAll(kind, req, room)
  <2>1. /\ n = 5
        /\ Parameters(kind)[3] = "token_ids" /\ Parameters(kind)[4] = "amounts"
        /\ Parameters(kind)[5] = "exec_layer_data"
        /\ \A m \in {3, 4, 5} : IsDynamic(Parameters(kind)[m]) /\ m \in 1..n
    BY <1>3, <1>6, DynamicParameters DEF IsDynamic
  <2>2. /\ req["token_ids"] \in Seq(W) /\ req["amounts"] \in Seq(W)
        /\ req["exec_layer_data"] \in Seq(W)
    BY <2>1 DEF HasLists
  <2>3. a \in Nat /\ b \in Nat /\ c \in Nat
    BY <2>2
  <2>4. 5 + 1 + a + 1 + b + 1 + c <= room
    BY <1>6 DEF WordsNeeded
  <2>5. put = PutBlock(kind, req, room, put2, "exec_layer_data")
    BY <1>6 DEF PutAll
  <2> HIDE DEF a, b, c, put
  <2>6. 5 <= room /\ 5 + 1 + a <= room /\ 5 + 1 + a + 1 + b <= room
    BY <2>3, <2>4
  <2>7. head \in Seq(W) /\ Len(head) = 5 /\ error = "SUCCESS"
    BY <1>2, <2>1, <2>6
  <2> HIDE DEF head, error
  <2>8. put1.words \in Seq(W) /\ Len(put1.words) = 5 + 1 + a
        /\ put1 = [words |-> put1.words, error |-> "SUCCESS"]
    <3>1. put1 = PutBlock(kind, req, room, [words |-> head, error |-> "SUCCESS"], Parameters(kind)[3])
      BY <2>1, <2>7
    <3> HIDE DEF put1
    <3>2. Len(head) + 1 + Len(req[Parameters(kind)[3]]) <= room
      BY <2>1, <2>6, <2>7 DEF a
    <3>3. head \in Seq(W) /\ n <= Len(head)
      BY <2>1, <2>7
    <3>4. HasRoom(kind, req, room, head, 3, put1)
      BY <2>1, <3>1, <3>2, <3>3 DEF HasRoom
    <3>5. WentIn(kind, req, head, 3, put1)
      BY <3>4, PutGoes
    <3>6. QED
      BY <2>1, <2>7, <3>5 DEF a, WentIn
  <2> HIDE DEF put1
  <2>9. put2.words \in Seq(W) /\ Len(put2.words) = 5 + 1 + a + 1 + b
        /\ put2 = [words |-> put2.words, error |-> "SUCCESS"]
    <3>1. put2 = PutBlock(kind, req, room, [words |-> put1.words, error |-> "SUCCESS"], Parameters(kind)[4])
      BY <2>1, <2>8
    <3> HIDE DEF put2
    <3>2. Len(put1.words) + 1 + Len(req[Parameters(kind)[4]]) <= room
      BY <2>1, <2>6, <2>8 DEF b
    <3>3. put1.words \in Seq(W) /\ n <= Len(put1.words)
      BY <2>1, <2>3, <2>8
    <3>4. HasRoom(kind, req, room, put1.words, 4, put2)
      BY <2>1, <3>1, <3>2, <3>3 DEF HasRoom
    <3>5. WentIn(kind, req, put1.words, 4, put2)
      BY <3>4, PutGoes
    <3>6. QED
      BY <2>1, <2>8, <3>5 DEF b, WentIn
  <2> HIDE DEF put2
  <2>10. put.error = "SUCCESS"
    <3>1. put = PutBlock(kind, req, room, [words |-> put2.words, error |-> "SUCCESS"], Parameters(kind)[5])
      BY <2>1, <2>5, <2>9
    <3>2. Len(put2.words) + 1 + Len(req[Parameters(kind)[5]]) <= room
      BY <2>1, <2>4, <2>9 DEF c
    <3>3. put2.words \in Seq(W) /\ n <= Len(put2.words)
      BY <2>1, <2>3, <2>9
    <3>4. HasRoom(kind, req, room, put2.words, 5, put)
      BY <2>1, <3>1, <3>2, <3>3 DEF HasRoom
    <3>5. WentIn(kind, req, put2.words, 5, put)
      BY <3>4, PutGoes
    <3>6. QED
      BY <3>5 DEF WentIn
  <2>11. QED
    BY <2>10 DEF put
<1>7. QED
  BY <1>4, <1>5, <1>6 DEF Contracts, TokenKinds

-----------------------------------------------------------------------------
(* What the echo application asks for. *)

\* What a deposit brought, and from whom.
Brought(kind) ==
  ToSet(Values(kind)) \cup {"sender"} \cup (IF kind = "ETHER" THEN {} ELSE {"token"})

LEMMA BroughtIsRead ==
  ASSUME NEW kind \in TokenKinds, NEW type, type = <<"DEPOSIT", kind>>
  PROVE  /\ Brought(kind) \subseteq ToSet(Reads(type))
         /\ Brought(kind) \subseteq FieldNames \ {"exec_layer_data", "receiver"}
<1>1. type \in InputTypes /\ IsDeposit(type) /\ type[2] = kind /\ type[1] = "DEPOSIT"
  BY DEF InputTypes, IsDeposit
<1>2. \A f : f \in ToSet(Reads(type)) <=>
               f \in ToSet(Packed(type)) \/ f \in ToSet(HeadWords(type)) \/ f = "exec_layer_data"
  BY <1>1, ReadsAreLaid DEF ReadsLaid
<1>3. Packed(type) = PackedSent(kind) /\ HeadWords(type) = WordsSent(type)
  BY <1>1, HeadsAreSent
<1>4. {"sender"} \cup (IF kind = "ETHER" THEN {} ELSE {"token"}) \subseteq ToSet(PackedSent(kind))
  <2>1. CASE kind = "ETHER"
    <3>1. PackedSent(kind) = <<"sender">>
      BY <2>1 DEF PackedSent
    <3>2. ToSet(<<"sender">>) = {"sender"}
      BY DEF ToSet
    <3>3. QED
      BY <2>1, <3>1, <3>2
  <2>2. CASE kind # "ETHER"
    <3>1. PackedSent(kind) = <<"token", "sender">>
      BY <2>2 DEF PackedSent
    <3>2. ToSet(<<"token", "sender">>) = {"token", "sender"}
      BY DEF ToSet
    <3>3. QED
      BY <2>2, <3>1, <3>2
  <2>3. QED
    BY <2>1, <2>2
<1>5. /\ ToSet(Values(kind)) \subseteq ToSet(WordsSent(type))
      /\ ToSet(Values(kind)) \subseteq {"amount", "token_id", "token_ids", "amounts"}
  <2>1. CASE kind \in {"ETHER", "ERC20"}
    <3>1. WordsSent(type) = <<"amount">> /\ Values(kind) = <<"amount">>
      BY <1>1, <2>1 DEF WordsSent, Values
    <3>2. ToSet(<<"amount">>) = {"amount"}
      BY DEF ToSet
    <3>3. QED
      BY <3>1, <3>2
  <2>2. CASE kind = "ERC721"
    <3>1. /\ WordsSent(type) = <<"token_id", "base_layer_data", "exec_layer_data">>
          /\ Values(kind) = <<"token_id">>
      BY <1>1, <2>2 DEF WordsSent, Values
    <3>2. /\ ToSet(<<"token_id">>) = {"token_id"}
          /\ "token_id" \in ToSet(<<"token_id", "base_layer_data", "exec_layer_data">>)
      BY DEF ToSet
    <3>3. QED
      BY <3>1, <3>2
  <2>3. CASE kind = "ERC1155_SINGLE"
    <3>1. /\ WordsSent(type) = <<"token_id", "amount", "base_layer_data", "exec_layer_data">>
          /\ Values(kind) = <<"token_id", "amount">>
      BY <1>1, <2>3 DEF WordsSent, Values
    <3>2. /\ ToSet(<<"token_id", "amount">>) = {"token_id", "amount"}
          /\ ToSet(<<"token_id", "amount", "base_layer_data", "exec_layer_data">>)
               = {"token_id", "amount", "base_layer_data", "exec_layer_data"}
      BY DEF ToSet
    <3>3. QED
      BY <3>1, <3>2
  <2>4. CASE kind = "ERC1155_BATCH"
    <3>1. /\ WordsSent(type) = <<"token_ids", "amounts", "base_layer_data", "exec_layer_data">>
          /\ Values(kind) = <<"token_ids", "amounts">>
      BY <1>1, <2>4 DEF WordsSent, Values
    <3>2. /\ ToSet(<<"token_ids", "amounts">>) = {"token_ids", "amounts"}
          /\ ToSet(<<"token_ids", "amounts", "base_layer_data", "exec_layer_data">>)
               = {"token_ids", "amounts", "base_layer_data", "exec_layer_data"}
      BY DEF ToSet
    <3>3. QED
      BY <3>1, <3>2
  <2>5. QED
    BY <2>1, <2>2, <2>3, <2>4 DEF TokenKinds
<1>6. Brought(kind) \subseteq ToSet(Reads(type))
  BY <1>2, <1>3, <1>4, <1>5 DEF Brought
<1>7. Brought(kind) \subseteq FieldNames \ {"exec_layer_data", "receiver"}
  BY <1>5 DEF Brought, FieldNames, Dynamic
<1>8. QED
  BY <1>6, <1>7

\* The same tokens, from the application to the depositor, without data.
AskedBack(kind, args, req) ==
  /\ req["receiver"] = args["sender"] /\ req["sender"] = App
  /\ req["exec_layer_data"] = <<>>
  /\ \A f \in Brought(kind) : f # "sender" => req[f] = args[f]
  /\ kind \in Contracts => HasLists(kind, req)

LEMMA VoucherAsked ==
  ASSUME NEW kind \in TokenKinds, NEW args, AreFields(args),
         NEW type, type = <<"DEPOSIT", kind>>,
         NEW payload, AllSent(type, args, payload), DecoderOf(type, payload) = type,
         NEW before, NEW fields, fields = FieldsAfter(type, payload, ToSet(Reads(type)), before),
         NEW req, req = VoucherReq(fields)
  PROVE  AskedBack(kind, args, req)
<1>1. "exec_layer_data" \in ToSet(Reads(type)) /\ type \in InputTypes
  <2>1. type \in InputTypes
    BY DEF InputTypes
  <2>2. QED
    BY <2>1, ReadsAreLaid DEF ReadsLaid
<1>2. fields = [f \in FieldNames |-> IF f \in ToSet(Reads(type))
                                     THEN ValueRead(type, payload, f) ELSE Junk]
  BY <1>1 DEF FieldsAfter
<1>3. Brought(kind) \subseteq ToSet(Reads(type))
      /\ Brought(kind) \subseteq FieldNames \ {"exec_layer_data", "receiver"}
  BY BroughtIsRead
<1>4. \A f \in Brought(kind) : fields[f] = args[f]
  <2>1. \A f \in Brought(kind) : fields[f] = ValueRead(type, payload, f)
    BY <1>2, <1>3
  <2>2. QED
    BY <1>3, <2>1 DEF AllSent
<1>5. /\ \A f \in FieldNames \ {"receiver", "sender", "exec_layer_data"} : req[f] = fields[f]
      /\ req["receiver"] = fields["sender"] /\ req["sender"] = App
      /\ req["exec_layer_data"] = <<>>
  <2>1. "receiver" \in FieldNames /\ "sender" \in FieldNames /\ "exec_layer_data" \in FieldNames
    BY DEF FieldNames, Dynamic
  <2>2. QED
    BY <2>1 DEF VoucherReq
<1> HIDE DEF FieldsAfter, VoucherReq
<1>6. req["receiver"] = args["sender"]
  BY <1>4, <1>5 DEF Brought
<1>7. \A f \in Brought(kind) : f # "sender" => req[f] = args[f]
  BY <1>3, <1>4, <1>5
<1>8. ASSUME kind \in Contracts PROVE HasLists(kind, req)
  <2>1. \A f \in Dynamic : req[f] \in Seq(ToSet(req[f])) => req[f] \in Seq(WordsOf(req))
    <3> SUFFICES ASSUME NEW f \in Dynamic, req[f] \in Seq(ToSet(req[f]))
                 PROVE req[f] \in Seq(WordsOf(req))
      OBVIOUS
    <3>1. ToSet(req[f]) \subseteq WordsOf(req)
      BY DEF WordsOf
    <3>2. QED
      BY <3>1, SeqWider
  <2>2. req["exec_layer_data"] \in Seq(WordsOf(req))
    <3>1. \A S : <<>> \in Seq(S)
      OBVIOUS
    <3>2. QED
      BY <1>5, <3>1, Zenon
  <2>3. CASE kind \in {"ERC20", "ERC721"}
    BY <2>3, DynamicParameters DEF HasLists
  <2>4. CASE kind = "ERC1155_SINGLE"
    <3>1. \A k \in 1..5 : k \in 1..4 \/ k = 5
      OBVIOUS
    <3>2. QED
      BY <2>2, <2>4, <3>1, DynamicParameters DEF HasLists
  <2>5. CASE kind = "ERC1155_BATCH"
    <3>1. \A k \in 1..5 : k \in 1..2 \/ k = 3 \/ k = 4 \/ k = 5
      OBVIOUS
    <3>2. {"token_ids", "amounts"} \subseteq Brought(kind)
      <4>1. Values(kind) = <<"token_ids", "amounts">>
        BY <2>5 DEF Values
      <4>2. ToSet(<<"token_ids", "amounts">>) = {"token_ids", "amounts"}
        BY DEF ToSet
      <4>3. QED
        BY <4>1, <4>2 DEF Brought
    <3>3. req["token_ids"] = args["token_ids"] /\ req["amounts"] = args["amounts"]
      BY <1>7, <3>2
    <3>4. "token_ids" \in Dynamic /\ "amounts" \in Dynamic
      BY DEF Dynamic
    <3>5. req["token_ids"] \in Seq(WordsOf(req)) /\ req["amounts"] \in Seq(WordsOf(req))
      BY <2>1, <3>3, <3>4 DEF AreFields
    <3>6. QED
      BY <2>2, <2>5, <3>1, <3>5, DynamicParameters DEF HasLists
  <2>6. QED
    BY <1>8, <2>3, <2>4, <2>5 DEF Contracts, TokenKinds
<1>9. QED
  BY <1>5, <1>6, <1>7, <1>8 DEF AskedBack

LEMMA ValuesAreParameters ==
  ASSUME NEW kind \in Contracts
  PROVE  /\ \A f \in ToSet(Values(kind)) : f \in ToSet(Parameters(kind)) /\ f \in Brought(kind)
                                           /\ f # "sender"
         /\ "receiver" \in ToSet(Parameters(kind))
         /\ kind # "ERC20" => "sender" \in ToSet(Parameters(kind))
<1>1. CASE kind = "ERC20"
  <2>1. Values(kind) = <<"amount">> /\ Parameters(kind) = <<"receiver", "amount">>
    BY <1>1 DEF Values, Parameters
  <2>2. ToSet(<<"amount">>) = {"amount"} /\ ToSet(<<"receiver", "amount">>) = {"receiver", "amount"}
    BY DEF ToSet
  <2>3. QED
    BY <1>1, <2>1, <2>2 DEF Brought
<1>2. CASE kind = "ERC721"
  <2>1. Values(kind) = <<"token_id">> /\ Parameters(kind) = <<"sender", "receiver", "token_id">>
    BY <1>2 DEF Values, Parameters
  <2>2. /\ ToSet(<<"token_id">>) = {"token_id"}
        /\ ToSet(<<"sender", "receiver", "token_id">>) = {"sender", "receiver", "token_id"}
    BY DEF ToSet
  <2>3. QED
    BY <2>1, <2>2 DEF Brought
<1>3. CASE kind = "ERC1155_SINGLE"
  <2> DEFINE t == <<"sender", "receiver", "token_id", "amount", "exec_layer_data">>
  <2>1. Values(kind) = <<"token_id", "amount">> /\ Parameters(kind) = t
    BY <1>3 DEF Values, Parameters
  <2>2. /\ ToSet(<<"token_id", "amount">>) = {"token_id", "amount"}
        /\ ToSet(t) = {"sender", "receiver", "token_id", "amount", "exec_layer_data"}
    BY DEF ToSet
  <2> HIDE DEF t
  <2>3. QED
    BY <2>1, <2>2 DEF Brought
<1>4. CASE kind = "ERC1155_BATCH"
  <2> DEFINE t == <<"sender", "receiver", "token_ids", "amounts", "exec_layer_data">>
  <2>1. Values(kind) = <<"token_ids", "amounts">> /\ Parameters(kind) = t
    BY <1>4 DEF Values, Parameters
  <2>2. /\ ToSet(<<"token_ids", "amounts">>) = {"token_ids", "amounts"}
        /\ ToSet(t) = {"sender", "receiver", "token_ids", "amounts", "exec_layer_data"}
    BY DEF ToSet
  <2> HIDE DEF t
  <2>3. QED
    BY <2>1, <2>2 DEF Brought
<1>5. QED
  BY <1>1, <1>2, <1>3, <1>4 DEF Contracts, TokenKinds

\* The room the echo application gives is what the words take, but the size asked
\* for a batch counts the lists differently: just the empty batch does not pass.
Tight(kind, req, room) == SelectorBytes + WordBytes * room < SizeAsked(kind, req)

LEMMA EchoRoom ==
  ASSUME NEW kind \in Contracts, NEW req, HasLists(kind, req), req["exec_layer_data"] = <<>>,
         kind = "ERC1155_BATCH" => Len(req["token_ids"]) = Len(req["amounts"]),
         NEW room, room = PayloadRoom(kind, req)
  PROVE  /\ room \in Nat /\ WordsNeeded(kind, req) <= room
         /\ Tight(kind, req, room) <=> kind = "ERC1155_BATCH" /\ req["token_ids"] = <<>>
<1>1. Len(req["exec_layer_data"]) = 0
  OBVIOUS
<1>2. 64 \div 32 = 2 /\ 96 \div 32 = 3 /\ 192 \div 32 = 6 /\ 256 \div 32 = 8
  OBVIOUS
<1>3. CASE kind = "ERC20"
  <2>1. PayloadMinSize(kind) = 68 /\ SizeAsked(kind, req) = 68
    BY <1>3 DEF PayloadMinSize, SizeAsked, SelectorBytes, WordBytes
  <2>2. room = 2
    BY <1>2, <1>3, <2>1 DEF PayloadRoom, SelectorBytes, WordBytes
  <2>3. WordsNeeded(kind, req) = 2
    BY <1>3 DEF WordsNeeded
  <2>4. QED
    BY <1>3, <2>1, <2>2, <2>3 DEF Tight, SelectorBytes, WordBytes
<1>4. CASE kind = "ERC721"
  <2>1. PayloadMinSize(kind) = 100 /\ SizeAsked(kind, req) = 100
    BY <1>4 DEF PayloadMinSize, SizeAsked, SelectorBytes, WordBytes
  <2>2. room = 3
    BY <1>2, <1>4, <2>1 DEF PayloadRoom, SelectorBytes, WordBytes
  <2>3. WordsNeeded(kind, req) = 3
    BY <1>4 DEF WordsNeeded
  <2>4. QED
    BY <1>4, <2>1, <2>2, <2>3 DEF Tight, SelectorBytes, WordBytes
<1>5. CASE kind = "ERC1155_SINGLE"
  <2>1. PayloadMinSize(kind) = 196 /\ SizeAsked(kind, req) = 196
    BY <1>1, <1>5 DEF PayloadMinSize, SizeAsked, SelectorBytes, WordBytes
  <2>2. room = 6
    BY <1>2, <1>5, <2>1 DEF PayloadRoom, SelectorBytes, WordBytes
  <2>3. WordsNeeded(kind, req) = 6
    BY <1>1, <1>5 DEF WordsNeeded
  <2>4. QED
    BY <1>5, <2>1, <2>2, <2>3 DEF Tight, SelectorBytes, WordBytes
<1>6. CASE kind = "ERC1155_BATCH"
  <2>0. req["token_ids"] \in Seq(WordsOf(req))
    <3>1. Parameters(kind)[3] = "token_ids" /\ IsDynamic("token_ids")
          /\ 3 \in 1..Len(Parameters(kind))
      BY <1>6, DynamicParameters DEF IsDynamic, Dynamic
    <3>2. QED
      BY <3>1 DEF HasLists
  <2>1. PICK n \in Nat : n = Len(req["token_ids"]) /\ (n = 0 <=> req["token_ids"] = <<>>)
    <3>1. \A S : \A s \in Seq(S) : Len(s) \in Nat /\ (Len(s) = 0 <=> s = <<>>)
      OBVIOUS
    <3>2. QED
      BY <2>0, <3>1
  <2>2. Len(req["amounts"]) = n
    BY <1>6, <2>1
  <2>3. PayloadMinSize(kind) = 260
    BY <1>6 DEF PayloadMinSize, SelectorBytes, WordBytes
  <2>4. SizeAsked(kind, req) = 260 + (2 * n + 32)
    <3> DEFINE c == Len(req["exec_layer_data"])
               d == Len(req["token_ids"])
    <3>1. SizeAsked(kind, req) = PayloadMinSize(kind) + (2 * d + WordBytes + WordBytes * c)
      BY <1>6 DEF SizeAsked
    <3>2. c = 0 /\ d = n
      BY <1>1, <2>1
    <3> HIDE DEF c, d
    <3>3. QED
      BY <2>3, <3>1, <3>2 DEF WordBytes
  <2>5. room = 8 + 2 * n
    BY <1>2, <1>6, <2>1, <2>3 DEF PayloadRoom, SelectorBytes, WordBytes
  <2>6. WordsNeeded(kind, req) = 5 + 1 + n + 1 + n + 1
    BY <1>1, <1>6, <2>1, <2>2 DEF WordsNeeded
  <2>7. 4 + 32 * (8 + 2 * n) < 260 + (2 * n + 32) <=> n = 0
    OBVIOUS
  <2>8. Tight(kind, req, room) <=> n = 0
    BY <2>4, <2>5, <2>7 DEF Tight, SelectorBytes, WordBytes
  <2>9. QED
    BY <1>6, <2>1, <2>5, <2>6, <2>8
<1>7. QED
  BY <1>3, <1>4, <1>5, <1>6 DEF Contracts, TokenKinds

LEMMA EchoEncodes ==
  ASSUME NEW kind \in TokenKinds, NEW args, NEW req, AskedBack(kind, args, req),
         Paired(<<"DEPOSIT", kind>>, args),
         NEW out, out = EncodeVoucher(kind, HasApp(kind), req, PayloadRoom(kind, req))
  PROVE  /\ out.error = "SUCCESS" <=> ~(kind = "ERC1155_BATCH" /\ args["token_ids"] = <<>>)
         /\ out.error = "SUCCESS" => Repays(out.voucher, kind, args)
<1> DEFINE room    == PayloadRoom(kind, req)
           invalid == \/ kind \notin TokenKinds
                      \/ kind \notin {"ETHER", "ERC20"} /\ ~HasApp(kind)
                      \/ kind = "ERC1155_BATCH" /\ Len(req.token_ids) # Len(req.amounts)
           ether   == ~invalid /\ kind = "ETHER"
           tight   == room = -1 \/ SelectorBytes + WordBytes * room < SizeAsked(kind, req)
           put     == PutAll(kind, req, room)
<1>1. \A f \in Brought(kind) : f # "sender" => req[f] = args[f]
  BY DEF AskedBack
<1>2. kind = "ERC1155_BATCH" =>
        /\ req["token_ids"] = args["token_ids"] /\ req["amounts"] = args["amounts"]
        /\ Len(args["token_ids"]) = Len(args["amounts"])
  <2> SUFFICES ASSUME kind = "ERC1155_BATCH"
               PROVE  /\ req["token_ids"] = args["token_ids"] /\ req["amounts"] = args["amounts"]
                      /\ Len(args["token_ids"]) = Len(args["amounts"])
    OBVIOUS
  <2>1. Values(kind) = <<"token_ids", "amounts">>
    BY DEF Values
  <2>2. ToSet(<<"token_ids", "amounts">>) = {"token_ids", "amounts"}
    BY DEF ToSet
  <2>3. {"token_ids", "amounts"} \subseteq Brought(kind)
    BY <2>1, <2>2 DEF Brought
  <2>4. Len(args["token_ids"]) = Len(args["amounts"])
    BY DEF Paired
  <2>5. QED
    BY <1>1, <2>3, <2>4
<1>3. ~invalid
  <2>1. HasApp(kind) <=> kind \notin {"ETHER", "ERC20"}
    BY DEF HasApp
  <2>2. kind = "ERC1155_BATCH" => Len(req["token_ids"]) = Len(req["amounts"])
    BY <1>2
  <2>3. QED
    BY <2>1, <2>2
<1>4. CASE kind = "ETHER"
  <2>1. ether
    BY <1>3, <1>4
  <2>2. out = [error |-> "SUCCESS",
               voucher |-> [address |-> req.receiver, value |-> req.amount, words |-> <<>>]]
    BY <1>3, <2>1 DEF EncodeVoucher
  <2>3. "amount" \in Brought(kind)
    <3>1. Values(kind) = <<"amount">> /\ "amount" \in ToSet(<<"amount">>)
      BY <1>4 DEF Values, ToSet
    <3>2. QED
      BY <3>1 DEF Brought
  <2>4. req["amount"] = args["amount"] /\ req["receiver"] = args["sender"]
    BY <1>1, <2>3 DEF AskedBack
  <2>5. QED
    BY <1>4, <2>2, <2>4 DEF Repays
<1>5. CASE kind # "ETHER"
  <2>1. kind \in Contracts /\ ~ether
    BY <1>5 DEF Contracts
  <2>2. HasLists(kind, req)
    BY <2>1 DEF AskedBack
  <2>3. /\ room \in Nat /\ WordsNeeded(kind, req) <= room
        /\ Tight(kind, req, room) <=> kind = "ERC1155_BATCH" /\ req["token_ids"] = <<>>
    <3>1. req["exec_layer_data"] = <<>>
      BY DEF AskedBack
    <3>2. kind = "ERC1155_BATCH" => Len(req["token_ids"]) = Len(req["amounts"])
      BY <1>2
    <3>3. QED
      BY <2>1, <2>2, <3>1, <3>2, EchoRoom
  <2> HIDE DEF room
  <2>4. tight <=> kind = "ERC1155_BATCH" /\ args["token_ids"] = <<>>
    BY <1>2, <2>3 DEF Tight
  <2>5. put.error = "SUCCESS"
    BY <2>1, <2>2, <2>3, PutsGo
  <2>6. CASE tight
    <3>1. out = [error |-> "ENOBUFS", voucher |-> NoVoucher]
      BY <1>3, <2>1, <2>6 DEF EncodeVoucher, room
    <3>2. QED
      BY <2>4, <2>6, <3>1
  <2>7. CASE ~tight
    <3>1. out = [error |-> put.error,
                 voucher |-> [address |-> req.token, value |-> 0, words |-> put.words]]
      BY <1>3, <2>1, <2>7 DEF EncodeVoucher, room
    <3>2. out.error = "SUCCESS"
      BY <2>5, <3>1
    <3>3. VoucherPays(kind, req, room, out.voucher)
      BY <2>2, <2>3, <3>2, EncoderPays DEF room
    <3>4. /\ out.voucher.address = req["token"] /\ out.voucher.value = 0
          /\ PaysWith(kind, req, out.voucher.words)
      BY <1>5, <3>3 DEF VoucherPays
    <3>5. "token" \in Brought(kind) /\ req["receiver"] = args["sender"] /\ req["sender"] = App
      BY <1>5 DEF Brought, AskedBack
    <3>6. /\ \A f \in ToSet(Values(kind)) : f \in ToSet(Parameters(kind)) /\ f \in Brought(kind)
                                            /\ f # "sender"
          /\ "receiver" \in ToSet(Parameters(kind))
          /\ kind # "ERC20" => "sender" \in ToSet(Parameters(kind))
      BY <2>1, ValuesAreParameters
    <3>7. Repays(out.voucher, kind, args)
      BY <1>1, <1>5, <3>4, <3>5, <3>6 DEF Repays, PaysWith
    <3>8. QED
      BY <2>4, <2>7, <3>2, <3>7
  <2>8. QED
    BY <2>6, <2>7
<1>6. QED
  BY <1>4, <1>5

-----------------------------------------------------------------------------
(* The echo application.  Until a request is answered, what is invariant   *)
(* is the answer it would get.                                             *)

Answer == [request |-> request, accepted |-> accept_previous_request,
           emitted |-> outputs.vouchers, failed |-> outputs.failed]

Right(a) == AcceptedIsRepaid(a) /\ GoodIsAccepted(a) /\ RefusedHasNoVoucher(a)

Handled == {"inspect", "advance", "other"}

EchoInv ==
  /\ request \in Requests \cup {NoRequest}
  /\ outputs = [vouchers |-> outputs.vouchers, reports |-> outputs.reports,
                failed |-> outputs.failed]
  /\ at = "waiting" => outputs = NoOutputs
  /\ at \in Handled => request \in Requests /\ request.type = at /\ outputs = NoOutputs
  /\ at = "loop" /\ request # NoRequest => Right(Answer)
  /\ \E S : answered \in Seq(S)
  /\ DepositsAreRepaid

\* The verdict on a request for which no voucher was emitted.
RightlyRefused(req, failed) ==
  failed \/ ~(req.type = "inspect" \/ (GoodDeposit(req) /\ ~EmptyBatch(req)))

LEMMA RefusedRight ==
  ASSUME NEW a, a.accepted = FALSE, a.emitted = <<>> \/ a.failed = TRUE, a.failed \in BOOLEAN,
         RightlyRefused(a.request, a.failed)
  PROVE  Right(a)
<1>1. AcceptedIsRepaid(a)
  BY Zenon DEF AcceptedIsRepaid
<1>2. RefusedHasNoVoucher(a)
  BY Zenon DEF RefusedHasNoVoucher
<1>3. GoodIsAccepted(a)
  BY Zenon DEF GoodIsAccepted, RightlyRefused
<1>4. QED
  BY <1>1, <1>2, <1>3, Zenon DEF Right

\* The echo application's answer to a deposit, by what its handler does.
LEMMA DepositRight ==
  ASSUME NEW kind \in TokenKinds, EchoInv, Deposit(kind)
  PROVE  Right(Answer)'
<1> DEFINE type    == <<"DEPOSIT", kind>>
           args    == request.from.args
           before  == [f \in FieldNames |-> Junk]
           decoded == DecodeAdvance(type, request.payload)
           fields  == FieldsAfter(type, request.payload, decoded.written, before)
           req     == VoucherReq(fields)
           encoded == EncodeVoucher(kind, HasApp(kind), req, PayloadRoom(kind, req))
<1>1. /\ at = "advance" /\ request.sender = kind /\ request' = request
      /\ \/ decoded.error # "SUCCESS" /\ RefuseWith(decoded.error)
         \/ /\ decoded.error = "SUCCESS" /\ encoded.error # "SUCCESS"
            /\ RefuseWith(EncodeError(kind, encoded.error))
         \/ /\ decoded.error = "SUCCESS" /\ encoded.error = "SUCCESS"
            /\ \/ /\ HandlerReturns(TRUE)
                  /\ outputs' = [outputs EXCEPT !.vouchers = Append(@, encoded.voucher)]
               \/ /\ HandlerReturns(FALSE)
                  /\ \E reports \in {<<"EINVAL">>, <<>>} :
                       outputs' = [outputs EXCEPT !.reports = reports, !.failed = TRUE]
  BY DEF Deposit
<1>2. /\ request \in Requests /\ request.type = "advance"
      /\ outputs = [vouchers |-> <<>>, reports |-> <<>>, failed |-> FALSE]
  BY <1>1 DEF EchoInv, Handled, NoOutputs
<1>3. /\ request.from.kind = kind /\ request.from.whole \in BOOLEAN /\ AreFields(args)
      /\ SentByPortal(request.from, request.payload)
  BY <1>1, <1>2, RequestsAssumption
<1>4. /\ decoded.error = "SUCCESS" <=> request.from.whole /\ Paired(type, args)
      /\ decoded.error = "SUCCESS" =>
           /\ decoded.written = ToSet(Reads(type)) /\ AllSent(type, args, request.payload)
           /\ DecoderOf(type, request.payload) = type
  <2>1. Portal(kind, type, args, request.from, request.payload)
    BY <1>3 DEF Portal
  <2> HIDE DEF type, args
  <2>2. DepositRead(type, args, request.from, request.payload, decoded)
    BY <2>1, DepositDecoded
  <2>3. QED
    BY <2>2 DEF DepositRead
<1>5. GoodDeposit(request) <=> request.from.whole /\ Paired(type, args)
  BY <1>1, <1>2, <1>3 DEF GoodDeposit, Paired
<1>6. EmptyBatch(request) <=> kind = "ERC1155_BATCH" /\ args["token_ids"] = <<>>
  BY <1>1 DEF EmptyBatch
<1>7. ASSUME decoded.error = "SUCCESS"
      PROVE  /\ encoded.error = "SUCCESS" <=> ~EmptyBatch(request)
             /\ encoded.error = "SUCCESS" => Repays(encoded.voucher, kind, args)
  <2>1. /\ AllSent(type, args, request.payload) /\ DecoderOf(type, request.payload) = type
        /\ Paired(type, args) /\ decoded.written = ToSet(Reads(type))
    BY <1>4, <1>7
  <2>2. fields = FieldsAfter(type, request.payload, ToSet(Reads(type)), before)
    BY <2>1
  <2> HIDE DEF decoded, before, fields, args
  <2>3. AskedBack(kind, args, req)
    BY <1>3, <2>1, <2>2, VoucherAsked
  <2> HIDE DEF req
  <2>4. /\ encoded.error = "SUCCESS" <=> ~(kind = "ERC1155_BATCH" /\ args["token_ids"] = <<>>)
        /\ encoded.error = "SUCCESS" => Repays(encoded.voucher, kind, args)
    BY <2>1, <2>3, EchoEncodes
  <2>5. QED
    BY <1>6, <2>4
<1> HIDE DEF decoded, encoded, type, before, fields, req
<1>8. ASSUME NEW error, RefuseWith(error), RightlyRefused(request, FALSE)
      PROVE  Right(Answer)'
  <2>1. accept_previous_request' = FALSE /\ outputs'.vouchers = <<>> /\ outputs'.failed = FALSE
    BY <1>2, <1>8 DEF RefuseWith, HandlerReturns
  <2>2. PICK a : a = Answer'
    OBVIOUS
  <2>3. a.request = request /\ a.accepted = FALSE /\ a.emitted = <<>> /\ a.failed = FALSE
    BY <1>1, <2>1, <2>2 DEF Answer
  <2>4. Right(a)
    BY <1>8, <2>3, RefusedRight
  <2>5. QED
    BY <2>2, <2>4, Zenon DEF Right, AcceptedIsRepaid, GoodIsAccepted, RefusedHasNoVoucher,
      GoodDeposit, EmptyBatch, Repays
<1>9. CASE decoded.error # "SUCCESS" /\ RefuseWith(decoded.error)
  <2>1. ~GoodDeposit(request)
    BY <1>4, <1>5, <1>9
  <2>2. RightlyRefused(request, FALSE)
    BY <1>2, <2>1 DEF RightlyRefused
  <2>3. QED
    BY <1>8, <1>9, <2>2
<1>10. CASE decoded.error = "SUCCESS" /\ encoded.error # "SUCCESS"
            /\ RefuseWith(EncodeError(kind, encoded.error))
  <2>1. EmptyBatch(request)
    BY <1>7, <1>10
  <2>2. RightlyRefused(request, FALSE)
    BY <1>2, <2>1 DEF RightlyRefused
  <2>3. QED
    BY <1>8, <1>10, <2>2
<1>11. CASE /\ decoded.error = "SUCCESS" /\ encoded.error = "SUCCESS"
            /\ HandlerReturns(TRUE)
            /\ outputs' = [outputs EXCEPT !.vouchers = Append(@, encoded.voucher)]
  <2>1. /\ accept_previous_request' = TRUE /\ outputs'.failed = FALSE
        /\ outputs'.vouchers = <<encoded.voucher>>
    <3>1. Append(<<>>, encoded.voucher) = <<encoded.voucher>>
      OBVIOUS
    <3>2. QED
      BY <1>2, <1>11, <3>1 DEF HandlerReturns
  <2>2. PICK a : a = Answer'
    OBVIOUS
  <2>3. /\ a.request = request /\ a.accepted = TRUE /\ a.failed = FALSE
        /\ a.emitted = <<encoded.voucher>> /\ Len(a.emitted) = 1 /\ a.emitted[1] = encoded.voucher
    BY <1>1, <2>1, <2>2 DEF Answer
  <2>4. GoodDeposit(request) /\ ~EmptyBatch(request) /\ Repays(encoded.voucher, kind, args)
    BY <1>4, <1>5, <1>7, <1>11
  <2>5. AcceptedIsRepaid(a)
    BY <1>1, <2>3, <2>4 DEF AcceptedIsRepaid
  <2>6. GoodIsAccepted(a)
    BY <2>3, <2>4, Zenon DEF GoodIsAccepted
  <2>7. RefusedHasNoVoucher(a)
    BY <2>3, Zenon DEF RefusedHasNoVoucher
  <2>8. QED
    BY <2>2, <2>5, <2>6, <2>7, Zenon DEF Right
<1>12. CASE /\ HandlerReturns(FALSE)
            /\ \E reports \in {<<"EINVAL">>, <<>>} :
                 outputs' = [outputs EXCEPT !.reports = reports, !.failed = TRUE]
  <2>1. accept_previous_request' = FALSE /\ outputs'.vouchers = <<>> /\ outputs'.failed = TRUE
    BY <1>2, <1>12 DEF HandlerReturns
  <2>2. PICK a : a = Answer'
    OBVIOUS
  <2>3. a.request = request /\ a.accepted = FALSE /\ a.failed = TRUE
    BY <1>1, <2>1, <2>2 DEF Answer
  <2>4. Right(a)
    BY <2>3, RefusedRight DEF RightlyRefused
  <2>5. QED
    BY <2>2, <2>4, Zenon
<1>13. QED
  BY <1>1, <1>9, <1>10, <1>11, <1>12

AllRight(s) == \A k \in DOMAIN s : Right(s[k])

LEMMA RepaidIsRight ==
  /\ DepositsAreRepaid <=> AllRight(answered)
  /\ DepositsAreRepaid' <=> AllRight(answered')
<1>1. DepositsAreRepaid <=> AllRight(answered)
  BY DEF DepositsAreRepaid, AllRight, Right
<1>2. DepositsAreRepaid' <=> AllRight(answered')
  BY DEF DepositsAreRepaid, AllRight, Right, AcceptedIsRepaid, GoodIsAccepted,
    RefusedHasNoVoucher, GoodDeposit, EmptyBatch, Repays
<1>3. QED
  BY <1>1, <1>2

\* What Right says of the answer to a request that the step leaves as it is.
LEMMA RightNext ==
  ASSUME NEW a, a = Answer'
  PROVE  Right(a) <=> Right(Answer)'
  BY Zenon

LEMMA EchoStep ==
  ASSUME EchoInv, EchoNext
  PROVE  EchoInv'
<1> DEFINE Shape(o) == o = [vouchers |-> o.vouchers, reports |-> o.reports, failed |-> o.failed]
<1>1. /\ request \in Requests \cup {NoRequest} /\ Shape(outputs)
      /\ at = "waiting" => outputs = NoOutputs
      /\ at \in Handled => request \in Requests /\ request.type = at /\ outputs = NoOutputs
      /\ at = "loop" /\ request # NoRequest => Right(Answer)
      /\ \E S : answered \in Seq(S)
      /\ DepositsAreRepaid
  BY DEF EchoInv
<1>2. Shape(NoOutputs) /\ NoOutputs.vouchers = <<>> /\ NoOutputs.failed = FALSE
      /\ NoOutputs.reports = <<>>
  BY DEF NoOutputs
<1>3. "loop" \notin Handled /\ "waiting" \notin Handled /\ "exited" \notin Handled
  BY DEF Handled
<1>4. answered' = answered => DepositsAreRepaid' /\ \E S : answered' \in Seq(S)
  BY <1>1, RepaidIsRight
<1> DEFINE Kept == request' = request /\ answered' = answered
<1>5. ASSUME Kept, at' = "loop", Shape(outputs'), Right(Answer)'
      PROVE  EchoInv'
  BY <1>1, <1>3, <1>4, <1>5 DEF EchoInv
<1>6. ASSUME NEW a, a = Answer', Right(a) PROVE Right(Answer)'
  BY <1>6, RightNext
<1>7. CASE Finish
  <2>1. /\ at' = "waiting" /\ request' = NoRequest /\ outputs' = NoOutputs
        /\ answered' = IF request = NoRequest THEN answered ELSE Append(answered, Answer)
    BY <1>7 DEF Finish, Answer
  <2>2. DepositsAreRepaid' /\ \E S : answered' \in Seq(S)
    <3>1. CASE request = NoRequest
      BY <1>4, <2>1, <3>1
    <3>2. CASE request # NoRequest
      <4>1. Right(Answer) /\ answered' = Append(answered, Answer)
        BY <1>1, <1>7, <2>1, <3>2 DEF Finish
      <4>2. PICK S, e : answered \in Seq(S) /\ e = Answer
        BY <1>1
      <4>3. \A k \in DOMAIN answered : Right(answered[k])
        BY <1>1, RepaidIsRight DEF AllRight
      <4>4. answered' = Append(answered, e)
        BY <4>1, <4>2
      <4>5. answered \in Seq(S \cup {e}) /\ e \in S \cup {e}
        BY <4>2
      <4>6. /\ Append(answered, e) \in Seq(S \cup {e})
            /\ \A k \in DOMAIN Append(answered, e) :
                 \/ k \in DOMAIN answered /\ Append(answered, e)[k] = answered[k]
                 \/ Append(answered, e)[k] = e
        BY <4>5
      <4>7. \A k \in DOMAIN answered' : Right(answered'[k])
        BY <4>1, <4>2, <4>3, <4>4, <4>6, Zenon
      <4>8. DepositsAreRepaid'
        BY <4>7, RepaidIsRight DEF AllRight
      <4>9. QED
        BY <4>4, <4>6, <4>8
    <3>3. QED
      BY <3>1, <3>2
  <2>3. QED
    BY <1>2, <1>3, <2>1, <2>2 DEF EchoInv
<1>8. CASE FinishFails
  <2>1. /\ Kept /\ at' = "loop" /\ accept_previous_request' = FALSE
        /\ outputs' = [outputs EXCEPT !.failed = TRUE]
    BY <1>8 DEF FinishFails
  <2>2. Shape(outputs') /\ outputs'.failed = TRUE
    BY <1>1, <2>1
  <2>3. PICK a : a = Answer'
    OBVIOUS
  <2>4. a.accepted = FALSE /\ a.failed = TRUE
    BY <2>1, <2>2, <2>3 DEF Answer
  <2>5. Right(a)
    BY <2>4, RefusedRight DEF RightlyRefused
  <2>6. QED
    BY <1>5, <1>6, <2>1, <2>2, <2>3, <2>5
<1>9. CASE Deliver
  <2>1. PICK next \in Requests : request' = next /\ at' = next.type
    BY <1>9 DEF Deliver
  <2>2. next.type \in Handled
    BY RequestsAssumption DEF Handled
  <2>3. outputs' = NoOutputs /\ answered' = answered
    BY <1>1, <1>9 DEF Deliver
  <2>4. QED
    BY <1>2, <1>3, <1>4, <2>1, <2>2, <2>3 DEF EchoInv
<1>10. CASE DeliverFails
  <2>1. /\ request' \in Requests /\ at' = "loop" /\ accept_previous_request' = FALSE
        /\ outputs' = [NoOutputs EXCEPT !.failed = TRUE] /\ answered' = answered
    BY <1>1, <1>10 DEF DeliverFails
  <2>2. Shape(outputs') /\ outputs'.failed = TRUE
    BY <1>2, <2>1
  <2>3. PICK a : a = Answer'
    OBVIOUS
  <2>4. a.accepted = FALSE /\ a.failed = TRUE
    BY <2>1, <2>2, <2>3 DEF Answer
  <2>5. Right(a)
    BY <2>4, RefusedRight DEF RightlyRefused
  <2>6. QED
    BY <1>3, <1>4, <1>6, <2>1, <2>2, <2>3, <2>5 DEF EchoInv
<1>11. CASE InvalidRequest
  <2>1. /\ Kept /\ at' = "loop" /\ accept_previous_request' = FALSE /\ outputs' = NoOutputs
        /\ request.type = "other"
    BY <1>1, <1>11 DEF InvalidRequest, HandlerReturns, Handled
  <2>2. PICK a : a = Answer'
    OBVIOUS
  <2>3. a.request = request /\ a.accepted = FALSE /\ a.emitted = <<>> /\ a.failed = FALSE
    BY <1>2, <2>1, <2>2 DEF Answer
  <2>4. RightlyRefused(a.request, a.failed)
    BY <2>1, <2>3 DEF RightlyRefused, GoodDeposit
  <2>5. Right(a)
    BY <2>3, <2>4, RefusedRight
  <2>6. QED
    BY <1>2, <1>5, <1>6, <2>1, <2>2, <2>5
<1>12. CASE InspectState
  <2>1. /\ Kept /\ at' = "loop" /\ request.type = "inspect" /\ outputs = NoOutputs
        /\ \/ accept_previous_request' = TRUE /\ outputs' = outputs
           \/ accept_previous_request' = FALSE /\ outputs' = [outputs EXCEPT !.failed = TRUE]
    BY <1>1, <1>12 DEF InspectState, HandlerReturns, Handled
  <2>2. PICK a : a = Answer'
    OBVIOUS
  <2>3. CASE accept_previous_request' = TRUE /\ outputs' = outputs
    <3>1. a.request = request /\ a.accepted = TRUE /\ a.emitted = <<>> /\ a.failed = FALSE
      BY <1>2, <2>1, <2>2, <2>3 DEF Answer
    <3>2. AcceptedIsRepaid(a) /\ GoodIsAccepted(a) /\ RefusedHasNoVoucher(a)
      BY <2>1, <3>1 DEF AcceptedIsRepaid, GoodIsAccepted, RefusedHasNoVoucher
    <3>3. Right(a)
      BY <3>2 DEF Right
    <3>4. Shape(outputs')
      BY <1>1, <2>3
    <3>5. QED
      BY <1>5, <1>6, <2>1, <2>2, <3>3, <3>4
  <2>4. CASE accept_previous_request' = FALSE /\ outputs' = [outputs EXCEPT !.failed = TRUE]
    <3>1. Shape(outputs') /\ outputs'.failed = TRUE
      BY <1>1, <2>4
    <3>2. a.accepted = FALSE /\ a.failed = TRUE
      BY <2>2, <2>4, <3>1 DEF Answer
    <3>3. Right(a)
      BY <3>2, RefusedRight DEF RightlyRefused
    <3>4. QED
      BY <1>5, <1>6, <2>1, <2>2, <3>1, <3>3
  <2>5. QED
    BY <2>1, <2>3, <2>4
<1>13. CASE ForceExit
  <2>1. Kept /\ at' = "exited" /\ outputs' = [outputs EXCEPT !.failed = TRUE]
    BY <1>13 DEF ForceExit
  <2>2. Shape(outputs')
    BY <1>1, <2>1
  <2>3. QED
    BY <1>1, <1>3, <1>4, <2>1, <2>2 DEF EchoInv
<1>14. CASE InvalidAdvance
  <2>1. /\ Kept /\ at' = "loop" /\ accept_previous_request' = FALSE
        /\ request.type = "advance" /\ request.sender \notin TokenKinds /\ outputs = NoOutputs
    BY <1>1, <1>14 DEF InvalidAdvance, RefuseWith, HandlerReturns, Handled
  <2>2. PICK reports : outputs' = [outputs EXCEPT !.reports = reports]
    BY <1>14 DEF InvalidAdvance, RefuseWith
  <2>3. Shape(outputs') /\ outputs'.vouchers = <<>> /\ outputs'.failed = FALSE
    BY <1>1, <1>2, <2>1, <2>2
  <2>4. PICK a : a = Answer'
    OBVIOUS
  <2>5. a.request = request /\ a.accepted = FALSE /\ a.emitted = <<>> /\ a.failed = FALSE
    BY <2>1, <2>3, <2>4 DEF Answer
  <2>6. RightlyRefused(a.request, a.failed)
    BY <2>1, <2>5 DEF RightlyRefused, GoodDeposit
  <2>7. Right(a)
    BY <2>5, <2>6, RefusedRight
  <2>8. QED
    BY <1>5, <1>6, <2>1, <2>3, <2>4, <2>7
<1>15. ASSUME NEW kind \in TokenKinds, Deposit(kind)
       PROVE  EchoInv'
  <2>1. Right(Answer)'
    BY <1>15, DepositRight
  <2>2. Kept /\ at' = "loop"
    BY <1>15 DEF Deposit, RefuseWith, HandlerReturns
  <2>3. Shape(outputs')
    BY <1>1, <1>15 DEF Deposit, RefuseWith
  <2>4. QED
    BY <1>5, <2>1, <2>2, <2>3
<1>16. QED
  BY <1>7, <1>8, <1>9, <1>10, <1>11, <1>12, <1>13, <1>14, <1>15 DEF EchoNext, Handle

LEMMA EchoKept == EchoInv /\ [EchoNext]_echoVars => EchoInv'
<1> SUFFICES ASSUME EchoInv, [EchoNext]_echoVars PROVE EchoInv'
  OBVIOUS
<1>1. CASE UNCHANGED echoVars
  <2>1. /\ at' = at /\ accept_previous_request' = accept_previous_request
        /\ request' = request /\ outputs' = outputs /\ answered' = answered
    BY <1>1 DEF echoVars
  <2>2. Answer' = Answer
    BY <2>1 DEF Answer
  <2>3. DepositsAreRepaid'
    BY <2>1, RepaidIsRight DEF EchoInv
  <2>4. ASSUME Right(Answer) PROVE Right(Answer)'
    <3>1. PICK a : a = Answer'
      OBVIOUS
    <3>2. Right(a)
      BY <2>2, <2>4, <3>1
    <3>3. QED
      BY <3>1, <3>2, RightNext
  <2>5. QED
    BY <2>1, <2>3, <2>4 DEF EchoInv
<1>2. QED
  BY <1>1, EchoStep

LEMMA EchoStart == EchoInit => EchoInv
  BY DEF EchoInit, EchoInv, NoOutputs, Handled, DepositsAreRepaid

LEMMA EchoSteps == [ClientNext]_clientVars => [EchoNext]_echoVars
  BY DEF ClientNext, clientVars, Caller, Echo, Terminated

\* Every deposit that is accepted was whole, of lists that match, and paid back with
\* one voucher; a good one is accepted unless a call to the device failed: for lists
\* and data of any length, whatever requests come and whichever calls fail.
THEOREM RepaymentHolds == ClientSpec => []DepositsAreRepaid
<1>1. ClientInit => EchoInv
  BY EchoStart DEF ClientInit
<1>2. EchoInv => DepositsAreRepaid
  BY DEF EchoInv
<1>3. QED
  BY <1>1, <1>2, EchoKept, EchoSteps, PTL DEF ClientSpec

=============================================================================
