------------------------------ MODULE Amounts ------------------------------
(***************************************************************************)
(* The arithmetic of cma_amount_t (src/src/utils.cpp): a sum and a         *)
(* difference of two numbers of Width bytes, most significant first, taken *)
(* byte by byte from the last, with a flag that says whether the result    *)
(* fits.  The ledger takes every new balance and supply from it and        *)
(* refuses the call when the flag is false (ledger_impl.cpp:1594, 1611,    *)
(* 1636, 1648, 1686, 1699).                                                *)
(***************************************************************************)
EXTENDS Integers, Functions

CONSTANTS
  Base,    \* values of a byte, 256 in the code
  Width    \* bytes of an amount, 32 in the code

ASSUME AmountAssumption == Base \in Nat \ {0, 1} /\ Width \in Nat \ {0}

Byte   == 0..(Base - 1)
Amount == [1..Width -> Byte]

VARIABLES
  op,                  \* which of the two functions was called
  amount_a, amount_b,  \* its operands
  res,                 \* where the result goes
  i,                   \* bytes done
  carry,               \* carried, or borrowed, from the bytes done
  returned,            \* "none" yet; "yes" is true, "no" is false
  (* Not in the code, for the proof: the weight of the next byte, and the
     numbers that the bytes done make up in the operands and the result. *)
  weight, done_a, done_b, done_res

code  == <<op, amount_a, amount_b, res, i, carry, returned>>
ghost == <<weight, done_a, done_b, done_res>>
vars  == <<code, ghost>>

\* The callers pass a cleared local for the result.
Init ==
  /\ op \in {"add", "sub"}
  /\ amount_a \in Amount /\ amount_b \in Amount
  /\ res = [j \in 1..Width |-> 0]
  /\ i = 0 /\ carry = 0
  /\ returned = "none"
  /\ weight = 1 /\ done_a = 0 /\ done_b = 0 /\ done_res = 0

\* Fault: the least significant byte taken for the first.
FirstByteFirst == i + 1

j_ind == Width - i
a_j   == amount_a[j_ind]
b_j   == amount_b[j_ind]

\* Fault: the carry of a byte of ones is lost.
SumCarryOfOperands == (a_j + b_j) \div Base

\* The byte stored, and what the next byte gets carried: tmp fits uint16_t.
SumByte  == (carry + a_j + b_j) % Base
SumCarry == (carry + a_j + b_j) \div Base

Borrow   == IF carry + b_j > a_j THEN 1 ELSE 0
DiffByte == a_j + Borrow * Base - carry - b_j

Store(byte, next_carry) ==
  /\ res' = [res EXCEPT ![j_ind] = byte]
  /\ carry' = next_carry
  /\ i' = i + 1
  /\ weight' = weight * Base
  /\ done_a' = done_a + a_j * weight
  /\ done_b' = done_b + b_j * weight
  /\ done_res' = done_res + byte * weight
  /\ UNCHANGED <<op, amount_a, amount_b, returned>>

AddByte == op = "add" /\ i < Width /\ Store(SumByte, SumCarry)
SubByte == op = "sub" /\ i < Width /\ Store(DiffByte, Borrow)

Return ==
  /\ i = Width /\ returned = "none"
  /\ returned' = (IF carry = 0 THEN "yes" ELSE "no")
  /\ UNCHANGED <<op, amount_a, amount_b, res, i, carry, ghost>>

Next == AddByte \/ SubByte \/ Return

Spec == Init /\ [][Next]_vars

is_zero(amount) == \A j \in 1..Width : amount[j] = 0

-----------------------------------------------------------------------------
\* The number that the last n bytes of an amount make up.
Power[n \in Nat] == IF n = 0 THEN 1 ELSE Base * Power[n - 1]

Weighed(amount) == [j \in 1..Width |-> amount[j] * Power[Width - j]]

LastBytes(amount, n) == SumFunctionOnSet(Weighed(amount), (Width - n + 1)..Width)

\* Types; the carry is one bit, and a byte stored is a byte: the cast to
\* uint8_t loses nothing in the difference.
TypeOK ==
  /\ op \in {"add", "sub"}
  /\ amount_a \in Amount /\ amount_b \in Amount /\ res \in Amount
  /\ i \in 0..Width
  /\ carry \in 0..1
  /\ returned \in {"none", "yes", "no"}

\* The code returns true just when the sum, or the difference, is a number of
\* Width bytes, and then that is the result: amount_checked_add and
\* amount_checked_sub are + and - with the overflow reported.
Checked ==
  returned # "none" =>
    /\ done_a < weight /\ done_b < weight /\ done_res < weight
    /\ op = "add" => /\ returned = "yes" <=> done_a + done_b < weight
                     /\ returned = "yes" => done_res = done_a + done_b
    /\ op = "sub" => /\ returned = "yes" <=> done_b <= done_a
                     /\ returned = "yes" => done_res = done_a - done_b

\* The numbers that Checked is about are those of the bytes done; and a difference
\* has only zero bytes, for set_account_asset_balance and remove_asset, just when
\* the operands are equal.
BytesAreNumbers ==
  /\ weight = Power[i]
  /\ done_a = LastBytes(amount_a, i)
  /\ done_b = LastBytes(amount_b, i)
  /\ done_res = LastBytes(res, i)
  /\ op = "sub" /\ returned # "none" => (is_zero(res) <=> amount_a = amount_b)
=============================================================================
