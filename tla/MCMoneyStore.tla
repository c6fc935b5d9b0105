---------------------------- MODULE MCMoneyStore ----------------------------
(* One voucher group, created in the first month.                           *)
EXTENDS MoneyStore

CONSTANT g

FirstMonth == [x \in Groups |-> 0]
=============================================================================
