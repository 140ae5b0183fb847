----------------------------- MODULE UsageMath -----------------------------
(***************************************************************************)
(* The arithmetic of metered prices: what is beyond an allowance, how      *)
(* many blocks an overage is, what it costs.  Units and money are          *)
(* integers; 0 units to a block stands for no block size.                  *)
(***************************************************************************)
EXTENDS Integers

AtLeast(n, floor) == IF n > floor THEN n ELSE floor
AtMost(n, ceiling) == IF n < ceiling THEN n ELSE ceiling

\* computeQuota
Overage(used, included) == AtLeast(AtLeast(used, 0) - AtLeast(included, 0), 0)

\* A started block is charged in full.
BillableBlocks(overage, size) ==
  LET block == AtLeast(size, 1)
  IN IF overage <= 0 THEN 0 ELSE (overage + block - 1) \div block

CappedFeeUncapped(amount, cap) == amount
CappedFee(amount, cap) == AtMost(amount, AtLeast(cap, 0))

\* The OVERAGE line of an invoice: none without an overage or a rate.
UsageCharge(rating, used) ==
  LET overage == Overage(used, rating.included)
  IN IF overage > 0 /\ rating.unitAmount > 0
     THEN CappedFee(BillableBlocks(overage, rating.unitSize) * rating.unitAmount, rating.cap)
     ELSE 0
============================================================================
