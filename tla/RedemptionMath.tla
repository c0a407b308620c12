--------------------------- MODULE RedemptionMath ---------------------------
(***************************************************************************)
(* RedemptionService.computeMath (redemption.service.ts): what a number of *)
(* points is worth against a subtotal, in minor currency units.  Amounts   *)
(* are bigint and non-negative, so `/` is integer division.                *)
(***************************************************************************)
EXTENDS Integers

Smaller(a, b) == IF a < b THEN a ELSE b

RawDiscount(points, rate) == points \div rate
MaxDiscount(subtotal, sharePct) == (subtotal * sharePct) \div 100

DiscountMinor(points, subtotal, rate, sharePct) ==
    Smaller(RawDiscount(points, rate), MaxDiscount(subtotal, sharePct))

=============================================================================
