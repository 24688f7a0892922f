----------------------------- MODULE OrderPricing -----------------------------
(***************************************************************************)
(* The amounts of an order.  CreateOrder adds up float64 values: VAT is a  *)
(* tenth of the subtotal and the total is the sum of both.  Each of the    *)
(* three is rounded for itself when it is stored as NUMERIC(12,2).         *)
(*                                                                         *)
(* Amounts are whole hundredths.  A price has two decimals, so a subtotal  *)
(* is whole; a tenth of it may lie half-way between two hundredths, where  *)
(* the error of the float decides, for the VAT and for the total           *)
(* independently.  Elsewhere that error is too small to matter.            *)
(***************************************************************************)
EXTENDS Integers

Amounts == [subtotal: Int, vat: Int, total: Int]

\* y is a hundredth nearest to tenths / 10 of them.
Rounded(tenths, y) == 10 * y - tenths \in -5..5

\* What the row of an order may hold.
Priced(a) ==
    /\ a \in Amounts
    /\ Rounded(a.subtotal, a.vat)
    /\ Rounded(11 * a.subtotal, a.total)

\* By how much the total is more than its two parts.
Excess(a) == a.total - a.subtotal - a.vat

===============================================================================
