-------------------------------- MODULE VatSplit --------------------------------
(***************************************************************************)
(* zatca-vat.ts: the split of a VAT-inclusive price into net and VAT, in   *)
(* halalas (hundredths of a riyal), at the 15% the API always uses.        *)
(***************************************************************************)
EXTENDS Integers

\* round2(gross / 1.15), half up: gross * 20 / 23 and a half, rounded down.
NetOf(gross) == (40 * gross + 23) \div 46

\* Never rounded itself, so that the two parts add up to the price.
VatOf(gross) == gross - NetOf(gross)
================================================================================
