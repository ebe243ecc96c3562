-------------------------------- MODULE Units --------------------------------
(***************************************************************************)
(* Amounts as people write them and as the engine counts them              *)
(* (mcp-server/src/units.rs). A decimal is its sign, its whole part and    *)
(* the digits after the point, most significant first; separators and      *)
(* spaces are left out.                                                    *)
(***************************************************************************)
EXTENDS Integers, Sequences, FiniteSetsExt, Reference

LOCAL Seqs == INSTANCE SequencesExt

CONSTANTS
  PriceDecimals,     \* PRICE_DECIMALS
  QtyDecimals,       \* QTY_DECIMALS
  NotionalDecimals,  \* NOTIONAL_DECIMALS: one tick times one lot
  MaxWord            \* the largest integer of the wire and of the tools

ASSUME UnitsAssumption ==
  /\ {PriceDecimals, QtyDecimals, NotionalDecimals, MaxWord} \subseteq Nat
  /\ NotionalDecimals = PriceDecimals + QtyDecimals

Pow10(d) == 10 ^ d

Decimal == [negative : BOOLEAN, whole : Nat, digits : Seq(0 .. 9)]
Invalid == -1

Number(digits) == Seqs!FoldLeft(LAMBDA n, d : 10 * n + d, 0, digits)

(* "width" digits of n.                                                    *)
Digits(n, width) == [i \in 1 .. width |-> (n \div Pow10(width - i)) % 10]

(* Positive, exact and in range, or refused.                               *)
ParseFixed(t, decimals) ==
  LET value == t.whole * Pow10(decimals)
                 + Number(t.digits) * Pow10(decimals - Len(t.digits))
  IN IF t.negative \/ Len(t.digits) > decimals \/ value > MaxWord \/ value = 0
     THEN Invalid ELSE value

FormatFixed(value, decimals) ==
  [negative |-> FALSE, whole |-> value \div Pow10(decimals),
   digits |-> Digits(value % Pow10(decimals), decimals)]

ParsePrice(t) == ParseFixed(t, PriceDecimals)
ParseQty(t) == ParseFixed(t, QtyDecimals)
Usdc(ticks) == FormatFixed(ticks, PriceDecimals)
Eth(lots) == FormatFixed(lots, QtyDecimals)

HalfUp(n, d) == n \div d + (IF n % d >= (d + 1) \div 2 THEN 1 ELSE 0)

(* Micro-USDC, shown in cents.                                             *)
UsdcFromMicro(micro) == Usdc(HalfUp(micro, Pow10(QtyDecimals)))

(* Rounded away from zero; what rounds to nothing has no sign.             *)
SignedUsdcFromMicro(micro) ==
  LET shown == UsdcFromMicro(IF micro < 0 THEN -micro ELSE micro)
  IN [shown EXCEPT !.negative = micro < 0 /\ shown # Usdc(0)]

(* Three decimals when the midpoint lies between two ticks.                *)
Mid(bid, ask) ==
  IF (bid + ask) % 2 = 0
  THEN Usdc((bid + ask) \div 2)
  ELSE FormatFixed((bid + ask) * 5, PriceDecimals + 1)

Nothing == 0

(* Average price of fills, half up; Nothing for no lots.                   *)
AveragePrice(notional, lots) == IF lots = 0 THEN Nothing ELSE HalfUp(notional, lots)

(* A u128 of the engine in 64 bits.                                        *)
Clamp(n) == Min({n, MaxWord})

=============================================================================
