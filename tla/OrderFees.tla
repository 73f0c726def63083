----------------------------- MODULE OrderFees -----------------------------
(***************************************************************************)
(* The money of internal/order/biz/model.go, in integer fen.  Durations    *)
(* are minutes; instants and elapsed times are clock ticks, Hour of them   *)
(* to the hour.                                                            *)
(***************************************************************************)
EXTENDS Integers

CONSTANT Hour

ASSUME HourAssumption == Hour \in Nat \ {0}

OrderSize == {"SMALL", "MEDIUM", "LARGE"}

RateFenPerHour(size) == CASE size = "SMALL"  -> 300
                          [] size = "MEDIUM" -> 500
                          [] size = "LARGE"  -> 800
                          [] OTHER           -> 0

\* Integer ceiling, (n + d - 1) / d on non-negative operands.
CeilDiv(n, d) == (n + d - 1) \div d

\* The rent, which is also the total: deposit and discount are 0.
ComputeFee(size, durationMinutes) ==
  RateFenPerHour(size) * (IF durationMinutes > 0 THEN CeilDiv(durationMinutes, 60) ELSE 0)

Elapsed(expiresAt, now) == IF now < expiresAt THEN 0 ELSE now - expiresAt

OverdueHours(elapsed) == LET h == CeilDiv(elapsed, Hour) IN IF h < 1 THEN 1 ELSE h

computeOverdueFee(size, expiresAt, now) ==
  RateFenPerHour(size) * OverdueHours(Elapsed(expiresAt, now))
=============================================================================
