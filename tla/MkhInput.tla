------------------------------ MODULE MkhInput ------------------------------
(***************************************************************************)
(* The arithmetic between a controller reading and a channel byte: the      *)
(* scaling of sticks and triggers, a binding's invert and max, the control  *)
(* law of the heading lock, and the clamp of a port's sum (sketch.cpp,      *)
(* mkh_thl.cpp).                                                            *)
(*                                                                         *)
(* The code computes with floats.  No input in their ranges lies close      *)
(* enough to a rounding tie for the float to fall on the other side of it,  *)
(* so exact fractions, rounded half away from zero as lroundf does, give    *)
(* the same bytes.  Headings and the tunables are whole numbers here.       *)
(***************************************************************************)
EXTENDS Integers

CONSTANTS
    Deadband,       \* s_deadbandDeg
    Kp,             \* s_kpPctPerDeg
    Floor,          \* s_floorPct
    Ceiling         \* s_ceilingPct

\* The tuning command accepts any non-negative number.
ASSUME TuningAssumption == {Deadband, Kp, Floor, Ceiling} \subseteq Nat

Neutral == 128      \* 0x80
Full == 255         \* 0xFF

Abs(n) == IF n < 0 THEN -n ELSE n
Signed(n, magnitude) == IF n < 0 THEN -magnitude ELSE magnitude
\* lroundf(n / d) and the integer division n / d of C.
Round(n, d) == Signed(n, (2 * Abs(n) + d) \div (2 * d))
Quotient(n, d) == Signed(n, Abs(n) \div d)

AtMost(bound, n) == IF n > bound THEN bound ELSE n
AtLeast(bound, n) == IF n < bound THEN bound ELSE n
\* The clamp of every scaling, and the byte of a port's summed contributions.
ToByte(n) == AtLeast(0, AtMost(Full, n))
\* Seeded bug: the upper clamp of the sum is missing.
SumOverflows(delta) == Neutral + AtLeast(-128, delta)
SumToByte(delta) == Neutral + AtLeast(-128, AtMost(127, delta))

StickMax == 512
TriggerMax == 1023
Deadzone(magnitude) == (magnitude * 8) \div 100

\* Up is negative and drives forward; the two directions have their own span.
mkStickYToChannelByte(axis) ==
    LET travel == StickMax - Deadzone(StickMax)
        beyond == AtMost(travel, Abs(axis) - Deadzone(StickMax))
    IN  IF Abs(axis) <= Deadzone(StickMax) THEN Neutral
        ELSE ToByte(Neutral + IF axis < 0 THEN Round(127 * beyond, travel)
                                          ELSE -Round(128 * beyond, travel))

mkTriggerToChannelByte(pull) ==
    LET travel == TriggerMax - Deadzone(TriggerMax)
        beyond == AtMost(travel, pull - Deadzone(TriggerMax))
    IN  IF pull <= Deadzone(TriggerMax) THEN Neutral
        ELSE AtMost(Full, Neutral + Round(127 * beyond, travel))

\* A lock's output is not scaled by the binding's max.
mkApplyBindingConfig(byte, b) ==
    LET turned == IF b.invert THEN ToByte(2 * Neutral - byte) ELSE byte
    IN  IF b.mode = "thl" THEN turned
        ELSE ToByte(Neutral + Quotient((turned - Neutral) * b.max_percent, 100))

\* Seeded bug: a turn across north goes the long way round.
wrap180Unwrapped(deg) == Signed(deg, Abs(deg) % 360)
\* The shortest way from one heading to another, in (-180, 180].
wrap180(deg) ==
    LET rest == Signed(deg, Abs(deg) % 360)
    IN  IF rest > 180 THEN rest - 360 ELSE IF rest <= -180 THEN rest + 360 ELSE rest

\* Proportional to the error, at most the ceiling, then at least the floor.
mkh_thl_compute_output_pct(reference, heading) ==
    LET error == wrap180(reference - heading)
        capped == AtMost(Ceiling, Kp * Abs(error))
    IN  IF Abs(error) < Deadband \/ capped = 0 THEN 0
        ELSE Signed(error, AtLeast(Floor, capped))

LockByte(reference, heading) ==
    ToByte(Neutral + Round(127 * mkh_thl_compute_output_pct(reference, heading), 100))
=============================================================================
