----------------------------- MODULE MCSettings -----------------------------
(* Two neighbouring ports, the last of the layout, and what may be typed   *)
(* for them: the ends of every range and the numbers beyond them, negative  *)
(* numbers and numbers that wrap around at 16 bits.                         *)
EXTENDS Settings

MCTyped ==
    [LIMIT  |-> {-65436, -10000, -99, 0, 1550, 10000, 10099, 10100, 65636},
     ICAL   |-> {59, 60, 77, 160, 161},
     CUTOFF |-> {-1, 1100, 4099, 4100},
     CUTON  |-> {0, 1279, 4000, 4001, 66636},
     VREF   |-> {4299, 4300, 4400, 4555, 4700},
     VCAL   |-> {69, 70, 113, 150},
     CYCLE  |-> {0, 30, 31, 65541}]

(* No calibration loses a tenth on its way through the floats.             *)
ASSUME TenthsExact == \A u \in 60 .. 160 : ThroughTenths(u) = u
=============================================================================
