--------------------------- MODULE SettingsProofs ---------------------------
(* Theorems about the settings in EEPROM, for any set of ports and any      *)
(* numbers the host may type.                                               *)
EXTENDS Settings, TLAPS, WellFoundedInduction

-----------------------------------------------------------------------------
(* Layout *)

Kinds == PortKinds \cup UnitKinds

(* A setting is a kind with a port, or one of the three of the unit.        *)
LEMMA SettingForm ==
    ASSUME NEW s \in Setting
    PROVE  /\ s = <<s[1], s[2]>> /\ s[1] \in Kinds /\ s[2] \in 0 .. 7
           /\ s[1] \in PortKinds => s[2] \in Ports
           /\ s[1] \in UnitKinds => s[2] = 0
  <1>1. Ports \subseteq 0 .. 7
    BY SettingsAssumption DEF SettingsAssumption
  <1>2. CASE s \in PortKinds \X Ports
    <2>1. s = <<s[1], s[2]>> /\ s[1] \in PortKinds /\ s[2] \in Ports
      BY <1>2
    <2> QED BY <2>1, <1>1 DEF Kinds, PortKinds, UnitKinds
  <1>3. CASE s \in UnitKinds \X {0}
    <2>1. s = <<s[1], s[2]>> /\ s[1] \in UnitKinds /\ s[2] = 0
      BY <1>3
    <2> QED BY <2>1, <1>1 DEF Kinds, PortKinds, UnitKinds
  <1> QED BY <1>2, <1>3 DEF Setting

(* Where each kind of setting lies.                                         *)
LEMMA LayoutByKind ==
    ASSUME NEW s \in Setting
    PROVE  /\ s[1] = "VREF" => Offset(s) = 8 /\ Width(s) = 4
           /\ s[1] = "VCAL" => Offset(s) = 12 /\ Width(s) = 1
           /\ s[1] = "CYCLE" => Offset(s) = 13 /\ Width(s) = 1
           /\ s[1] = "LIMIT" => Offset(s) = 16 + s[2] /\ Width(s) = 1
           /\ s[1] = "ICAL" => Offset(s) = 24 + s[2] /\ Width(s) = 1
           /\ s[1] = "CUTOFF" => Offset(s) = 192 + 2 * s[2] /\ Width(s) = 2
           /\ s[1] = "CUTON" => Offset(s) = 208 + 2 * s[2] /\ Width(s) = 2
  BY SettingForm DEF Offset, Width, ThresholdCell

LEMMA OffsetTyped ==
    ASSUME NEW s \in Setting
    PROVE  Offset(s) \in 8 .. 222 /\ Width(s) \in {1, 2, 4}
  <1>1. s[1] \in Kinds /\ s[2] \in 0 .. 7
    BY SettingForm
  <1> QED BY <1>1, LayoutByKind DEF Kinds, PortKinds, UnitKinds

(* No two settings share a cell.                                            *)
LEMMA OffsetInjective ==
    ASSUME NEW s \in Setting, NEW t \in Setting,
           NEW j \in 1 .. Width(s), NEW k \in 1 .. Width(t),
           Offset(s) + (j - 1) = Offset(t) + (k - 1)
    PROVE  s = t /\ j = k
  <1>1. s[1] \in Kinds /\ s[2] \in 0 .. 7 /\ t[1] \in Kinds /\ t[2] \in 0 .. 7
    BY SettingForm
  <1>2. Width(s) \in {1, 2, 4} /\ Width(t) \in {1, 2, 4}
    BY OffsetTyped
  <1>3. s[1] = t[1] /\ s[2] = t[2] /\ j = k
    <2> DEFINE a == s[2]  b == t[2]  x == Offset(s)  y == Offset(t)
    <2>1. CASE s[1] \in {"VREF", "VCAL", "CYCLE"}
      BY <2>1, <1>1, <1>2, LayoutByKind, SettingForm DEF Kinds, PortKinds, UnitKinds
    <2>2. CASE s[1] \in {"LIMIT", "ICAL"}
      BY <2>2, <1>1, <1>2, LayoutByKind, SettingForm DEF Kinds, PortKinds, UnitKinds
    <2>3. CASE s[1] \in {"CUTOFF", "CUTON"}
      BY <2>3, <1>1, <1>2, LayoutByKind, SettingForm DEF Kinds, PortKinds, UnitKinds
    <2> QED BY <2>1, <2>2, <2>3, <1>1 DEF Kinds, PortKinds, UnitKinds
  <1> QED BY <1>3, SettingForm

(* The cells of a setting.                                                  *)
LEMMA CellOfSetting ==
    ASSUME NEW s \in Setting, NEW k \in 1 .. Width(s)
    PROVE  /\ Offset(s) + (k - 1) \in Cell
           /\ Offset(s) + k - 1 = Offset(s) + (k - 1)
  <1>1. Width(s) \in Nat /\ Offset(s) \in Nat
    BY OffsetTyped
  <1>2. k - 1 \in 0 .. Width(s) - 1
    BY <1>1
  <1>3. Offset(s) + (k - 1) \in CellsOf(s)
    BY <1>2 DEF CellsOf
  <1> QED BY <1>3, <1>1 DEF Cell

LEMMA CellIsNat == Cell \subseteq 8 .. 226
  <1> SUFFICES ASSUME NEW s \in Setting, NEW k \in 0 .. Width(s) - 1
               PROVE  Offset(s) + k \in 8 .. 226
    BY DEF Cell, CellsOf
  <1> QED BY OffsetTyped

(* A non-empty set of cells has a least one, which CHOOSE picks.            *)
LEMMA Least ==
    ASSUME NEW S, S \subseteq Cell, S # {}
    PROVE  LET c == CHOOSE x \in S : \A d \in S : x <= d
           IN  c \in S /\ \A d \in S : c <= d
  <1>1. S \subseteq Nat
    BY CellIsNat
  <1>2. PICK R : IsWellFoundedOn(R, Nat) /\ \A a, b \in Nat : a < b => <<a, b>> \in R
    <2>1. \A a, b \in Nat : a < b => <<a, b>> \in OpToRel(<, Nat)
      BY DEF OpToRel
    <2> QED BY <2>1, NatLessThanWellFounded
  <1>3. \E x \in S : \A y \in S : ~(<<y, x>> \in R)
    <2>1. IsWellFoundedOn(R, Nat) /\ S \subseteq Nat /\ S # {}
      BY <1>1, <1>2
    <2> QED BY <2>1, WFMin, Zenon
  <1>4. PICK x \in S : \A y \in S : ~(<<y, x>> \in R)
    BY <1>3
  <1>5. \A y \in S : ~(y < x)
    BY <1>1, <1>2, <1>4, Zenon
  <1>6. \A y \in S : x <= y
    BY <1>1, <1>5
  <1> QED BY <1>6

-----------------------------------------------------------------------------
(* Numbers *)

(* Rounding 10 * u / 10 twice brings u back.                                *)
LEMMA NearBack ==
    ASSUME NEW x \in Nat, x % 16 = 0, NEW p \in Nat,
           p - x \in -4 .. 4, NEW ulp \in {8, 16}
    PROVE  Nearest(p, ulp) * ulp = x
  <1>1. CASE ulp = 8
    BY <1>1, SMT DEF Nearest
  <1>2. CASE ulp = 16
    BY <1>2, SMT DEF Nearest
  <1> QED BY <1>1, <1>2, SMT

(* No calibration loses a tenth on its way through the floats.              *)
LEMMA TenthsKept ==
    ASSUME NEW u \in 60 .. 160
    PROVE  ThroughTenths(u) = u
  <1> DEFINE scale == IF u < 80 THEN 2097152 ELSE IF u < 160 THEN 1048576 ELSE 524288
             x == u * scale
             p == 10 * Nearest(x, 10)
             ulp == IF p < 134217728 THEN 8 ELSE 16
  <1>1. x \in Nat /\ x % 16 = 0 /\ x \div scale = u
    BY SMT
  <1> HIDE DEF scale, x
  <1>2. p \in Nat /\ p - x \in -4 .. 4
    BY <1>1, SMT DEF Nearest
  <1>3. ulp \in {8, 16}
    BY SMT
  <1> HIDE DEF p, ulp
  <1>4. Nearest(p, ulp) * ulp = x
    BY <1>1, <1>2, <1>3, NearBack, SMT
  <1>5. ThroughTenths(u) = (Nearest(p, ulp) * ulp) \div scale
    BY SMT DEF ThroughTenths, p, ulp, x, scale
  <1> QED BY <1>1, <1>4, <1>5, SMT

(* Rounding moves by half a unit at most.                                   *)
LEMMA NearestBounds ==
    ASSUME NEW a \in Int, NEW d \in Nat \ {0}
    PROVE  /\ Nearest(a, d) \in Int
           /\ 2 * a - d <= 2 * (d * Nearest(a, d)) /\ 2 * (d * Nearest(a, d)) <= 2 * a + d
  <1> DEFINE q == a \div d  r == a % d
  <1>1. q \in Int /\ r \in Int /\ 0 <= r /\ r < d /\ a = d * q + r
    BY SMT
  <1>2. Nearest(a, d) = IF 2 * r > d \/ (2 * r = d /\ q % 2 = 1) THEN q + 1 ELSE q
    BY SMT DEF Nearest
  <1> HIDE DEF q, r
  <1>3. d * (q + 1) = d * q + d /\ d * q \in Int
    BY <1>1, SMT
  <1> QED BY <1>1, <1>2, <1>3, SMT

(* The mantissas of the reference voltages.                                 *)
LEMMA MantissaRange ==
    /\ Mantissa(4300) = 9017754 /\ Mantissa(4500) = 9437184 /\ Mantissa(4700) = 9856614
    /\ \A u \in 4300 .. 4700 :
          Mantissa(u) \in Int /\ 9017754 <= Mantissa(u) /\ Mantissa(u) <= 9856614
  <1>1. \A u \in Int : /\ Mantissa(u) \in Int
                      /\ 2 * (u * 262144) - 125 <= 2 * (125 * Mantissa(u))
                      /\ 2 * (125 * Mantissa(u)) <= 2 * (u * 262144) + 125
    BY NearestBounds, SMT DEF Mantissa
  <1>2. Mantissa(4300) = 9017754
    BY <1>1, SMT
  <1>3. Mantissa(4500) = 9437184
    BY <1>1, SMT
  <1>4. Mantissa(4700) = 9856614
    BY <1>1, SMT
  <1>5. ASSUME NEW u \in Int, 4300 <= u, u <= 4700
        PROVE  Mantissa(u) \in Int /\ 9017754 <= Mantissa(u) /\ Mantissa(u) <= 9856614
    BY <1>1, <1>5, SMT
  <1>6. \A u \in 4300 .. 4700 : u \in Int /\ 4300 <= u /\ u <= 4700
    BY SMT
  <1> QED BY <1>2, <1>3, <1>4, <1>5, <1>6, SMT

(* A mantissa is put together again from its bytes.                         *)
LEMMA MantissaBytes ==
    ASSUME NEW m \in Int, 9017754 <= m, m <= 9856614
    PROVE  /\ m % 256 \in 0 .. 255 /\ (m \div 256) % 256 \in 0 .. 255
           /\ 128 + ((m \div 65536) % 128) \in 128 .. 255
           /\ 65536 * (128 + ((m \div 65536) % 128)) + 256 * ((m \div 256) % 256) + (m % 256) = m
  <1> DEFINE h == m \div 65536
  <1>1. h \in Int /\ 137 <= h /\ h <= 150 /\ h = (m \div 256) \div 256
    BY SMT
  <1>2. 128 + (h % 128) = h
    BY <1>1, SMT
  <1>3. /\ m % 256 \in Int /\ 0 <= m % 256 /\ m % 256 < 256
        /\ m \div 256 \in Int /\ m = 256 * (m \div 256) + (m % 256)
    BY SMT
  <1>4. /\ (m \div 256) % 256 \in Int /\ 0 <= (m \div 256) % 256 /\ (m \div 256) % 256 < 256
        /\ m \div 256 = 256 * h + ((m \div 256) % 256)
    BY <1>1, <1>3, SMT
  <1> QED BY <1>1, <1>2, <1>3, <1>4, SMT

(* A command works on 16 bits, and takes the documented numbers as typed.   *)
LEMMA IntTyped ==
    ASSUME NEW n \in Int
    PROVE  /\ ToInt(n) \in Int /\ ToInt(n) >= -32768 /\ ToInt(n) <= 32767
           /\ ToWord(n) \in Int /\ 0 <= ToWord(n) /\ ToWord(n) <= 65535
           /\ 0 <= n /\ n <= 32767 => ToInt(n) = n /\ ToWord(n) = n
           /\ Quotient(n, 100) \in Int
  BY SMT DEF ToInt, ToWord, Quotient

LEMMA ArgumentTyped ==
    ASSUME NEW kind, NEW n \in Int
    PROVE  Argument(kind, n) \in Int /\ 0 <= Argument(kind, n) /\ Argument(kind, n) <= 65535
  BY IntTyped, SMT DEF Argument

LEMMA DocumentedTaken ==
    ASSUME NEW kind \in Kinds, NEW n \in Documented(kind)
    PROVE  /\ InRange(kind, Argument(kind, n))
           /\ Argument(kind, n) = IF kind = "LIMIT" THEN n \div 100 ELSE n
           /\ n \in Int
  <1>1. n \in Int /\ 0 <= n /\ n <= 10000 /\ (kind # "LIMIT" => InRange(kind, n))
    <2>1. CASE kind = "LIMIT"
      <3>1. n \in 0 .. 10000
        BY <2>1 DEF Documented
      <3>2. n \in Int /\ 0 <= n /\ n <= 10000
        BY ONLY <3>1, SMT
      <3> QED BY <2>1, <3>2
    <2>2. CASE kind = "VREF"
      BY <2>2, SMT DEF Documented, InRange
    <2>3. CASE kind = "VCAL"
      BY <2>3, SMT DEF Documented, InRange
    <2>4. CASE kind = "ICAL"
      BY <2>4, SMT DEF Documented, InRange
    <2>5. CASE kind = "CYCLE"
      BY <2>5, SMT DEF Documented, InRange
    <2>6. CASE kind \in {"CUTOFF", "CUTON"}
      <3>1. n \in 0 .. 4000
        BY <2>6 DEF Documented
      <3>2. n \in Int /\ 0 <= n /\ n <= 4000
        BY ONLY <3>1, SMT
      <3>3. n \div 100 <= 40
        BY <3>2, SMT
      <3> QED BY <2>6, <3>2, <3>3, SMT DEF InRange
    <2>7. kind \in {"LIMIT", "VREF", "VCAL", "ICAL", "CYCLE", "CUTOFF", "CUTON"}
      BY DEF Kinds, PortKinds, UnitKinds
    <2> HIDE DEF Documented, InRange
    <2> QED BY <2>1, <2>2, <2>3, <2>4, <2>5, <2>6, <2>7, SMT
  <1>2. ToInt(n) = n /\ ToWord(n) = n
    BY <1>1, IntTyped, SMT
  <1>3. CASE kind = "LIMIT"
    <2>1. Quotient(n, 100) = n \div 100 /\ n \div 100 \in Int /\ 0 <= n \div 100 /\ n \div 100 <= 100
      BY <1>1, SMT DEF Quotient
    <2>2. ToWord(n \div 100) = n \div 100
      BY <2>1, IntTyped, SMT
    <2> QED BY <1>1, <1>2, <1>3, <2>1, <2>2, SMT DEF Argument, InRange
  <1>4. CASE kind # "LIMIT"
    <2>1. Argument(kind, n) = n
      BY <1>2, <1>4, SMT DEF Argument
    <2> QED BY <1>1, <1>4, <2>1
  <1> QED BY <1>3, <1>4

(* A command takes the low 16 bits of what is typed, a limit its hundreds.  *)
LEMMA AcceptedTaken ==
    ASSUME NEW kind, NEW n \in Int, InRange(kind, Argument(kind, n))
    PROVE  Argument(kind, n) =
               IF kind # "LIMIT" THEN n % 65536
               ELSE IF n % 65536 < 32768 THEN (n % 65536) \div 100 ELSE 0
  <1> DEFINE w == n % 65536  i == ToInt(n)
  <1>1. w \in Int /\ 0 <= w /\ w <= 65535
    BY SMT
  <1>2. i = IF w < 32768 THEN w ELSE w - 65536
    BY SMT DEF ToInt
  <1>3. ToWord(i) = w
    BY <1>1, <1>2, SMT DEF ToWord
  <1>4. CASE kind # "LIMIT"
    BY <1>3, <1>4 DEF Argument
  <1>5. CASE kind = "LIMIT"
    <2>1. Argument(kind, n) = ToWord(Quotient(i, 100)) /\ Argument(kind, n) <= 100
      BY <1>5, Zenon DEF Argument, InRange
    <2> HIDE DEF w, i
    <2>2. CASE w < 32768
      <3>1. /\ Quotient(i, 100) = w \div 100 /\ w \div 100 \in Int
            /\ 0 <= w \div 100 /\ w \div 100 <= 327
        BY <1>1, <1>2, <2>2, SMT DEF Quotient
      <3>2. ToWord(w \div 100) = w \div 100
        BY <3>1, IntTyped, SMT
      <3> QED BY <1>5, <2>1, <2>2, <3>1, <3>2 DEF w
    <2>3. CASE ~(w < 32768)
      <3> DEFINE q == (65536 - w) \div 100
      <3>1. q \in Int /\ 0 <= q /\ q <= 327
        BY <1>1, <2>3, SMT
      <3>2. Quotient(i, 100) = -q
        BY <1>1, <1>2, <2>3, SMT DEF Quotient
      <3> HIDE DEF q
      <3>3. q = 0
        BY <2>1, <3>1, <3>2, SMT DEF ToWord
      <3>4. ToWord(-q) = 0
        BY <3>3, SMT DEF ToWord
      <3> QED BY <1>5, <2>1, <2>3, <3>2, <3>4 DEF w
    <2> QED BY <2>2, <2>3
  <1> QED BY <1>4, <1>5

(* A limit is never taken for more than was typed.                          *)
LEMMA LimitTaken ==
    ASSUME NEW n \in Int, n >= -32768, InRange("LIMIT", Argument("LIMIT", n))
    PROVE  /\ Argument("LIMIT", n) \in Int /\ 0 <= Argument("LIMIT", n)
           /\ Argument("LIMIT", n) <= 100
           /\ Argument("LIMIT", n) * 100 <= IF n < 0 THEN 0 ELSE n
  <1> DEFINE i == ToInt(n)
  <1>1. i \in Int /\ -32768 <= i /\ i <= 32767
    BY IntTyped, SMT
  <1>2. i <= n
    BY SMT DEF ToInt
  <1>3. n < 0 => i = n
    BY SMT DEF ToInt
  <1>4. /\ Argument("LIMIT", n) = ToWord(Quotient(i, 100)) /\ Argument("LIMIT", n) <= 100
        /\ Argument("LIMIT", n) \in Int /\ 0 <= Argument("LIMIT", n)
    BY ArgumentTyped, SMT DEF Argument, InRange
  <1> HIDE DEF i
  <1>5. CASE i < 0
    <2>1. Quotient(i, 100) = -((-i) \div 100)
      BY <1>5, SMT DEF Quotient
    <2>2. (-i) \div 100 \in Int /\ 0 <= (-i) \div 100 /\ (-i) \div 100 <= 327
      BY <1>1, <1>5, SMT
    <2>3. ToWord(Quotient(i, 100)) = 0
      BY <1>4, <2>1, <2>2, SMT DEF ToWord
    <2> QED BY <1>1, <1>2, <1>4, <1>5, <2>3, SMT
  <1>6. CASE i >= 0
    <2>1. /\ Quotient(i, 100) = i \div 100 /\ i \div 100 \in Int
          /\ 0 <= i \div 100 /\ i \div 100 <= 327 /\ 100 * (i \div 100) <= i
      BY <1>1, <1>6, SMT DEF Quotient
    <2>2. Argument("LIMIT", n) = i \div 100
      BY <1>4, <2>1, IntTyped, SMT
    <2> QED BY <1>1, <1>2, <1>3, <1>4, <1>6, <2>1, <2>2, SMT
  <1> QED BY <1>1, <1>5, <1>6

-----------------------------------------------------------------------------
(* Bytes and values *)

(* What a command stores fits its cells.                                    *)
LEMMA BytesFit ==
    ASSUME NEW s \in Setting, NEW u \in Int, 0 <= u, u <= 65535, InRange(s[1], u)
    PROVE  /\ DOMAIN Bytes(s[1], u) = 1 .. Width(s)
           /\ \A k \in 1 .. Width(s) : Bytes(s[1], u)[k] \in 0 .. 255
  <1>1. s[1] \in Kinds
    BY SettingForm
  <1>2. u % 256 \in 0 .. 255 /\ u \div 256 \in 0 .. 255
    BY SMT
  <1>3. CASE s[1] \in {"LIMIT", "CYCLE"}
    <2>1. Bytes(s[1], u) = <<u % 256>> /\ Width(s) = 1
      BY <1>3, LayoutByKind DEF Bytes
    <2> QED BY <1>2, <2>1
  <1>4. CASE s[1] \in {"VCAL", "ICAL"}
    <2>1. Bytes(s[1], u) = <<ThroughTenths(u) % 256>> /\ Width(s) = 1
      BY <1>4, LayoutByKind DEF Bytes
    <2>2. u \in 60 .. 160
      BY <1>4, SMT DEF InRange
    <2>3. ThroughTenths(u) % 256 \in 0 .. 255
      BY <2>2, <1>2, TenthsKept, SMT
    <2> QED BY <2>1, <2>3
  <1>5. CASE s[1] = "VREF"
    <2> DEFINE m == Mantissa(u)
    <2>1. /\ Bytes(s[1], u) = <<m % 256, (m \div 256) % 256, 128 + ((m \div 65536) % 128), 64>>
          /\ Width(s) = 4
      BY <1>5, LayoutByKind DEF Bytes
    <2>2. u \in 4300 .. 4700
      BY <1>5, SMT DEF InRange
    <2>3. m \in Int /\ 9017754 <= m /\ m <= 9856614
      BY <2>2, MantissaRange, SMT
    <2> HIDE DEF m
    <2>4. /\ m % 256 \in 0 .. 255 /\ (m \div 256) % 256 \in 0 .. 255
          /\ 128 + ((m \div 65536) % 128) \in 0 .. 255
      BY <2>3, MantissaBytes, SMT
    <2> QED BY <2>1, <2>4, SMT
  <1>6. CASE s[1] \in {"CUTOFF", "CUTON"}
    <2>1. Bytes(s[1], u) = <<u % 256, u \div 256>> /\ Width(s) = 2
      BY <1>6, LayoutByKind DEF Bytes
    <2> QED BY <1>2, <2>1
  <1> QED BY <1>1, <1>3, <1>4, <1>5, <1>6 DEF Kinds, PortKinds, UnitKinds

(* Any bytes are read as a legal value.                                     *)
LEMMA ValueLegal ==
    ASSUME NEW s \in Setting, NEW b, \A k \in 1 .. Width(s) : b[k] \in 0 .. 255
    PROVE  Value(s[1], b) \in Range(s[1])
  <1>1. s[1] \in Kinds /\ Width(s) \in {1, 2, 4}
    BY SettingForm, OffsetTyped
  <1>2. b[1] \in 0 .. 255
    BY <1>1
  <1>3. CASE s[1] \in {"LIMIT", "CYCLE", "VCAL", "ICAL"}
    <2>1. b[1] \in Int /\ 0 <= b[1] /\ b[1] <= 255
      BY <1>2, SMT
    <2>2. CASE s[1] = "LIMIT"
      BY <2>1, <2>2, SMT DEF Value, Range, ReadLimit
    <2>3. CASE s[1] = "CYCLE"
      BY <2>1, <2>3, SMT DEF Value, Range, Documented
    <2>4. CASE s[1] = "VCAL"
      BY <2>1, <2>4, SMT DEF Value, Range, Documented, ReadCalibration
    <2>5. CASE s[1] = "ICAL"
      BY <2>1, <2>5, SMT DEF Value, Range, Documented, ReadCalibration
    <2> QED BY <1>3, <2>2, <2>3, <2>4, <2>5
  <1>4. CASE s[1] \in {"CUTOFF", "CUTON"}
    <2>1. b[2] \in 0 .. 255
      BY <1>4, LayoutByKind
    <2>2. /\ b[1] \in Int /\ 0 <= b[1] /\ b[1] <= 255
          /\ b[2] \in Int /\ 0 <= b[2] /\ b[2] <= 255
      BY <1>2, <2>1, SMT
    <2>3. \A d \in {0, 4000} : /\ ReadThreshold(b[1], b[2], d) \in Int
                              /\ 0 <= ReadThreshold(b[1], b[2], d)
                              /\ ReadThreshold(b[1], b[2], d) <= 4000
      BY <2>2, SMT DEF ReadThreshold
    <2>4. Range(s[1]) = 0 .. 4000
      BY <1>4, SMT DEF Range, Documented
    <2>5. \E d \in {0, 4000} : Value(s[1], b) = ReadThreshold(b[1], b[2], d)
      BY <1>4, SMT DEF Value
    <2> DEFINE v == Value(s[1], b)
    <2>6. v \in Int /\ 0 <= v /\ v <= 4000
      BY <2>3, <2>5, SMT
    <2> HIDE DEF v
    <2>7. v \in 0 .. 4000
      BY <2>6, SMT
    <2> QED BY <2>4, <2>7 DEF v
  <1>5. CASE s[1] = "VREF"
    <2>1. Value(s[1], b) \in Mantissa(4300) .. Mantissa(4700)
      <3>1. Value(s[1], b) = ReadRef(b)
        BY <1>5 DEF Value
      <3>2. Mantissa(4500) \in Mantissa(4300) .. Mantissa(4700)
        BY MantissaRange, SMT
      <3> QED BY <3>1, <3>2, SMT DEF ReadRef
    <2> QED BY <1>5, <2>1 DEF Range
  <1> QED BY <1>1, <1>3, <1>4, <1>5 DEF Kinds, PortKinds, UnitKinds

(* What was accepted is read back.                                          *)
LEMMA ValueWanted ==
    ASSUME NEW s \in Setting, NEW n \in Int, NEW b,
           InRange(s[1], Argument(s[1], n)),
           \A k \in 1 .. Width(s) : b[k] = Bytes(s[1], Argument(s[1], n))[k]
    PROVE  Value(s[1], b) = Wanted(s[1], n)
  <1> DEFINE u == Argument(s[1], n)  w == n % 65536
  <1>1. s[1] \in Kinds /\ Width(s) \in {1, 2, 4}
    BY SettingForm, OffsetTyped
  <1>2. /\ InRange(s[1], u)
        /\ s[1] # "LIMIT" => u = w
        /\ s[1] = "LIMIT" => u = IF w < 32768 THEN w \div 100 ELSE 0
    BY AcceptedTaken
  <1>3. u \in Int /\ 0 <= u /\ u <= 65535
    BY ArgumentTyped
  <1>4. \A k \in 1 .. Width(s) : b[k] = Bytes(s[1], u)[k]
    OBVIOUS
  <1>w. /\ s[1] = "LIMIT" => Wanted(s[1], n) = IF w < 32768 THEN w \div 100 ELSE 0
        /\ s[1] = "VREF" => Wanted(s[1], n) = Mantissa(w)
        /\ s[1] \in {"CUTOFF", "CUTON"} =>
               Wanted(s[1], n) = IF w > 4000 THEN Default(s[1]) ELSE w
        /\ s[1] \in {"VCAL", "ICAL", "CYCLE"} => Wanted(s[1], n) = w
    BY DEF Wanted
  <1> HIDE DEF u, w
  <1>5. b[1] = Bytes(s[1], u)[1]
    BY <1>1, <1>4
  <1>6. CASE s[1] = "LIMIT"
    <2>1. u <= 100 /\ b[1] = u % 256
      BY <1>2, <1>5, <1>6 DEF InRange, Bytes
    <2>2. b[1] = u
      BY <1>3, <2>1, SMT
    <2>3. Value(s[1], b) = ReadLimit(u)
      BY <1>6, <2>2 DEF Value
    <2>4. ReadLimit(u) = u
      BY <1>3, <2>1 DEF ReadLimit
    <2>5. Value(s[1], b) = u
      BY <2>3, <2>4, Zenon
    <2>6. Wanted(s[1], n) = u
      BY <1>2, <1>w, <1>6
    <2> QED BY <2>5, <2>6, Zenon
  <1>7. CASE s[1] = "CYCLE"
    <2>1. u <= 30 /\ b[1] = u % 256
      BY <1>2, <1>5, <1>7 DEF InRange, Bytes
    <2>2. b[1] = u
      BY <1>3, <2>1, SMT
    <2>3. Value(s[1], b) = IF u > 30 THEN 1 ELSE u
      BY <1>7, <2>2 DEF Value
    <2>4. Value(s[1], b) = u
      BY <1>3, <2>1, <2>3, SMT
    <2>5. u = w /\ Wanted(s[1], n) = w
      BY <1>2, <1>w, <1>7
    <2> QED BY <2>4, <2>5, Zenon
  <1>8. CASE s[1] \in {"VCAL", "ICAL"}
    <2>1. /\ u \in 60 .. 160 /\ b[1] = ThroughTenths(u) % 256
          /\ s[1] = "VCAL" => u \in 70 .. 150
      BY <1>2, <1>5, <1>8, SMT DEF InRange, Bytes
    <2>2. b[1] = u % 256
      BY <2>1, TenthsKept
    <2>3. b[1] = u
      BY <2>1, <2>2, SMT
    <2>4. Value(s[1], b) = u
      BY <1>8, <2>1, <2>3, SMT DEF Value, ReadCalibration
    <2>5. u = w /\ Wanted(s[1], n) = w
      BY <1>2, <1>w, <1>8
    <2> QED BY <2>4, <2>5, Zenon
  <1>9. CASE s[1] \in {"CUTOFF", "CUTON"}
    <2>1. Width(s) = 2
      BY <1>9, LayoutByKind
    <2>2. b[1] = u % 256 /\ b[2] = u \div 256
      BY <1>4, <1>9, <2>1 DEF Bytes
    <2>3. b[1] + 256 * b[2] = u
      BY <1>3, <2>2, SMT
    <2>4. \A d : ReadThreshold(b[1], b[2], d) = IF u > 4000 THEN d ELSE u
      BY <2>3 DEF ReadThreshold
    <2>5. Value(s[1], b) = ReadThreshold(b[1], b[2], Default(s[1]))
      BY <1>9, SMT DEF Value, Default
    <2>6. Wanted(s[1], n) = IF u > 4000 THEN Default(s[1]) ELSE u
      BY <1>2, <1>w, <1>9
    <2> QED BY <2>4, <2>5, <2>6
  <1>10. CASE s[1] = "VREF"
    <2> DEFINE m == Mantissa(u)
    <2>1. Width(s) = 4
      BY <1>10, LayoutByKind
    <2>2. /\ b[1] = m % 256 /\ b[2] = (m \div 256) % 256
          /\ b[3] = 128 + ((m \div 65536) % 128) /\ b[4] = 64
      BY <1>4, <1>10, <2>1, SMT DEF Bytes
    <2>3. u \in 4300 .. 4700
      BY <1>2, <1>10, SMT DEF InRange
    <2>4. m \in Int /\ 9017754 <= m /\ m <= 9856614
      BY <2>3, MantissaRange, SMT
    <2>5. m \in Mantissa(4300) .. Mantissa(4700)
      BY <2>4, MantissaRange, SMT
    <2> HIDE DEF m
    <2>6. 65536 * b[3] + 256 * b[2] + b[1] = m /\ b[3] >= 128
      BY <2>2, <2>4, MantissaBytes, SMT
    <2>7. ReadRef(b) = m
      BY <2>2, <2>5, <2>6, SMT DEF ReadRef
    <2> QED BY <1>2, <1>w, <1>10, <2>7 DEF Value, m
  <1> QED BY <1>1, <1>6, <1>7, <1>8, <1>9, <1>10 DEF Kinds, PortKinds, UnitKinds

(* Erased bytes are read as the default.                                    *)
LEMMA ValueErased ==
    ASSUME NEW s \in Setting, NEW b, \A k \in 1 .. Width(s) : b[k] = 255
    PROVE  Value(s[1], b) = Default(s[1])
  <1>1. s[1] \in Kinds /\ Width(s) \in {1, 2, 4}
    BY SettingForm, OffsetTyped
  <1>2. b[1] = 255
    BY <1>1
  <1>3. CASE s[1] \in {"LIMIT", "CYCLE", "VCAL", "ICAL"}
    BY <1>2, <1>3, SMT DEF Value, Default, ReadLimit, ReadCalibration
  <1>4. CASE s[1] \in {"CUTOFF", "CUTON"}
    <2>1. b[2] = 255
      BY <1>4, LayoutByKind
    <2> QED BY <1>2, <1>4, <2>1, SMT DEF Value, Default, ReadThreshold
  <1>5. CASE s[1] = "VREF"
    <2>1. b[4] = 255
      BY <1>5, LayoutByKind
    <2>2. b[4] # 64
      BY <2>1
    <2>3. ReadRef(b) = Mantissa(4500)
      BY <2>2, SMT DEF ReadRef
    <2> QED BY <1>5, <2>3, SMT DEF Value, Default
  <1> QED BY <1>1, <1>3, <1>4, <1>5 DEF Kinds, PortKinds, UnitKinds

-----------------------------------------------------------------------------
(* The invariant *)

(* The types, and what is being written: the bytes of a command that was    *)
(* accepted.                                                                *)
StoreOK ==
    /\ ee \in [Cell -> 0 .. 255]
    /\ pc \in {"idle", "write", "reset"}
    /\ job.of \in Setting /\ left \subseteq 1 .. Width(job.of) /\ at \in Cell \cup {0}
    /\ \A k \in DOMAIN job.bytes : job.bytes[k] \in 0 .. 255
    /\ torn \subseteq Setting /\ commands \in 0 .. MaxCommands
    /\ given \in [Setting -> SUBSET Int]

JobOK ==
    /\ pc = "reset" => at \in Cell
    /\ pc = "write" =>
         /\ left # {} /\ job.typed \in Int
         /\ InRange(job.of[1], Argument(job.of[1], job.typed))
         /\ job.bytes = Bytes(job.of[1], Argument(job.of[1], job.typed))

StoreInv == StoreOK /\ JobOK

LEMMA StoreInit == Init => StoreInv
  <1> SUFFICES ASSUME Init PROVE StoreInv
    OBVIOUS
  <1>1. Nothing.of \in Setting /\ Nothing.bytes = <<>>
    BY DEF Nothing, Setting, UnitKinds
  <1>2. \A k \in DOMAIN Nothing.bytes : Nothing.bytes[k] \in 0 .. 255
    BY <1>1
  <1>3. MaxCommands \in Nat
    BY SettingsAssumption DEF SettingsAssumption
  <1> QED BY <1>1, <1>2, <1>3 DEF Init, StoreInv, StoreOK, JobOK

(* The bytes of an accepted command.                                        *)
LEMMA JobFits ==
    ASSUME NEW s \in Setting, NEW n \in Int, InRange(s[1], Argument(s[1], n))
    PROVE  /\ DOMAIN Bytes(s[1], Argument(s[1], n)) = 1 .. Width(s)
           /\ \A k \in 1 .. Width(s) : Bytes(s[1], Argument(s[1], n))[k] \in 0 .. 255
  <1> DEFINE u == Argument(s[1], n)
  <1>1. u \in Int /\ 0 <= u /\ u <= 65535 /\ InRange(s[1], u)
    BY ArgumentTyped
  <1> HIDE DEF u
  <1>2. /\ DOMAIN Bytes(s[1], u) = 1 .. Width(s)
        /\ \A k \in 1 .. Width(s) : Bytes(s[1], u)[k] \in 0 .. 255
    BY <1>1, BytesFit
  <1> QED BY <1>2 DEF u

(* What is typed are integers.                                              *)
LEMMA TypedInt ==
    ASSUME NEW s \in Setting, NEW n \in Typed[s[1]]
    PROVE  n \in Int
  <1>1. s[1] \in PortKinds \cup UnitKinds
    BY SettingForm DEF Kinds
  <1> QED BY <1>1, SettingsAssumption DEF SettingsAssumption

(* The settings whose last cell is erased.                                  *)
Erased == {s \in Setting : at = Offset(s) + Width(s) - 1}

LEMMA EraseEffects ==
    ASSUME EraseCell
    PROVE  /\ ee' = [ee EXCEPT ![at] = 255] /\ torn' = torn \ Erased
           /\ given' = [s \in Setting |-> IF s \in Erased THEN {} ELSE given[s]]
           /\ UNCHANGED <<job, left, commands>>
  BY Zenon DEF EraseCell, Erased

(* A reset takes the cells in order.                                        *)
LEMMA NextCell ==
    ASSUME StoreInv, EraseCell
    PROVE  /\ at \in Cell /\ pc = "reset"
           /\ {c \in Cell : c > at} = {} => pc' = "idle" /\ at' = 0
           /\ {c \in Cell : c > at} # {} =>
                /\ pc' = "reset" /\ at' \in Cell /\ at' > at
                /\ \A d \in Cell : d > at => at' <= d
  <1> DEFINE later == {c \in Cell : c > at}
  <1>1. at \in Cell /\ pc = "reset"
    BY DEF EraseCell, StoreInv, JobOK
  <1>2. CASE later = {}
    BY <1>1, <1>2 DEF EraseCell
  <1>3. CASE later # {}
    <2>1. pc' = "reset" /\ at' = CHOOSE c \in later : \A d \in later : c <= d
      BY <1>1, <1>3 DEF EraseCell
    <2>2. later \subseteq Cell
      OBVIOUS
    <2> HIDE DEF later
    <2>3. at' \in later /\ \A d \in later : at' <= d
      BY <1>3, <2>1, <2>2, Least, Zenon
    <2> QED BY <1>1, <1>3, <2>1, <2>3 DEF later
  <1> QED BY <1>1, <1>2, <1>3

LEMMA StoreStep == StoreInv /\ [Next]_vars => StoreInv'
  <1> SUFFICES ASSUME StoreInv, [Next]_vars PROVE StoreInv'
    OBVIOUS
  <1> USE DEF StoreInv
  <1>1. ASSUME NEW s \in Setting, NEW n \in Typed[s[1]], Request(s, n)
        PROVE  StoreInv'
    <2> DEFINE u == Argument(s[1], n)
    <2>1. n \in Int
      BY TypedInt
    <2>2. commands' \in 0 .. MaxCommands
      BY <1>1, SettingsAssumption DEF Request, StoreOK, SettingsAssumption
    <2>3. CASE InRange(s[1], u)
      <3>1. /\ pc' = "write" /\ left' = 1 .. Width(s)
            /\ job' = [of |-> s, bytes |-> Bytes(s[1], u), typed |-> n]
            /\ UNCHANGED <<ee, at, torn, given>>
        BY <1>1, <2>3 DEF Request
      <3>2. \A k \in DOMAIN Bytes(s[1], u) : Bytes(s[1], u)[k] \in 0 .. 255
        BY <2>1, <2>3, JobFits
      <3>3. 1 .. Width(s) # {}
        BY OffsetTyped
      <3> HIDE DEF u
      <3>4. StoreOK'
        BY <2>2, <3>1, <3>2 DEF StoreOK
      <3>5. JobOK'
        BY <2>1, <2>3, <3>1, <3>3 DEF JobOK, u
      <3> QED BY <3>4, <3>5
    <2>4. CASE ~InRange(s[1], u)
      <3>1. /\ given' \in {given, [given EXCEPT ![s] = {n}]}
            /\ UNCHANGED <<ee, at, torn, pc, job, left>>
        BY <1>1, <2>4 DEF Request
      <3>2. given' \in [Setting -> SUBSET Int]
        BY <2>1, <3>1 DEF StoreOK
      <3> QED BY <2>2, <3>1, <3>2 DEF StoreOK, JobOK
    <2> QED BY <2>3, <2>4
  <1>2. ASSUME NEW k \in 1 .. 4, WriteByte(k)
        PROVE  StoreInv'
    <2>1. /\ pc = "write" /\ k \in left /\ k \in 1 .. Width(job.of)
          /\ job.typed \in Int
          /\ InRange(job.of[1], Argument(job.of[1], job.typed))
          /\ job.bytes = Bytes(job.of[1], Argument(job.of[1], job.typed))
      BY <1>2 DEF WriteByte, StoreOK, JobOK
    <2>2. job.bytes[k] \in 0 .. 255
      BY <2>1, JobFits DEF StoreOK
    <2>3. ee' \in [Cell -> 0 .. 255]
      BY <1>2, <2>2 DEF WriteByte, StoreOK
    <2>4. left' \subseteq left /\ UNCHANGED <<at, commands>>
      BY <1>2 DEF WriteByte
    <2>5. CASE left' = {}
      <3>1. /\ pc' = "idle" /\ job' = Nothing
            /\ given' = [given EXCEPT ![job.of] = {job.typed}]
            /\ torn' = torn \ {job.of}
        BY <1>2, <2>5 DEF WriteByte
      <3>2. given' \in [Setting -> SUBSET Int]
        BY <2>1, <3>1 DEF StoreOK
      <3>3. Nothing.of \in Setting /\ Nothing.bytes = <<>>
        BY DEF Nothing, Setting, UnitKinds
      <3>4. \A j \in DOMAIN Nothing.bytes : Nothing.bytes[j] \in 0 .. 255
        BY <3>3
      <3> QED BY <2>3, <2>4, <2>5, <3>1, <3>2, <3>3, <3>4 DEF StoreOK, JobOK
    <2>6. CASE left' # {}
      <3>1. UNCHANGED <<pc, job, given, torn>>
        BY <1>2, <2>6 DEF WriteByte
      <3> QED BY <2>3, <2>4, <2>6, <3>1 DEF StoreOK, JobOK
    <2> QED BY <2>5, <2>6
  <1>3. CASE StartReset
    <2>1. Cell # {}
      <3>1. <<"CYCLE", 0>> \in Setting
        BY DEF Setting, UnitKinds
      <3>2. 1 \in 1 .. Width(<<"CYCLE", 0>>)
        BY <3>1, OffsetTyped
      <3> QED BY <3>1, <3>2, CellOfSetting
    <2>2. at' \in Cell
      BY <1>3, <2>1, Least, Zenon DEF StartReset
    <2>3. commands' \in 0 .. MaxCommands
      BY <1>3, SettingsAssumption DEF StartReset, StoreOK, SettingsAssumption
    <2>4. pc' = "reset" /\ UNCHANGED <<ee, job, left, given, torn>>
      BY <1>3 DEF StartReset
    <2> QED BY <2>2, <2>3, <2>4 DEF StoreOK, JobOK
  <1>4. CASE EraseCell
    <2>1. /\ at' \in Cell \cup {0} /\ pc' \in {"idle", "reset"}
          /\ pc' = "reset" => at' \in Cell
      BY <1>4, NextCell
    <2>2. ee' \in [Cell -> 0 .. 255]
      BY <1>4, EraseEffects DEF StoreOK
    <2>3. given' \in [Setting -> SUBSET Int] /\ torn' \subseteq torn
      <3>1. /\ given' = [s \in Setting |-> IF s \in Erased THEN {} ELSE given[s]]
            /\ torn' = torn \ Erased
        BY <1>4, EraseEffects
      <3>2. \A s \in Setting : given[s] \in SUBSET Int
        BY DEF StoreOK
      <3> QED BY <3>1, <3>2
    <2>4. UNCHANGED <<job, left, commands>>
      BY <1>4, EraseEffects
    <2> QED BY <2>1, <2>2, <2>3, <2>4 DEF StoreOK, JobOK
  <1>5. CASE PowerLoss
    <2>1. /\ pc' = "idle" /\ job' = Nothing /\ left' = {} /\ at' = 0
          /\ torn' = torn \cup Halfway /\ UNCHANGED <<ee, given, commands>>
      BY <1>5 DEF PowerLoss
    <2>2. Nothing.of \in Setting /\ Nothing.bytes = <<>>
      BY DEF Nothing, Setting, UnitKinds
    <2>3. \A j \in DOMAIN Nothing.bytes : Nothing.bytes[j] \in 0 .. 255
      BY <2>2
    <2>4. Halfway \subseteq Setting
      BY DEF Halfway
    <2> QED BY <2>1, <2>2, <2>3, <2>4 DEF StoreOK, JobOK
  <1>6. CASE UNCHANGED vars
    BY <1>6 DEF vars, StoreOK, JobOK
  <1> QED BY <1>1, <1>2, <1>3, <1>4, <1>5, <1>6 DEF Next

(* What is stored are bytes, so that every setting reads as a legal value.  *)
LEMMA StoreTyped == StoreInv => SettingsTypeOK
  <1> SUFFICES ASSUME StoreInv, NEW s \in Setting
               PROVE  Read(s) \in Range(s[1])
    BY DEF StoreInv, StoreOK, SettingsTypeOK
  <1>1. \A k \in 1 .. Width(s) : Stored(s)[k] \in 0 .. 255
    <2> TAKE k \in 1 .. Width(s)
    <2>1. Offset(s) + k - 1 \in Cell
      BY CellOfSetting
    <2> QED BY <2>1 DEF Stored, StoreInv, StoreOK
  <1>2. Value(s[1], Stored(s)) \in Range(s[1])
    BY <1>1, ValueLegal
  <1> QED BY <1>2 DEF Read

LEMMA StoreAlways == Spec => []StoreInv
  <1> QED BY StoreInit, StoreStep, PTL DEF Spec

(* For any ports and any numbers typed, every variable keeps its range and  *)
(* every setting reads as a legal value, whatever mixture of bytes a loss   *)
(* of power left.                                                           *)
THEOREM SettingsTypeCorrect == Spec => []SettingsTypeOK
  <1> QED BY StoreAlways, StoreTyped, PTL

-----------------------------------------------------------------------------
(* Limits *)

(* A limit is a single byte: it is erased when its cell is.                 *)
LEMMA LimitErased ==
    ASSUME NEW port \in Ports, at = Offset(<<"LIMIT", port>>)
    PROVE  <<"LIMIT", port>> \in Setting /\ <<"LIMIT", port>> \in Erased
  <1>1. <<"LIMIT", port>> \in Setting
    BY DEF Setting, PortKinds
  <1>2. Width(<<"LIMIT", port>>) = 1 /\ Offset(<<"LIMIT", port>>) \in Int
    BY <1>1, LayoutByKind, OffsetTyped
  <1> QED BY <1>1, <1>2 DEF Erased

(* A byte as a limit.                                                       *)
NotLaxer(b, n) == n >= -32768 => ReadLimit(b) * 100 <= IF n < 0 THEN 0 ELSE n

LimitInv ==
    \A port \in Ports : \A n \in given[<<"LIMIT", port>>] :
        NotLaxer(ee[Offset(<<"LIMIT", port>>)], n)

LEMMA LimitSetting ==
    ASSUME NEW port \in Ports
    PROVE  /\ <<"LIMIT", port>> \in Setting /\ Width(<<"LIMIT", port>>) = 1
           /\ Offset(<<"LIMIT", port>>) \in Cell /\ Offset(<<"LIMIT", port>>) \in Int
  <1>1. <<"LIMIT", port>> \in Setting
    BY DEF Setting, PortKinds
  <1>2. Width(<<"LIMIT", port>>) = 1 /\ Offset(<<"LIMIT", port>>) \in Int
    BY <1>1, LayoutByKind, OffsetTyped
  <1>3. Offset(<<"LIMIT", port>>) + (1 - 1) \in Cell
    BY <1>1, <1>2, CellOfSetting
  <1> QED BY <1>1, <1>2, <1>3

LEMMA LimitWritten ==
    ASSUME NEW n \in Int, InRange("LIMIT", Argument("LIMIT", n))
    PROVE  NotLaxer(Bytes("LIMIT", Argument("LIMIT", n))[1], n)
  <1> DEFINE u == Argument("LIMIT", n)
  <1> SUFFICES ASSUME n >= -32768
               PROVE  ReadLimit(Bytes("LIMIT", u)[1]) * 100 <= IF n < 0 THEN 0 ELSE n
    BY DEF NotLaxer
  <1>1. u \in Int /\ 0 <= u /\ u <= 100 /\ u * 100 <= IF n < 0 THEN 0 ELSE n
    BY LimitTaken
  <1> HIDE DEF u
  <1>2. Bytes("LIMIT", u)[1] = u % 256
    BY DEF Bytes
  <1>3. u % 256 = u
    BY <1>1, SMT
  <1> QED BY <1>1, <1>2, <1>3, SMT DEF ReadLimit

LEMMA LimitStep == StoreInv /\ LimitInv /\ [Next]_vars => LimitInv'
  <1> SUFFICES ASSUME StoreInv, LimitInv, [Next]_vars,
                      NEW port \in Ports, NEW n \in given'[<<"LIMIT", port>>]
               PROVE  NotLaxer(ee'[Offset(<<"LIMIT", port>>)], n)
    BY DEF LimitInv
  <1> DEFINE l == <<"LIMIT", port>>
  <1>0. l \in Setting /\ Width(l) = 1 /\ Offset(l) \in Cell /\ Offset(l) \in Int /\ l[1] = "LIMIT"
    BY LimitSetting
  <1>1. n \in given[l] => NotLaxer(ee[Offset(l)], n)
    BY DEF LimitInv
  <1> HIDE DEF l
  <1>n. n \in given'[l]
    BY DEF l
  <1> SUFFICES NotLaxer(ee'[Offset(l)], n)
    BY DEF l
  <1>2. ASSUME NEW s \in Setting, NEW m \in Typed[s[1]], Request(s, m)
        PROVE  NotLaxer(ee'[Offset(l)], n)
    <2>1. given' = given
      <3>1. s[1] \in Kinds
        BY SettingForm
      <3>2. m \in Documented(s[1]) => InRange(s[1], Argument(s[1], m))
        BY <3>1, DocumentedTaken
      <3> QED BY <1>2, <3>2, Zenon DEF Request
    <2>2. ee' = ee
      BY <1>2 DEF Request
    <2> QED BY <1>1, <1>n, <2>1, <2>2
  <1>3. ASSUME NEW k \in 1 .. 4, WriteByte(k)
        PROVE  NotLaxer(ee'[Offset(l)], n)
    <2>1. /\ job.of \in Setting /\ k \in 1 .. Width(job.of) /\ k \in left /\ job.typed \in Int
          /\ InRange(job.of[1], Argument(job.of[1], job.typed))
          /\ job.bytes = Bytes(job.of[1], Argument(job.of[1], job.typed))
      BY <1>3 DEF WriteByte, StoreInv, StoreOK, JobOK
    <2>2. /\ ee' = [ee EXCEPT ![Offset(job.of) + k - 1] = job.bytes[k]]
          /\ left' = left \ {k}
          /\ left' = {} => given' = [given EXCEPT ![job.of] = {job.typed}]
          /\ left' # {} => given' = given
      BY <1>3 DEF WriteByte
    <2>3. /\ Offset(job.of) + k - 1 = Offset(job.of) + (k - 1)
          /\ ee \in [Cell -> 0 .. 255] /\ given \in [Setting -> SUBSET Int]
      BY <2>1, CellOfSetting DEF StoreInv, StoreOK
    <2>4. CASE job.of = l
      <3>1. k = 1 /\ left' = {}
        BY <1>0, <2>1, <2>2, <2>4 DEF StoreInv, StoreOK
      <3>2. n = job.typed
        BY <1>n, <1>0, <2>2, <2>3, <2>4, <3>1
      <3>3. ee'[Offset(l)] = job.bytes[1]
        BY <1>0, <2>2, <2>3, <2>4, <3>1
      <3>4. NotLaxer(job.bytes[1], job.typed)
        BY <1>0, <2>1, <2>4, LimitWritten
      <3> QED BY <3>2, <3>3, <3>4
    <2>5. CASE job.of # l
      <3>1. n \in given[l]
        BY <1>n, <1>0, <2>1, <2>2, <2>3, <2>5
      <3>2. Offset(l) # Offset(job.of) + (k - 1)
        <4>1. 1 \in 1 .. Width(l) /\ Offset(l) + (1 - 1) = Offset(l)
          BY <1>0
        <4> QED BY <1>0, <2>1, <2>5, <4>1, OffsetInjective
      <3>3. ee'[Offset(l)] = ee[Offset(l)]
        BY <1>0, <2>2, <2>3, <3>2
      <3> QED BY <1>1, <3>1, <3>3
    <2> QED BY <2>4, <2>5
  <1>4. CASE StartReset
    BY <1>1, <1>4, <1>n DEF StartReset
  <1>5. CASE EraseCell
    <2>1. given'[l] = IF l \in Erased THEN {} ELSE given[l]
      BY <1>0, <1>5, EraseEffects
    <2>2. l \notin Erased /\ n \in given[l]
      BY <1>n, <2>1
    <2>3. at # Offset(l)
      BY <2>2, LimitErased DEF l
    <2>4. ee'[Offset(l)] = ee[Offset(l)]
      BY <1>0, <1>5, <2>3, EraseEffects DEF StoreInv, StoreOK
    <2> QED BY <1>1, <2>2, <2>4
  <1>6. CASE PowerLoss
    BY <1>1, <1>6, <1>n DEF PowerLoss
  <1>7. CASE UNCHANGED vars
    BY <1>1, <1>7, <1>n DEF vars
  <1> QED BY <1>2, <1>3, <1>4, <1>5, <1>6, <1>7 DEF Next

(* Whatever number is typed, the limit in force is never above it, for any  *)
(* ports and numbers: a mistyped limit trips too early, never too late.     *)
THEOREM LimitsNeverLaxer == Spec => []LimitNeverLaxer
  <1>1. Init => LimitInv
    <2> SUFFICES ASSUME Init, NEW port \in Ports
                 PROVE  given[<<"LIMIT", port>>] = {}
      BY DEF LimitInv
    <2> QED BY LimitSetting DEF Init
  <1>2. StoreInv /\ LimitInv => LimitNeverLaxer
    <2> SUFFICES ASSUME StoreInv, LimitInv, NEW port \in Ports,
                        NEW n \in given[<<"LIMIT", port>>], n >= -32768
                 PROVE  Read(<<"LIMIT", port>>) * 100 <= IF n < 0 THEN 0 ELSE n
      BY DEF LimitNeverLaxer
    <2> DEFINE l == <<"LIMIT", port>>
    <2>1. Width(l) = 1 /\ Offset(l) \in Int /\ l[1] = "LIMIT"
      BY LimitSetting
    <2>2. NotLaxer(ee[Offset(l)], n)
      BY DEF LimitInv
    <2> HIDE DEF l
    <2>3. Stored(l)[1] = ee[Offset(l)]
      BY <2>1 DEF Stored
    <2>4. Read(l) = ReadLimit(ee[Offset(l)])
      BY <2>1, <2>3 DEF Read, Value
    <2>5. Read(l) * 100 <= IF n < 0 THEN 0 ELSE n
      BY <2>2, <2>4 DEF NotLaxer
    <2> QED BY <2>5 DEF l
  <1> QED BY <1>1, <1>2, LimitStep, StoreAlways, PTL DEF Spec

-----------------------------------------------------------------------------
(* Settings read back *)

Holds(s) ==
    /\ given[s] = {} => Read(s) = Default(s[1])
    /\ \A n \in given[s] : Read(s) = Wanted(s[1], n)

(* The bytes of the command that are in their cells already.                *)
Written ==
    pc = "write" =>
        \A k \in 1 .. Width(job.of) \ left : ee[Offset(job.of) + k - 1] = job.bytes[k]

(* A reset has erased every cell before the one it is at.                   *)
ErasedBelow == pc = "reset" => \A c \in Cell : c < at => ee[c] = 255

KeptInv ==
    /\ \A s \in torn : Width(s) # 1
    /\ Written /\ ErasedBelow
    /\ \A s \in Setting : s \notin torn /\ s \notin Halfway => Holds(s)

(* A setting keeps its value while its cells and its history do.            *)
LEMMA HoldsOn ==
    ASSUME NEW s \in Setting, Holds(s), given'[s] = given[s],
           \A k \in 1 .. Width(s) : ee'[Offset(s) + k - 1] = ee[Offset(s) + k - 1]
    PROVE  Holds(s)'
  <1>1. Stored(s)' = Stored(s)
    BY DEF Stored
  <1>2. Read(s)' = Read(s)
    BY <1>1 DEF Read
  <1> QED BY <1>2 DEF Holds

(* A single byte is written or erased in one step.                          *)
LEMMA HalfwayIsLong ==
    ASSUME StoreInv, NEW s \in Halfway
    PROVE  s \in Setting /\ Width(s) # 1
  <1> SUFFICES ASSUME Width(s) = 1 PROVE FALSE
    BY DEF Halfway
  <1>1. Offset(s) \in Int
    BY OffsetTyped DEF Halfway
  <1>2. CASE pc = "write" /\ s = job.of /\ left # 1 .. Width(s)
    <2>1. left \subseteq 1 .. 1 /\ left # {}
      BY <1>2 DEF StoreInv, StoreOK, JobOK
    <2>2. 1 .. 1 = {1}
      BY SMT
    <2>3. left = {1}
      BY <2>1, <2>2
    <2> QED BY <1>2, <2>2, <2>3
  <1>3. CASE pc = "reset" /\ Offset(s) < at /\ at < Offset(s) + Width(s)
    <2>1. at \in Cell
      BY <1>3 DEF StoreInv, JobOK
    <2>2. at \in Int
      BY <2>1, CellIsNat
    <2> QED BY <1>1, <1>3, <2>2
  <1> QED BY <1>2, <1>3 DEF Halfway

LEMMA KeptInit == Init => KeptInv
  <1> SUFFICES ASSUME Init PROVE KeptInv
    OBVIOUS
  <1>1. ASSUME NEW s \in Setting PROVE Holds(s)
    <2>1. \A k \in 1 .. Width(s) : Stored(s)[k] = 255
      <3> TAKE k \in 1 .. Width(s)
      <3>1. Offset(s) + k - 1 \in Cell
        BY CellOfSetting
      <3> QED BY <3>1 DEF Stored, Init
    <2>2. Read(s) = Default(s[1])
      BY <2>1, ValueErased DEF Read
    <2>3. given[s] = {}
      BY DEF Init
    <2> QED BY <2>2, <2>3 DEF Holds
  <1> QED BY <1>1 DEF Init, KeptInv, Written, ErasedBelow

LEMMA KeptRequest ==
    ASSUME StoreInv, KeptInv,
           NEW s \in Setting, NEW n \in Typed[s[1]], Request(s, n)
    PROVE  KeptInv'
  <1>1. pc = "idle" /\ UNCHANGED <<ee, torn>>
    BY DEF Request
  <1>2. given' = given
    <2>1. n \in Documented(s[1]) => InRange(s[1], Argument(s[1], n))
      BY SettingForm, DocumentedTaken
    <2> QED BY <2>1, Zenon DEF Request
  <1>3. \/ pc' = "write" /\ job'.of = s /\ left' = 1 .. Width(s)
        \/ pc' = "idle"
    BY <1>1 DEF Request
  <1>4. Written' /\ ErasedBelow'
    BY <1>3 DEF Written, ErasedBelow
  <1>5. ASSUME NEW t \in Setting, t \notin torn PROVE Holds(t)'
    <2>1. t \notin Halfway
      BY <1>1 DEF Halfway
    <2>2. Holds(t)
      BY <1>5, <2>1 DEF KeptInv
    <2> QED BY <1>1, <1>2, <2>2, HoldsOn
  <1> QED BY <1>1, <1>4, <1>5 DEF KeptInv

LEMMA KeptWriteByte ==
    ASSUME StoreInv, KeptInv, NEW k \in 1 .. 4, WriteByte(k)
    PROVE  KeptInv'
  <1>0. PICK t \in Setting : t = job.of
    BY DEF StoreInv, StoreOK
  <1>1. /\ t \in Setting /\ k \in 1 .. Width(t) /\ k \in left /\ left \subseteq 1 .. Width(t)
        /\ job.typed \in Int /\ InRange(t[1], Argument(t[1], job.typed))
        /\ job.bytes = Bytes(t[1], Argument(t[1], job.typed))
        /\ pc = "write" /\ ee \in [Cell -> 0 .. 255] /\ given \in [Setting -> SUBSET Int]
    BY <1>0 DEF WriteByte, StoreInv, StoreOK, JobOK
  <1>2. /\ ee' = [ee EXCEPT ![Offset(t) + k - 1] = job.bytes[k]]
        /\ left' = left \ {k}
        /\ left' = {} => /\ pc' = "idle" /\ given' = [given EXCEPT ![t] = {job.typed}]
                         /\ torn' = torn \ {t}
        /\ left' # {} => UNCHANGED <<pc, job, given, torn>>
    BY <1>0 DEF WriteByte
  <1>3. Offset(t) + k - 1 \in Cell /\ Offset(t) + k - 1 = Offset(t) + (k - 1)
    BY <1>1, CellOfSetting
  <1>4. \A j \in 1 .. Width(t) \ left' : ee'[Offset(t) + j - 1] = job.bytes[j]
    <2> SUFFICES ASSUME NEW j \in 1 .. Width(t) \ left'
                 PROVE  ee'[Offset(t) + j - 1] = job.bytes[j]
      OBVIOUS
    <2>1. Offset(t) + j - 1 \in Cell /\ Offset(t) + j - 1 = Offset(t) + (j - 1)
      BY <1>1, CellOfSetting
    <2>2. CASE j = k
      BY <1>1, <1>2, <1>3, <2>2
    <2>3. CASE j # k
      <3>1. j \notin left
        BY <1>2, <2>3
      <3>2. ee[Offset(t) + j - 1] = job.bytes[j]
        BY <1>0, <1>1, <3>1 DEF KeptInv, Written
      <3>3. Offset(t) + j - 1 # Offset(t) + k - 1
        BY <1>1, <1>3, <2>1, <2>3, OffsetInjective
      <3> QED BY <1>1, <1>2, <2>1, <3>2, <3>3
    <2> QED BY <2>2, <2>3
  <1>5. ASSUME NEW s \in Setting, s # t, Holds(s) PROVE Holds(s)'
    <2>1. given'[s] = given[s]
      BY <1>1, <1>2, <1>5
    <2>2. \A j \in 1 .. Width(s) : ee'[Offset(s) + j - 1] = ee[Offset(s) + j - 1]
      <3> TAKE j \in 1 .. Width(s)
      <3>1. Offset(s) + j - 1 \in Cell /\ Offset(s) + j - 1 = Offset(s) + (j - 1)
        BY CellOfSetting
      <3>2. Offset(s) + j - 1 # Offset(t) + k - 1
        BY <1>1, <1>3, <1>5, <3>1, OffsetInjective
      <3> QED BY <1>1, <1>2, <3>1, <3>2
    <2> QED BY <1>5, <2>1, <2>2, HoldsOn
  <1>6. ASSUME NEW s \in Setting, s # t, s \notin torn PROVE Holds(s)'
    <2>1. s \notin Halfway
      BY <1>0, <1>1, <1>6 DEF Halfway
    <2> QED BY <1>5, <1>6, <2>1 DEF KeptInv
  <1>7. CASE left' = {}
    <2>1. PICK m \in Int : m = job.typed
      BY <1>1
    <2>2. \A j \in 1 .. Width(t) : ee'[Offset(t) + j - 1] = Bytes(t[1], Argument(t[1], m))[j]
      BY <1>1, <1>4, <1>7, <2>1
    <2>3. given'[t] = {m}
      BY <1>1, <1>2, <1>7, <2>1
    <2>4. Read(t)' = Wanted(t[1], m)
      <3> DEFINE b == Stored(t)'
      <3>1. \A j \in 1 .. Width(t) : b[j] = Bytes(t[1], Argument(t[1], m))[j]
        BY <2>2 DEF Stored
      <3>2. Read(t)' = Value(t[1], b)
        BY DEF Read
      <3> HIDE DEF b
      <3>3. Value(t[1], b) = Wanted(t[1], m)
        BY <1>1, <2>1, <3>1, ValueWanted
      <3> QED BY <3>2, <3>3
    <2>5. Holds(t)'
      BY <2>3, <2>4 DEF Holds
    <2>6. pc' = "idle" /\ torn' = torn \ {t}
      BY <1>2, <1>7
    <2>7. Written' /\ ErasedBelow'
      BY <2>6 DEF Written, ErasedBelow
    <2>8. \A s \in Setting : s \notin torn' => Holds(s)'
      BY <1>6, <2>5, <2>6
    <2> QED BY <2>6, <2>7, <2>8 DEF KeptInv
  <1>8. CASE left' # {}
    <2>1. UNCHANGED <<pc, job, given, torn>>
      BY <1>2, <1>8
    <2>2. Written' /\ ErasedBelow'
      BY <1>0, <1>1, <1>4, <2>1 DEF Written, ErasedBelow
    <2>3. \A s \in Setting : s \notin Halfway' => s # t
      <3>1. left' # 1 .. Width(t)
        BY <1>1, <1>2
      <3> QED BY <1>0, <1>1, <2>1, <3>1 DEF Halfway
    <2> QED BY <1>6, <2>1, <2>2, <2>3 DEF KeptInv
  <1> QED BY <1>7, <1>8

LEMMA KeptEraseCell ==
    ASSUME StoreInv, KeptInv, EraseCell
    PROVE  KeptInv'
  <1>1. /\ ee' = [ee EXCEPT ![at] = 255] /\ torn' = torn \ Erased
        /\ given' = [s \in Setting |-> IF s \in Erased THEN {} ELSE given[s]]
    BY EraseEffects
  <1>2. at \in Cell /\ pc = "reset" /\ pc' \in {"idle", "reset"}
    BY NextCell
  <1>3. \A d \in Cell : d > at =>
          pc' = "reset" /\ at' \in Cell /\ at' > at /\ at' <= d
    BY NextCell
  <1>4. ee \in [Cell -> 0 .. 255] /\ \A c \in Cell : c < at => ee[c] = 255
    BY <1>2 DEF StoreInv, StoreOK, KeptInv, ErasedBelow
  <1>5. \A c \in Cell : c <= at => ee'[c] = 255
    BY <1>1, <1>2, <1>4, CellIsNat
  <1>6. ErasedBelow'
    <2> SUFFICES ASSUME pc' = "reset", NEW c \in Cell, c < at' PROVE c <= at
      BY <1>5 DEF ErasedBelow
    <2>1. ~(c > at) \/ at' <= c
      BY <1>3
    <2>2. at' \in Cell
      BY NextCell
    <2> QED BY <1>2, <2>1, <2>2, CellIsNat
  <1>7. ASSUME NEW s \in Setting, s \in Erased PROVE Holds(s)'
    <2>1. given'[s] = {}
      BY <1>1, <1>7
    <2>2. at = Offset(s) + Width(s) - 1 /\ Offset(s) \in Int /\ Width(s) \in Int
      BY <1>7, OffsetTyped DEF Erased
    <2>3. \A k \in 1 .. Width(s) : ee'[Offset(s) + k - 1] = 255
      <3> TAKE k \in 1 .. Width(s)
      <3>1. Offset(s) + k - 1 \in Cell
        BY CellOfSetting
      <3>2. Offset(s) + k - 1 <= at
        BY <2>2
      <3> QED BY <1>5, <3>1, <3>2
    <2> DEFINE b == Stored(s)'
    <2>4. \A k \in 1 .. Width(s) : b[k] = 255
      BY <2>3 DEF Stored
    <2>5. Read(s)' = Value(s[1], b)
      BY DEF Read
    <2> HIDE DEF b
    <2>6. Value(s[1], b) = Default(s[1])
      BY <2>4, ValueErased
    <2> QED BY <2>1, <2>5, <2>6 DEF Holds
  <1>8. ASSUME NEW s \in Setting, s \notin Erased, s \notin torn, s \notin Halfway'
        PROVE  Holds(s)'
    <2>1. Offset(s) \in Int /\ Width(s) \in Int /\ at \in Int
      BY <1>2, OffsetTyped, CellIsNat
    <2>2. ~(Offset(s) <= at /\ at < Offset(s) + Width(s))
      <3> SUFFICES ASSUME Offset(s) <= at, at < Offset(s) + Width(s) PROVE FALSE
        OBVIOUS
      <3>1. at + 1 < Offset(s) + Width(s)
        BY <1>8, <2>1 DEF Erased
      <3>2. (at - Offset(s)) + 2 \in 1 .. Width(s)
        BY <2>1, <3>1
      <3>3. Offset(s) + (((at - Offset(s)) + 2) - 1) \in Cell
        BY <3>2, CellOfSetting
      <3>4. at + 1 \in Cell
        BY <2>1, <3>3
      <3>5. pc' = "reset" /\ at' > at /\ at' <= at + 1 /\ at' \in Cell
        BY <1>3, <2>1, <3>4
      <3>6. Offset(s) < at' /\ at' < Offset(s) + Width(s)
        BY <2>1, <3>1, <3>5, CellIsNat
      <3> QED BY <1>8, <3>5, <3>6 DEF Halfway
    <2>3. s \notin Halfway
      BY <1>2, <2>1, <2>2 DEF Halfway
    <2>4. Holds(s)
      BY <1>8, <2>3 DEF KeptInv
    <2>5. \A k \in 1 .. Width(s) : ee'[Offset(s) + k - 1] = ee[Offset(s) + k - 1]
      <3> TAKE k \in 1 .. Width(s)
      <3>1. Offset(s) + k - 1 \in Cell /\ Offset(s) + k - 1 # at
        BY <2>1, <2>2, CellOfSetting
      <3> QED BY <1>1, <1>4, <3>1
    <2>6. given'[s] = given[s]
      BY <1>1, <1>8
    <2> QED BY <2>4, <2>5, <2>6, HoldsOn
  <1>9. Written' /\ \A s \in torn' : Width(s) # 1
    BY <1>1, <1>2 DEF KeptInv, Written
  <1>10. \A s \in Setting : s \notin torn' /\ s \notin Halfway' => Holds(s)'
    BY <1>1, <1>7, <1>8
  <1> QED BY <1>6, <1>9, <1>10 DEF KeptInv

LEMMA KeptStep == StoreInv /\ KeptInv /\ [Next]_vars => KeptInv'
  <1> SUFFICES ASSUME StoreInv, KeptInv, [Next]_vars PROVE KeptInv'
    OBVIOUS
  <1>1. CASE StartReset
    <2>1. pc = "idle" /\ pc' = "reset" /\ UNCHANGED <<ee, given, torn>>
      BY <1>1 DEF StartReset
    <2>2. Halfway = {}
      BY <2>1 DEF Halfway
    <2>3. \A s \in Setting : s \notin torn => Holds(s)'
      BY <2>1, <2>2, HoldsOn DEF KeptInv
    <2>4. \A c \in Cell : at' <= c
      <3>1. Cell \subseteq Cell /\ at' = CHOOSE c \in Cell : \A d \in Cell : c <= d
        BY <1>1 DEF StartReset
      <3> QED BY <3>1, Least, Zenon
    <2>5. at' \in Cell
      BY StoreStep, <2>1 DEF StoreInv, JobOK
    <2>6. Written' /\ ErasedBelow'
      BY <2>1, <2>4, <2>5, CellIsNat DEF Written, ErasedBelow
    <2> QED BY <2>1, <2>3, <2>6 DEF KeptInv
  <1>2. CASE PowerLoss
    <2>1. /\ pc' = "idle" /\ torn' = torn \cup Halfway /\ UNCHANGED <<ee, given>>
      BY <1>2 DEF PowerLoss
    <2>2. \A s \in Setting : s \notin torn' => Holds(s)'
      BY <2>1, HoldsOn DEF KeptInv
    <2>3. \A s \in Halfway : Width(s) # 1
      BY HalfwayIsLong
    <2>4. Written' /\ ErasedBelow'
      BY <2>1 DEF Written, ErasedBelow
    <2> QED BY <2>1, <2>2, <2>3, <2>4 DEF KeptInv
  <1>3. CASE UNCHANGED vars
    <2>1. UNCHANGED <<ee, pc, job, left, at, given, torn>>
      BY <1>3 DEF vars
    <2>2. \A s \in Setting : s \notin torn' /\ s \notin Halfway' => Holds(s)'
      BY <2>1, HoldsOn DEF KeptInv, Halfway
    <2> QED BY <2>1, <2>2 DEF KeptInv, Written, ErasedBelow
  <1> QED BY <1>1, <1>2, <1>3, KeptRequest, KeptWriteByte, KeptEraseCell DEF Next

LEMMA KeptAlways == Spec => []KeptInv
  <1> QED BY KeptInit, KeptStep, StoreAlways, PTL DEF Spec

(* For any ports and any numbers typed, negative ones, ones that wrap and   *)
(* thresholds beyond VMAX included, a setting reads back as what was        *)
(* accepted for it last and as its default when nothing was, through        *)
(* commands for others, resets and losses of power.                         *)
THEOREM SettingsReadBack == Spec => []SettingsKept
  <1>1. KeptInv => SettingsKept
    BY DEF KeptInv, SettingsKept, Holds
  <1> QED BY <1>1, KeptAlways, PTL

(* A port whose limit and calibration were never given does not trip, at    *)
(* any reading and whatever became of the reference voltage.                *)
THEOREM DefaultsNeverTrip == Spec => []DefaultNeverTrips
  <1>1. StoreInv /\ KeptInv => DefaultNeverTrips
    <2> SUFFICES ASSUME StoreInv, KeptInv, NEW port \in Ports,
                        given[<<"LIMIT", port>>] = {}, given[<<"ICAL", port>>] = {},
                        NEW raw \in {1, 1023}
                 PROVE  ~Trips(port, raw)
      BY DEF DefaultNeverTrips
    <2> DEFINE l == <<"LIMIT", port>>  c == <<"ICAL", port>>  v == <<"VREF", 0>>
    <2>1. l \in Setting /\ c \in Setting /\ v \in Setting
      BY DEF Setting, PortKinds, UnitKinds
    <2>2. l[1] = "LIMIT" /\ c[1] = "ICAL" /\ v[1] = "VREF" /\ Width(l) = 1 /\ Width(c) = 1
      BY <2>1, LayoutByKind
    <2>3. given[l] = {} /\ given[c] = {}
      OBVIOUS
    <2> HIDE DEF l, c, v
    <2>4. \A s \in Setting : Width(s) = 1 /\ given[s] = {} => Read(s) = Default(s[1])
      BY HalfwayIsLong DEF KeptInv, Holds
    <2>5. Read(l) = 100 /\ Read(c) = 110
      BY <2>1, <2>2, <2>3, <2>4 DEF Default
    <2> DEFINE m == Read(v)  mv == Millivolts(m)  r == Reading(port, raw)
    <2>6. m \in Int /\ 9017754 <= m /\ m <= 9856614
      <3>1. m \in Mantissa(4300) .. Mantissa(4700)
        BY <2>1, <2>2, StoreTyped DEF SettingsTypeOK, Range
      <3> QED BY <3>1, MantissaRange, SMT
    <2> HIDE DEF m
    <2>7. mv \in Int /\ 0 <= mv /\ mv <= 4700
      <3>1. /\ mv \in Int
            /\ 2 * (m * 125) - 262144 <= 2 * (262144 * mv)
            /\ 2 * (262144 * mv) <= 2 * (m * 125) + 262144
        <4> DEFINE x == m * 125
        <4>1. x \in Int
          BY <2>6
        <4>2. mv = Nearest(x, 262144)
          BY SMT DEF Millivolts
        <4> HIDE DEF x, mv
        <4>3. /\ Nearest(x, 262144) \in Int
              /\ 2 * x - 262144 <= 2 * (262144 * Nearest(x, 262144))
              /\ 2 * (262144 * Nearest(x, 262144)) <= 2 * x + 262144
          BY <4>1, SMT DEF Nearest
        <4> QED BY <4>2, <4>3, SMT DEF x
      <3> QED BY <2>6, <3>1, SMT
    <2>8. r \in {0, raw * mv}
      BY DEF Reading, mv, m, v
    <2> HIDE DEF mv, r
    <2>9. r \in Int /\ r <= 1023 * 4700
      BY <2>7, <2>8, SMT
    <2>10. ~(10 * r > 100 * 5120 * 110)
      BY <2>9, SMT
    <2> QED BY <2>5, <2>10, SMT DEF Trips, r, l, c
  <1> QED BY <1>1, KeptAlways, StoreAlways, PTL

=============================================================================
