------------------------------ MODULE Settings ------------------------------
(***************************************************************************)
(* The numbers kept in EEPROM: current limits, calibrations, voltage       *)
(* thresholds and the PCYCLE time.  A command is the integer typed behind  *)
(* it; what it stores goes through the 16 bit integers, the divisions and  *)
(* the single precision floats of the firmware, byte by byte into the      *)
(* cells of the layout, and power may fail between any two bytes.          *)
(***************************************************************************)
EXTENDS Integers, Sequences, FiniteSets

CONSTANTS
    Ports,       \* ports with settings
    Typed,       \* [kind -> integers the host may type]
    MaxCommands  \* bound on commands

PortKinds == {"LIMIT", "ICAL", "CUTOFF", "CUTON"}
UnitKinds == {"VREF", "VCAL", "CYCLE"}

(* A setting: its kind, and its port (0 for those of the unit).            *)
Setting == (PortKinds \X Ports) \cup (UnitKinds \X {0})

ASSUME SettingsAssumption ==
    /\ Ports \subseteq 0 .. 7 /\ Ports # {}
    /\ DOMAIN Typed = PortKinds \cup UnitKinds
    /\ \A kind \in DOMAIN Typed : Typed[kind] \subseteq Int
    /\ MaxCommands \in Nat

VARIABLES
    ee,        \* [Cell -> 0 .. 255]
    pc,        \* "idle", "write" or "reset"
    job,       \* the setting being written, its bytes, what was typed
    left,      \* bytes of it still to be written
    at,        \* the cell EEPROM_Reset is about to erase
    given,     \* history: the number accepted last for each setting, as a set
    torn,      \* history: settings whose bytes a loss of power left mixed
    commands

vars == <<ee, pc, job, left, at, given, torn, commands>>

-----------------------------------------------------------------------------
(* Layout *)

Width(s) == CASE s[1] = "VREF" -> 4 [] s[1] \in {"CUTOFF", "CUTON"} -> 2 [] OTHER -> 1

(* Mutant: thresholds one byte apart. *)
ThresholdCellBytewise(base, port) == base + port

ThresholdCell(base, port) == base + 2 * port

(* The EEPROM_OFFSET_ constants. *)
Offset(s) ==
    CASE s[1] = "VREF"   -> 8
      [] s[1] = "VCAL"   -> 12
      [] s[1] = "CYCLE"  -> 13
      [] s[1] = "LIMIT"  -> 16 + s[2]
      [] s[1] = "ICAL"   -> 24 + s[2]
      [] s[1] = "CUTOFF" -> ThresholdCell(192, s[2])
      [] s[1] = "CUTON"  -> ThresholdCell(208, s[2])

CellsOf(s) == {Offset(s) + k : k \in 0 .. Width(s) - 1}
Cell == UNION {CellsOf(s) : s \in Setting}

Stored(s) == [k \in 1 .. Width(s) |-> ee[Offset(s) + k - 1]]

-----------------------------------------------------------------------------
(* Numbers *)

(* atoi on 16 bits, and the conversion of its result to uint16_t. *)
ToInt(n) == ((n + 32768) % 65536) - 32768
ToWord(n) == n % 65536

(* C divides toward zero. *)
Quotient(n, d) == IF n < 0 THEN -((-n) \div d) ELSE n \div d

(* n / d to the nearest integer, ties to even. *)
Nearest(n, d) ==
    LET q == n \div d  r == 2 * (n % d) IN
    IF r > d \/ (r = d /\ q % 2 = 1) THEN q + 1 ELSE q

(* (int)((float)u / 10.0 * 10.0) in single precision, u / 10 below 32: the  *)
(* quotient is a mantissa of 24 bits over 2^k, the product is rounded again. *)
ThroughTenths(u) ==
    LET scale == IF u < 80 THEN 2097152 ELSE IF u < 160 THEN 1048576 ELSE 524288
        product == 10 * Nearest(u * scale, 10)
        ulp == IF product < 134217728 THEN 8 ELSE 16
    IN  (Nearest(product, ulp) * ulp) \div scale

(* The mantissa of u / 1000.0, which lies between 4 and 8. *)
Mantissa(u) == Nearest(u * 262144, 125)

-----------------------------------------------------------------------------
(* Commands *)

(* Mutant: the quotient of a limit stays a signed number. *)
ArgumentSigned(kind, n) == IF kind = "LIMIT" THEN Quotient(n, 100) ELSE ToWord(ToInt(n))

(* The uint16_t a command works on. *)
Argument(kind, n) ==
    IF kind = "LIMIT" THEN ToWord(Quotient(ToInt(n), 100)) ELSE ToWord(ToInt(n))

(* The range checks. *)
InRange(kind, u) ==
    CASE kind = "LIMIT" -> u <= 100
      [] kind = "VREF"  -> u \in 4300 .. 4700
      [] kind = "VCAL"  -> u \in 70 .. 150
      [] kind = "ICAL"  -> u \in 60 .. 160
      [] kind = "CYCLE" -> u <= 30
      [] OTHER          -> u \div 100 <= 40

Bytes(kind, u) ==
    CASE kind \in {"LIMIT", "CYCLE"} -> <<u % 256>>
      [] kind \in {"VCAL", "ICAL"}   -> <<ThroughTenths(u) % 256>>
      [] kind = "VREF" ->
             LET m == Mantissa(u) IN
             <<m % 256, (m \div 256) % 256, 128 + ((m \div 65536) % 128), 64>>
      [] OTHER -> <<u % 256, u \div 256>>

(* Mutant: an erased limit is not recognised. *)
ReadLimitUnclamped(b) == b

ReadLimit(b) == IF b > 100 THEN 100 ELSE b

(* Mutant: an erased calibration is taken at its lower end. *)
CalibrationClamped(b, low, high) == IF b < low \/ b > high THEN low ELSE b

ReadCalibration(b, low, high) == IF b < low \/ b > high THEN 110 ELSE b

(* A threshold in hundredths of a volt; beyond VMAX it has a default. *)
ReadThreshold(lo, hi, beyond) ==
    LET word == lo + 256 * hi IN IF word > 4000 THEN beyond ELSE word

(* EEPROM_Read_REF_V, as a mantissa. *)
ReadRef(b) ==
    LET m == 65536 * b[3] + 256 * b[2] + b[1] IN
    IF b[4] = 64 /\ b[3] >= 128 /\ m \in Mantissa(4300) .. Mantissa(4700)
    THEN m ELSE Mantissa(4500)

(* What the firmware makes of the bytes b of a setting, whatever they are.  *)
Value(kind, b) ==
    CASE kind = "LIMIT"  -> ReadLimit(b[1])
      [] kind = "CYCLE"  -> IF b[1] > 30 THEN 1 ELSE b[1]
      [] kind = "VCAL"   -> ReadCalibration(b[1], 70, 150)
      [] kind = "ICAL"   -> ReadCalibration(b[1], 60, 160)
      [] kind = "CUTOFF" -> ReadThreshold(b[1], b[2], 0)
      [] kind = "CUTON"  -> ReadThreshold(b[1], b[2], 4000)
      [] kind = "VREF"   -> ReadRef(b)

Read(s) == Value(s[1], Stored(s))

(* Numbers that README.md and the header both promise to take: README.md    *)
(* gives a VREF of 4000 .. 4400, the header one of 4300 .. 4700.            *)
Documented(kind) ==
    CASE kind = "LIMIT" -> 0 .. 10000
      [] kind = "VREF"  -> 4300 .. 4400
      [] kind = "VCAL"  -> 70 .. 150
      [] kind = "ICAL"  -> 60 .. 160
      [] kind = "CYCLE" -> 0 .. 30
      [] OTHER          -> 0 .. 4000

-----------------------------------------------------------------------------

Nothing == [of |-> <<"CYCLE", 0>>, bytes |-> <<>>, typed |-> 0]

Init ==
    /\ ee = [c \in Cell |-> 255]
    /\ pc = "idle" /\ job = Nothing /\ left = {} /\ at = 0
    /\ given = [s \in Setting |-> {}] /\ torn = {} /\ commands = 0

(* A command.  One that is refused changes nothing; should it refuse what   *)
(* is documented, the history takes note all the same.                      *)
Request(s, n) ==
    LET u == Argument(s[1], n) IN
    /\ pc = "idle" /\ commands < MaxCommands /\ commands' = commands + 1
    /\ IF InRange(s[1], u)
       THEN /\ pc' = "write" /\ left' = 1 .. Width(s)
            /\ job' = [of |-> s, bytes |-> Bytes(s[1], u), typed |-> n]
            /\ UNCHANGED given
       ELSE /\ given' = IF n \in Documented(s[1]) THEN [given EXCEPT ![s] = {n}] ELSE given
            /\ UNCHANGED <<pc, job, left>>
    /\ UNCHANGED <<ee, at, torn>>

(* The bytes of a word or a float, in whatever order the library writes     *)
(* them.                                                                    *)
WriteByte(k) ==
    /\ pc = "write" /\ k \in left
    /\ ee' = [ee EXCEPT ![Offset(job.of) + k - 1] = job.bytes[k]]
    /\ left' = left \ {k}
    /\ IF left' = {}
       THEN /\ pc' = "idle" /\ job' = Nothing
            /\ given' = [given EXCEPT ![job.of] = {job.typed}]
            /\ torn' = torn \ {job.of}
       ELSE UNCHANGED <<pc, job, given, torn>>
    /\ UNCHANGED <<at, commands>>

StartReset ==
    /\ pc = "idle" /\ commands < MaxCommands /\ commands' = commands + 1
    /\ pc' = "reset" /\ at' = CHOOSE c \in Cell : \A d \in Cell : c <= d
    /\ UNCHANGED <<ee, job, left, given, torn>>

(* EEPROM_Reset, in the order of the addresses; cells that belong to no     *)
(* setting are passed over.                                                 *)
EraseCell ==
    LET later == {c \in Cell : c > at}
        done  == {s \in Setting : at = Offset(s) + Width(s) - 1}
    IN  /\ pc = "reset"
        /\ ee' = [ee EXCEPT ![at] = 255]
        /\ given' = [s \in Setting |-> IF s \in done THEN {} ELSE given[s]]
        /\ torn' = torn \ done
        /\ IF later = {} THEN pc' = "idle" /\ at' = 0
           ELSE pc' = pc /\ at' = CHOOSE c \in later : \A d \in later : c <= d
        /\ UNCHANGED <<job, left, commands>>

(* Settings with some of their bytes replaced, but not all.                *)
Halfway ==
    {s \in Setting :
        \/ pc = "write" /\ s = job.of /\ left # 1 .. Width(s)
        \/ pc = "reset" /\ Offset(s) < at /\ at < Offset(s) + Width(s)}

PowerLoss ==
    /\ pc # "idle" /\ pc' = "idle"
    /\ torn' = torn \cup Halfway
    /\ job' = Nothing /\ left' = {} /\ at' = 0
    /\ UNCHANGED <<ee, given, commands>>

Next ==
    \/ \E s \in Setting : \E n \in Typed[s[1]] : Request(s, n)
    \/ \E k \in 1 .. 4 : WriteByte(k)
    \/ StartReset \/ EraseCell \/ PowerLoss

Spec == Init /\ [][Next]_vars

-----------------------------------------------------------------------------
(* Measurements *)

(* ADC_Read_Port_Current of a reading of the converter, in units of         *)
(* 1 / (5120 ICAL) A: with REF in mV, raw * REF; the lowest count as none.  *)
Millivolts(m) == Nearest(m * 125, 262144)
Reading(port, raw) ==
    LET r == raw * Millivolts(Read(<<"VREF", 0>>)) IN
    IF 10 * r < 1024 * Read(<<"ICAL", port>>) THEN 0 ELSE r

(* PORT_Check_Current_Limit *)
Trips(port, raw) ==
    10 * Reading(port, raw) > Read(<<"LIMIT", port>>) * 5120 * Read(<<"ICAL", port>>)

-----------------------------------------------------------------------------
(* Properties *)

Range(kind) ==
    CASE kind = "LIMIT" -> 0 .. 100
      [] kind = "VREF"  -> Mantissa(4300) .. Mantissa(4700)
      [] OTHER          -> Documented(kind)

(* Every variable keeps its range, and whatever mixture of bytes the cells  *)
(* hold, every setting reads as a legal value.                              *)
SettingsTypeOK ==
    /\ ee \in [Cell -> 0 .. 255]
    /\ pc \in {"idle", "write", "reset"}
    /\ job.of \in Setting /\ left \subseteq 1 .. Width(job.of) /\ at \in Cell \cup {0}
    /\ \A k \in DOMAIN job.bytes : job.bytes[k] \in 0 .. 255
    /\ torn \subseteq Setting /\ commands \in 0 .. MaxCommands
    /\ \A s \in Setting : Read(s) \in Range(s[1])

Default(kind) ==
    CASE kind = "LIMIT" -> 100 [] kind = "CUTOFF" -> 0 [] kind = "CUTON" -> 4000
      [] kind = "CYCLE" -> 1 [] kind = "VREF" -> Mantissa(4500) [] OTHER -> 110

(* What is meant by a number n that was accepted.  Numbers wrap around at   *)
(* 16 bits, a limit drops its last two digits, negative ones included, and  *)
(* a threshold beyond VMAX, which is accepted up to 4099, means never.      *)
Wanted(kind, n) ==
    LET w == n % 65536 IN
    CASE kind = "LIMIT" -> IF w < 32768 THEN w \div 100 ELSE 0
      [] kind = "VREF"  -> Mantissa(w)
      [] kind \in {"CUTOFF", "CUTON"} /\ w > 4000 -> Default(kind)
      [] OTHER -> w

(* A setting reads back as what was accepted for it last, to the last digit *)
(* its unit keeps, and as its default when nothing was: other commands,     *)
(* refused ones, resets and losses of power leave it alone, except that a   *)
(* loss of power may mix the bytes of the one setting being written.        *)
SettingsKept ==
    \A s \in Setting \ (torn \cup Halfway) :
        /\ given[s] = {} => Read(s) = Default(s[1])
        /\ \A n \in given[s] : Read(s) = Wanted(s[1], n)

(* Whatever is typed, numbers out of range and above 16 bits included, the  *)
(* limit in force is never above it: a mistyped limit may trip a port too   *)
(* early, never too late.  (A number below -32768 wraps to a positive one.) *)
LimitNeverLaxer ==
    \A port \in Ports : \A n \in given[<<"LIMIT", port>>] :
        n >= -32768 => Read(<<"LIMIT", port>>) * 100 <= IF n < 0 THEN 0 ELSE n

(* src/README.md: the default limit of 10 A is there to effectively disable *)
(* the limits.  A port whose limit and calibration were never given does    *)
(* not trip at any reading, whatever became of the reference voltage.       *)
DefaultNeverTrips ==
    \A port \in Ports :
        given[<<"LIMIT", port>>] = {} /\ given[<<"ICAL", port>>] = {}
            => \A raw \in {1, 1023} : ~Trips(port, raw)
=============================================================================
