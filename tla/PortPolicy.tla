----------------------------- MODULE PortPolicy -----------------------------
(***************************************************************************)
(* What the unit promises of its sockets, whoever acts on them: a socket   *)
(* is switched only by a command the host gave for it, by voltage control  *)
(* where that is in charge, by an overload of its own, or by its default   *)
(* when power returns; a tripped socket is off and shown until somebody    *)
(* with that right acts on it.  Scans, polls, flags, registers and the     *)
(* order of the work are left to the implementation.                       *)
(***************************************************************************)
CONSTANTS
    Ports,
    Requests,  \* commands: records with an op and the ports pd it names
    None       \* no command

VARIABLES
    powered,   \* the sockets that are on
    tripped,   \* those an overload turned off
    auto,      \* those voltage control is in charge of
    lit,       \* the red LED
    asked,     \* the command the host waits for
    over,      \* the sockets above their limit
    starting   \* power has returned and defaults are being set

policy == <<powered, tripped, auto, lit, asked, over, starting>>

Off == powered = {} /\ tripped = {} /\ auto = {} /\ lit = FALSE /\ asked = None /\ starting = TRUE

Init == Off /\ over = {}

Put(S, p, in) == IF in THEN S \cup {p} ELSE S \ {p}

(* Whoever switches a socket takes its trip back. *)
Switch(p, on) == powered' = Put(powered, p, on) /\ tripped' = tripped \ {p}

Start(p) ==
    /\ starting /\ starting' \in BOOLEAN
    /\ \E on, control \in BOOLEAN : Switch(p, on) /\ auto' = Put(auto, p, control)
    /\ UNCHANGED <<lit, asked, over>>

(* A manual command also ends voltage control. *)
Manual(p) ==
    /\ p \in asked.pd
    /\ \/ asked.op \in {"PON", "PCYCLE"} /\ Switch(p, TRUE)
       \/ asked.op \in {"POFF", "PCYCLE"} /\ Switch(p, FALSE)
    /\ auto' = auto \ {p}
    /\ UNCHANGED <<lit, asked, over, starting>>

Entrust(p) ==
    /\ p \in asked.pd
    /\ \/ asked.op = "VCTLON" /\ auto' = auto \cup {p}
       \/ asked.op = "VCTLOFF" /\ auto' = auto \ {p}
    /\ UNCHANGED <<powered, tripped, lit, asked, over, starting>>

Automatic(p) ==
    /\ p \in auto
    /\ \E on \in BOOLEAN : Switch(p, on)
    /\ UNCHANGED <<auto, lit, asked, over, starting>>

Trip(p) ==
    /\ p \in over
    /\ powered' = powered \ {p} /\ tripped' = tripped \cup {p} /\ auto' = auto \ {p}
    /\ lit' = TRUE
    /\ UNCHANGED <<asked, over, starting>>

Dim ==
    /\ tripped = {} /\ lit' = FALSE
    /\ UNCHANGED <<powered, tripped, auto, asked, over, starting>>

(* The world: commands come and end, loads change, power fails and returns. *)
Ask ==
    /\ ~starting /\ asked' \in Requests \cup {None}
    /\ UNCHANGED <<powered, tripped, auto, lit, over, starting>>

Load ==
    /\ over' \in SUBSET Ports
    /\ UNCHANGED <<powered, tripped, auto, lit, asked, starting>>

PowerLoss == Off' /\ UNCHANGED over

Next ==
    \/ \E p \in Ports : Start(p) \/ Manual(p) \/ Entrust(p) \/ Automatic(p) \/ Trip(p)
    \/ Dim \/ Ask \/ Load \/ PowerLoss

Spec == Init /\ [][Next]_policy
=============================================================================
