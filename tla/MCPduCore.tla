------------------------------ MODULE MCPduCore ------------------------------
(***************************************************************************)
(* Values of the constants for the runs of PduCore.                        *)
(***************************************************************************)
EXTENDS PduCore

Cmd(op, ports, val) == [op |-> op, pd |-> ports, val |-> val]

(* Eight ports: those at the ends of each register one by one, the others  *)
(* together; a stored setting and a loss of power.                         *)
EightCommands ==
    {Cmd(op, ports, 0) : op \in {"PON", "POFF"}, ports \in {{0}, {3}, {4}, {7}, {1, 2, 5, 6}}}
    \cup {Cmd("SETDEFOFF", {4}, 0), Cmd("SETCYCLE", {}, 5)}
EightVolts == {1200}
EightLoads == {{}, {5}}
EightBoot == {Erased}
EightCutOff == {ErasedWord}
EightCutOn == {ErasedWord}

(* One port: everything that may delay the supervision, and thresholds that *)
(* are set, set out of range, erased and swapped between polls.             *)
LivenessCommands ==
    {Cmd("PON", {0}, 0), Cmd("PCYCLE", {0}, 0), Cmd("VCTLON", {0}, 0),
     Cmd("SETVCTLOFF", {0}, 1200), Cmd("SETVCTLOFF", {0}, 4050), Cmd("SETVCTLON", {0}, 1000),
     Cmd("RESET", {}, 0), Cmd("BOOTLOADER", {}, 0)}
LivenessVolts == {1100, 1300}
LivenessCutOff == {1400, ErasedWord}
LivenessCutOn == {1250, ErasedWord}
LivenessLoads == {{}, {0}}
LivenessBoot == {{BootEnabled}, {BootVctl}}
=============================================================================
