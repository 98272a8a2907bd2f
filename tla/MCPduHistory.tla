---------------------------- MODULE MCPduHistory ----------------------------
(***************************************************************************)
(* Values of the constants for the runs of PduHistory.                     *)
(***************************************************************************)
EXTENDS PduHistory

Cmd(op, ports, val) == [op |-> op, pd |-> ports, val |-> val]

(* Two ports: manual, automatic and overload control of the same ports.    *)
SuperviseCommands ==
    {Cmd("PON", {0}, 0), Cmd("POFF", {0, 1}, 0), Cmd("PCYCLE", {0}, 0),
     Cmd("VCTLON", {0}, 0), Cmd("VCTLOFF", {0, 1}, 0)}
SuperviseVolts == {1100, 1300}
SuperviseLoads == {{}, {0}}
SuperviseBoot == {{BootEnabled}, {BootEnabled, BootVctl}}
SuperviseCutOff == {1150}
SuperviseCutOn == {1250}

(* Two ports, power losses, every command that writes the EEPROM.          *)
DurableCommands ==
    {Cmd("SETDEFON", {0}, 0), Cmd("SETDEFOFF", {0, 1}, 0),
     Cmd("VCTLON", {1}, 0), Cmd("VCTLOFF", {0, 1}, 0), Cmd("RESET", {}, 0),
     Cmd("SETCYCLE", {}, 0), Cmd("SETCYCLE", {}, 31)}
DurableBoot == {Erased, {}, {BootVctl}}
DurableVolts == {1100}
DurableLoads == {{}}
DurableCutOff == {ErasedWord}
DurableCutOn == {1000}
=============================================================================
