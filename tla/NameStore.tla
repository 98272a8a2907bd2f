------------------------------ MODULE NameStore ------------------------------
(***************************************************************************)
(* The names of the unit and of its ports: SETNAME copies them byte by     *)
(* byte from the command line into EEPROM, Ctrl-] erases them, every       *)
(* prompt and every status report reads them back up to the terminating    *)
(* byte.  Power may fail between any two bytes.  The command line is that  *)
(* of LineEditor; "SETNAME n" counts as one byte of it, whatever n.        *)
(***************************************************************************)
EXTENDS LineEditor, Integers

CONSTANTS NAME_CNT,   \* names: the unit's, then the ports' (9)
          NAME_LEN,   \* bytes of EEPROM for a name (16)
          SetName,    \* the byte that stands for SETNAME and the number of a name
          Blank,      \* a space or a tab
          ERASED      \* a byte of EEPROM never written: 255, which may be typed as well

Slot  == 0 .. NAME_CNT - 1
EECell == 0 .. NAME_CNT * NAME_LEN - 1

ASSUME NameAssumption ==
    /\ NAME_CNT \in Nat \ {0}
    /\ NAME_LEN \in Nat \ {0, 1}
    /\ Blank \in Byte \ {NUL}
    /\ SetName \in Byte \ {NUL, Blank}
    /\ ERASED \in Byte \ {NUL, Blank, SetName}

VARIABLES
    pc, at, slot, src,  \* the thread; the byte it writes, to which name, from where
    eeName,             \* [EECell -> Byte]
    asked,              \* history: the name each slot was given last, none if its write was cut off
    torn                \* history: slots whose write was cut off by a loss of power

nvars == <<vars, pc, at, slot, src, eeName, asked, torn>>

NInit ==
    /\ Init
    /\ pc = "idle" /\ at = 0 /\ slot = 0 /\ src = 0
    /\ eeName = [c \in EECell |-> ERASED]
    /\ asked = [s \in Slot |-> <<>>] /\ torn = {}

(* Mutant: the names overlap by one byte. *)
CellOfOverlapping(s, k) == s * (NAME_LEN - 1) + k

CellOf(s, k) == s * NAME_LEN + k

(* What EEPROM_Read_Port_Name finds: it reads on until an end byte. *)
NameOf(s) ==
    [k \in {k \in 1 .. NAME_LEN : \A j \in 1 .. k : eeName[CellOf(s, j - 1)] \notin {NUL, ERASED}}
        |-> eeName[CellOf(s, k - 1)]]

(* Bytes and wipes between two commands. *)
EditName ==
    /\ pc = "idle"
    /\ (\E c \in Byte : Buffer(c)) \/ TooLong \/ Backspace \/ Wipe
    /\ UNCHANGED <<pc, at, slot, src, eeName, asked, torn>>

OtherCommand ==
    /\ pc = "idle"
    /\ DATA_IN[0] # SetName
    /\ Newline
    /\ UNCHANGED <<pc, at, slot, src, eeName, asked, torn>>

(* Where the argument begins: past the blanks. *)
Argument ==
    CHOOSE k \in Cell : /\ k > 0 /\ DATA_IN[k] # Blank
                        /\ \A j \in 1 .. k - 1 : DATA_IN[j] = Blank

(* What can be stored of a name: its first 15 characters.                   *)
Truncated(text) ==
    LET first == CHOOSE k \in 2 .. Len(text) + 1 :
                    /\ k <= Len(text) => text[k] # Blank
                    /\ \A j \in 2 .. k - 1 : text[j] = Blank
    IN  SubSeq(text, first, IF Len(text) < first + NAME_LEN - 2 THEN Len(text)
                                                                ELSE first + NAME_LEN - 2)

(* What can be read back of it: a byte 255 that was typed ends it.          *)
Readable(name) ==
    [k \in {k \in DOMAIN name : \A j \in 1 .. k : name[j] # ERASED} |-> name[k]]

StartName(s) ==
    /\ pc = "idle" /\ DATA_IN[0] = SetName
    /\ pc' = "name" /\ slot' = s /\ src' = Argument /\ at' = 0
    /\ executed' = CString
    /\ asked' = [asked EXCEPT ![s] = Readable(Truncated(CString))]
    /\ UNCHANGED <<DATA_IN, DATA_IN_POS, eeName, torn>>

(* The copy does not look for the end of the line; past the buffer it reads *)
(* whatever lies behind it.                                                 *)
Source(k) == IF k \in Cell THEN {DATA_IN[k]} ELSE Byte

(* Mutant: the copy takes one byte more, and no end byte is written. *)
EndByteForgotten == Source(src + at)

EndByte == {NUL}

WriteName ==
    /\ pc = "name"
    /\ \E b \in IF at < NAME_LEN - 1 THEN Source(src + at) ELSE EndByte :
          eeName' = [eeName EXCEPT ![CellOf(slot, at)] = b]
    /\ IF at < NAME_LEN - 1 THEN at' = at + 1 /\ UNCHANGED <<pc, torn>>
                            ELSE at' = 0 /\ pc' = "clear" /\ torn' = torn \ {slot}
    /\ UNCHANGED <<vars, slot, src, asked>>

StartErase ==
    /\ pc = "idle" /\ pc' = "erase"
    /\ UNCHANGED <<vars, at, slot, src, eeName, asked, torn>>

(* EEPROM_Reset; the names are forgotten with their first byte. *)
EraseName ==
    /\ pc = "erase"
    /\ eeName' = [eeName EXCEPT ![at] = ERASED]
    /\ asked' = [s \in Slot |-> IF at = CellOf(s, 0) THEN <<>> ELSE asked[s]]
    /\ torn' = torn \ {s \in Slot : at = CellOf(s, 0)}
    /\ IF at + 1 \in EECell THEN at' = at + 1 /\ pc' = pc ELSE at' = 0 /\ pc' = "clear"
    /\ UNCHANGED <<vars, slot, src>>

EndName ==
    /\ pc = "clear" /\ pc' = "idle"
    /\ INPUT_Clear
    /\ slot' = 0 /\ src' = 0 /\ executed' = <<>>
    /\ UNCHANGED <<at, eeName, asked, torn>>

PowerLoss ==
    /\ pc' = "idle" /\ at' = 0 /\ slot' = 0 /\ src' = 0
    /\ DATA_IN' = Zeroes /\ DATA_IN_POS' = 0 /\ executed' = <<>>
    /\ torn' = torn \cup {s \in {slot} : pc = "name"}
    /\ asked' = [s \in Slot |-> IF s \in torn' THEN <<>> ELSE asked[s]]
    /\ UNCHANGED eeName

NNext ==
    \/ EditName \/ OtherCommand
    \/ \E s \in Slot : StartName(s)
    \/ WriteName \/ StartErase \/ EraseName \/ EndName
    \/ PowerLoss

NSpec == NInit /\ [][NNext]_nvars

-----------------------------------------------------------------------------
(* Properties *)

NTypeOK ==
    /\ TypeOK
    /\ pc \in {"idle", "name", "erase", "clear"}
    /\ at \in Nat
    /\ pc = "name" => at < NAME_LEN
    /\ pc = "erase" => at \in EECell
    /\ pc \in {"idle", "clear"} => at = 0
    /\ slot \in Slot
    /\ eeName \in [EECell -> Byte]

(* Every name ends inside its 16 bytes, in the middle of a write and after  *)
(* a loss of power too: reading one never overflows temp_name.              *)
NamesEnd == \A s \in Slot : \E k \in 0 .. NAME_LEN - 1 : eeName[CellOf(s, k)] \in {NUL, ERASED}

(* The command line implements the abstract one while SETNAME takes its     *)
(* argument out of it and whatever else happens: what is executed is what   *)
(* was typed and not rubbed out since the line was last empty.              *)
Typed == INSTANCE LineBuffer WITH
    line <- IF pc \in {"name", "clear"} THEN <<>> ELSE Line, MaxLine <- DATA_BUFF_LEN - 1
CommandLine == Typed!Spec

(* A name reads back as the one that was given last, cut to 15 characters   *)
(* and at the first byte 255 typed in it, unless its own write was cut off  *)
(* or is going on: what lies behind the command line, the other names, the  *)
(* name it replaces, power losses and resets leave no trace in it.          *)
NamesKept ==
    \A s \in Slot : s \in torn \/ (pc = "name" /\ slot = s) \/ NameOf(s) = asked[s]
=============================================================================
