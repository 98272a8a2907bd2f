------------------------------ MODULE LineEditor ------------------------------
(***************************************************************************)
(* The command line of the firmware: the buffer DATA_IN, its position      *)
(* DATA_IN_POS, the bytes main() files in it, and INPUT_Clear, which the   *)
(* supervision calls too, at any moment between two bytes.                 *)
(***************************************************************************)
EXTENDS Naturals, Sequences

CONSTANTS DATA_BUFF_LEN,   \* size of DATA_IN (32)
          Byte,            \* bytes main() takes for ordinary characters
          NUL              \* the byte 0, which may be typed as well

ASSUME BufferAssumption == DATA_BUFF_LEN \in Nat \ {0, 1}
ASSUME ByteAssumption == NUL \in Byte

VARIABLES DATA_IN,         \* [Cell -> Byte]
          DATA_IN_POS,
          executed         \* the string INPUT_Parse just saw, else empty

vars == <<DATA_IN, DATA_IN_POS, executed>>

Cell == 0 .. DATA_BUFF_LEN - 1

Zeroes == [k \in Cell |-> NUL]

(* The C string in the buffer, as a sequence. *)
CString == [k \in {k \in 1 .. DATA_BUFF_LEN : \A j \in 1 .. k : DATA_IN[j - 1] # NUL}
              |-> DATA_IN[k - 1]]

INPUT_Clear == DATA_IN' = Zeroes /\ DATA_IN_POS' = 0

Init == DATA_IN = Zeroes /\ DATA_IN_POS = 0 /\ executed = <<>>

(* Mutant: the last cell takes a character too. *)
HasRoomOffByOne == DATA_IN_POS < DATA_BUFF_LEN

HasRoom == DATA_IN_POS < DATA_BUFF_LEN - 1

Buffer(c) ==
    /\ HasRoom
    /\ DATA_IN_POS' = DATA_IN_POS + 1
    /\ DATA_IN' = [DATA_IN EXCEPT ![DATA_IN_POS] = c, ![DATA_IN_POS + 1] = NUL]
    /\ executed' = <<>>

(* A character that no longer fits costs the whole line. *)
TooLong == ~HasRoom /\ INPUT_Clear /\ executed' = <<>>

(* Mutant: the position goes back, the character stays. *)
BackspaceKeeps ==
    /\ DATA_IN_POS > 0
    /\ DATA_IN_POS' = DATA_IN_POS - 1
    /\ DATA_IN' = DATA_IN /\ executed' = <<>>

Backspace ==
    /\ DATA_IN_POS > 0
    /\ DATA_IN_POS' = DATA_IN_POS - 1
    /\ DATA_IN' = [DATA_IN EXCEPT ![DATA_IN_POS - 1] = NUL]
    /\ executed' = <<>>

(* INPUT_Parse, then INPUT_Clear. *)
Newline == executed' = CString /\ INPUT_Clear

(* Ctrl-C, or a port that was tripped or switched by the supervision. *)
Wipe == INPUT_Clear /\ executed' = <<>>

Next == (\E c \in Byte : Buffer(c)) \/ TooLong \/ Backspace \/ Newline \/ Wipe

Spec == Init /\ [][Next]_vars

-----------------------------------------------------------------------------
(* Properties *)

TypeOK ==
    /\ DATA_IN \in [Cell -> Byte]
    /\ DATA_IN_POS \in Cell

(* From the position on, the buffer holds nothing but zeroes: every string  *)
(* function that reads it stops inside it, and SETNAME, which copies 15     *)
(* bytes whatever the length, finds no rest of an earlier line.             *)
CleanTail == \A k \in Cell : k >= DATA_IN_POS => DATA_IN[k] = NUL

Line == [k \in 1 .. DATA_IN_POS |-> DATA_IN[k - 1]]

Abstract == INSTANCE LineBuffer WITH line <- Line, MaxLine <- DATA_BUFF_LEN - 1

(* The array and its position behave like an editable line of bounded       *)
(* length: what a newline executes is what was typed and not rubbed out     *)
(* since the line was last empty.                                           *)
ImplementsLine == Abstract!Spec
=============================================================================
