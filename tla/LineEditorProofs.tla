--------------------------- MODULE LineEditorProofs ---------------------------
(***************************************************************************)
(* The command line of the firmware implements the abstract one, for any   *)
(* size of the buffer and any bytes.                                       *)
(***************************************************************************)
EXTENDS LineEditor, TLAPS

LineInv == TypeOK /\ CleanTail

LEMMA ClearInv ==
    ASSUME INPUT_Clear
    PROVE  LineInv'
BY BufferAssumption, ByteAssumption
   DEF INPUT_Clear, Zeroes, LineInv, TypeOK, CleanTail, Cell, BufferAssumption, ByteAssumption

LEMMA LineNext == LineInv /\ [Next]_vars => LineInv'
<1> SUFFICES ASSUME LineInv, [Next]_vars PROVE LineInv'
  OBVIOUS
<1> USE DEF LineInv, TypeOK
<1>1. ASSUME NEW c \in Byte, Buffer(c) PROVE LineInv'
  <2>1. /\ DATA_IN_POS' \in Cell /\ DATA_IN_POS \in Cell
        /\ DATA_IN_POS' = DATA_IN_POS + 1
    BY <1>1, BufferAssumption DEF Buffer, HasRoom, Cell, BufferAssumption
  <2>2. DATA_IN' = [DATA_IN EXCEPT ![DATA_IN_POS] = c, ![DATA_IN_POS + 1] = NUL]
    BY <1>1 DEF Buffer
  <2>3. DATA_IN' \in [Cell -> Byte]
    BY <2>1, <2>2, ByteAssumption DEF ByteAssumption
  <2>4. ASSUME NEW k \in Cell, k >= DATA_IN_POS + 1 PROVE DATA_IN'[k] = NUL
    BY <2>1, <2>2, <2>4 DEF CleanTail, Cell
  <2> QED BY <2>1, <2>3, <2>4 DEF CleanTail
<1>2. ASSUME Backspace PROVE LineInv'
  <2>1. /\ DATA_IN_POS' \in Cell /\ DATA_IN_POS \in Cell
        /\ DATA_IN_POS' = DATA_IN_POS - 1
        /\ DATA_IN' = [DATA_IN EXCEPT ![DATA_IN_POS - 1] = NUL]
    BY <1>2, BufferAssumption DEF Backspace, Cell, BufferAssumption
  <2>2. DATA_IN' \in [Cell -> Byte]
    BY <2>1, ByteAssumption DEF ByteAssumption
  <2>3. ASSUME NEW k \in Cell, k >= DATA_IN_POS - 1 PROVE DATA_IN'[k] = NUL
    BY <2>1, <2>3 DEF CleanTail, Cell
  <2> QED BY <2>1, <2>2, <2>3 DEF CleanTail
<1>3. CASE TooLong \/ Newline \/ Wipe
  BY <1>3, ClearInv DEF TooLong, Newline, Wipe
<1>4. CASE UNCHANGED vars
  BY <1>4 DEF vars, CleanTail
<1> QED BY <1>1, <1>2, <1>3, <1>4 DEF Next

(* The position stays inside the buffer and everything behind it is zero:   *)
(* no string function of the parser runs past the buffer.                   *)
THEOREM TailStaysClean == Spec => [](TypeOK /\ CleanTail)
<1>1. Init => LineInv
  BY BufferAssumption, ByteAssumption
     DEF Init, Zeroes, LineInv, TypeOK, CleanTail, Cell, BufferAssumption, ByteAssumption
<1> QED BY <1>1, LineNext, PTL DEF Spec, LineInv

-----------------------------------------------------------------------------

LEMMA PrefixIsSeq ==
    ASSUME NEW S, NEW n \in Nat, NEW f, \A k \in 1 .. n : f[k - 1] \in S
    PROVE  /\ [k \in 1 .. n |-> f[k - 1]] \in Seq(S)
           /\ Len([k \in 1 .. n |-> f[k - 1]]) = n
OBVIOUS

LEMMA LineType ==
    ASSUME LineInv
    PROVE  /\ Line \in Seq(Byte)
           /\ Len(Line) = DATA_IN_POS
           /\ \A k \in 1 .. DATA_IN_POS : Line[k] = DATA_IN[k - 1]
<1>1. DATA_IN_POS \in Nat /\ 1 .. DATA_IN_POS \subseteq 1 .. DATA_BUFF_LEN
  BY BufferAssumption DEF LineInv, TypeOK, Cell, BufferAssumption
<1>2. \A k \in 1 .. DATA_IN_POS : DATA_IN[k - 1] \in Byte
  BY BufferAssumption DEF LineInv, TypeOK, Cell, BufferAssumption
<1> QED BY <1>1, <1>2 DEF Line

(* The string in the buffer is the text of the line. *)
LEMMA StringIsText ==
    ASSUME LineInv
    PROVE  CString = Abstract!Text(Line)
<1> DEFINE S == {k \in 1 .. DATA_BUFF_LEN : \A j \in 1 .. k : DATA_IN[j - 1] # NUL}
<1> DEFINE T == {k \in 1 .. Len(Line) : \A j \in 1 .. k : Line[j] # NUL}
<1>0. DATA_IN_POS \in Nat /\ DATA_IN_POS < DATA_BUFF_LEN /\ DATA_BUFF_LEN \in Nat
  BY BufferAssumption DEF LineInv, TypeOK, Cell, BufferAssumption
<1>1. ASSUME NEW k \in S PROVE k \in T
  <2>1. k \in 1 .. DATA_BUFF_LEN /\ \A j \in 1 .. k : DATA_IN[j - 1] # NUL
    OBVIOUS
  <2>2. k <= DATA_IN_POS
    <3> SUFFICES ASSUME k > DATA_IN_POS PROVE FALSE
      BY <1>0
    <3>1. k - 1 \in Cell /\ k - 1 >= DATA_IN_POS /\ k \in 1 .. k
      BY <1>0 DEF Cell
    <3> QED BY <2>1, <3>1 DEF LineInv, CleanTail
  <2> QED BY <1>0, <2>1, <2>2, LineType
<1>2. ASSUME NEW k \in T PROVE k \in S
  <2>1. k \in 1 .. DATA_IN_POS /\ \A j \in 1 .. k : Line[j] # NUL
    BY LineType
  <2>2. k \in 1 .. DATA_BUFF_LEN /\ \A j \in 1 .. k : j \in 1 .. DATA_IN_POS
    BY <1>0, <2>1
  <2>3. \A j \in 1 .. k : DATA_IN[j - 1] # NUL
    BY <2>1, <2>2, LineType
  <2> QED BY <2>2, <2>3
<1>3. S = T
  BY <1>1, <1>2
<1>4. \A k \in T : Line[k] = DATA_IN[k - 1]
  BY LineType
<1> HIDE DEF S, T
<1>5. [k \in S |-> DATA_IN[k - 1]] = [k \in T |-> Line[k]]
  BY <1>3, <1>4
<1> QED BY <1>5 DEF S, T, CString, Abstract!Text

LEMMA ClearLine ==
    ASSUME INPUT_Clear
    PROVE  Line' = <<>>
BY DEF INPUT_Clear, Line

LEMMA BufferIsType ==
    ASSUME LineInv, NEW c \in Byte, Buffer(c)
    PROVE  Abstract!Type(c)
<1>1. /\ DATA_IN_POS \in Cell /\ DATA_IN_POS < DATA_BUFF_LEN - 1 /\ DATA_BUFF_LEN \in Nat
      /\ DATA_IN_POS \in Nat
      /\ DATA_IN_POS' = DATA_IN_POS + 1 /\ executed' = <<>>
      /\ DATA_IN' = [DATA_IN EXCEPT ![DATA_IN_POS] = c, ![DATA_IN_POS + 1] = NUL]
      /\ DATA_IN \in [Cell -> Byte]
  BY BufferAssumption DEF LineInv, TypeOK, Cell, Buffer, HasRoom, BufferAssumption
<1>2. DATA_IN'[DATA_IN_POS] = c
      /\ \A k \in 1 .. DATA_IN_POS : DATA_IN'[k - 1] = DATA_IN[k - 1]
  BY <1>1 DEF Cell
<1>3. Line' = [k \in 1 .. DATA_IN_POS + 1 |-> DATA_IN'[k - 1]]
  BY <1>1 DEF Line
<1>4. Line' = Append(Line, c)
  <2>1. /\ Line \in Seq(Byte) /\ Len(Line) = DATA_IN_POS
        /\ \A k \in 1 .. DATA_IN_POS : Line[k] = DATA_IN[k - 1]
    BY LineType
  <2>2. /\ Append(Line, c) \in Seq(Byte) /\ Len(Append(Line, c)) = DATA_IN_POS + 1
        /\ Append(Line, c)[DATA_IN_POS + 1] = c
        /\ \A k \in 1 .. DATA_IN_POS : Append(Line, c)[k] = Line[k]
    BY <2>1
  <2>3. /\ Line' \in Seq(Byte) /\ Len(Line') = DATA_IN_POS + 1
        /\ Line'[DATA_IN_POS + 1] = c
        /\ \A k \in 1 .. DATA_IN_POS : Line'[k] = DATA_IN[k - 1]
    <3>1. \A k \in 1 .. DATA_IN_POS + 1 : DATA_IN'[k - 1] \in Byte
      <4> TAKE k \in 1 .. DATA_IN_POS + 1
      <4>1. CASE k = DATA_IN_POS + 1
        BY <1>1, <1>2, <4>1
      <4>2. CASE k \in 1 .. DATA_IN_POS
        BY <1>1, <1>2, <4>2 DEF Cell
      <4> QED BY <1>1, <4>1, <4>2
    <3>2. (DATA_IN_POS + 1) - 1 = DATA_IN_POS
      BY <1>1
    <3>3. Line' \in Seq(Byte) /\ Len(Line') = DATA_IN_POS + 1
      <4>1. DATA_IN_POS + 1 \in Nat
        BY <1>1
      <4> QED BY <1>3, <3>1, <4>1, PrefixIsSeq
    <3>4. \A k \in 1 .. DATA_IN_POS + 1 : Line'[k] = DATA_IN'[k - 1]
      BY <1>3
    <3>5. /\ 1 .. DATA_IN_POS \subseteq 1 .. DATA_IN_POS + 1
          /\ DATA_IN_POS + 1 \in 1 .. DATA_IN_POS + 1
      BY <1>1
    <3>6. Line'[DATA_IN_POS + 1] = c
      BY <1>2, <3>2, <3>4, <3>5
    <3>7. \A k \in 1 .. DATA_IN_POS : Line'[k] = DATA_IN[k - 1]
      BY <1>2, <3>4, <3>5
    <3> QED BY <3>3, <3>6, <3>7
  <2>4. \A k \in 1 .. DATA_IN_POS + 1 : Line'[k] = Append(Line, c)[k]
    <3> TAKE k \in 1 .. DATA_IN_POS + 1
    <3>1. CASE k = DATA_IN_POS + 1
      BY <2>2, <2>3, <3>1
    <3>2. CASE k \in 1 .. DATA_IN_POS
      BY <2>1, <2>2, <2>3, <3>2
    <3>3. k = DATA_IN_POS + 1 \/ k \in 1 .. DATA_IN_POS
      BY <1>1
    <3> QED BY <3>1, <3>2, <3>3
  <2> QED BY <1>1, <2>2, <2>3, <2>4
<1> QED BY <1>1, <1>4, LineType DEF Abstract!Type

LEMMA BackspaceIsRubout ==
    ASSUME LineInv, Backspace
    PROVE  Abstract!Rubout
<1>1. /\ DATA_IN_POS \in Cell /\ DATA_IN_POS \in Nat /\ DATA_IN_POS > 0 /\ DATA_BUFF_LEN \in Nat
      /\ DATA_IN_POS' = DATA_IN_POS - 1 /\ executed' = <<>>
      /\ DATA_IN' = [DATA_IN EXCEPT ![DATA_IN_POS - 1] = NUL]
      /\ DATA_IN \in [Cell -> Byte]
  BY BufferAssumption DEF LineInv, TypeOK, Cell, Backspace, BufferAssumption
<1>2. \A k \in 1 .. DATA_IN_POS - 1 : DATA_IN'[k - 1] = DATA_IN[k - 1]
  BY <1>1 DEF Cell
<1>3. Line' = [k \in 1 .. DATA_IN_POS - 1 |-> DATA_IN'[k - 1]]
  BY <1>1 DEF Line
<1>4. /\ Line \in Seq(Byte) /\ Len(Line) = DATA_IN_POS
      /\ \A k \in 1 .. DATA_IN_POS : Line[k] = DATA_IN[k - 1]
  BY LineType
<1>5. Line' = SubSeq(Line, 1, DATA_IN_POS - 1)
  <2>1. SubSeq(Line, 1, DATA_IN_POS - 1) = [k \in 1 .. DATA_IN_POS - 1 |-> Line[k]]
    BY <1>1, <1>4
  <2> QED BY <1>1, <1>2, <1>3, <1>4, <2>1
<1>6. Line # <<>>
  BY <1>1, <1>4
<1> QED BY <1>1, <1>4, <1>5, <1>6 DEF Abstract!Rubout

(* What a newline executes is what was typed and not rubbed out since the   *)
(* line was last empty: the buffer refines the abstract line.               *)
THEOREM EditorRefinesLine == Spec => ImplementsLine
<1>1. Init => Abstract!Init
  BY DEF Init, Abstract!Init, Line, CString, Zeroes
<1>2. LineInv /\ [Next]_vars => [Abstract!Next]_Abstract!bvars
  <2> SUFFICES ASSUME LineInv, [Next]_vars PROVE [Abstract!Next]_Abstract!bvars
    OBVIOUS
  <2>1. ASSUME NEW c \in Byte, Buffer(c) PROVE Abstract!Next
    BY <2>1, BufferIsType DEF Abstract!Next
  <2>2. CASE Backspace
    BY <2>2, BackspaceIsRubout DEF Abstract!Next
  <2>3. CASE Newline
    BY <2>3, StringIsText, ClearLine DEF Newline, Abstract!Next, Abstract!Execute
  <2>4. CASE TooLong \/ Wipe
    BY <2>4, ClearLine DEF TooLong, Wipe, Abstract!Next, Abstract!Drop
  <2>5. CASE UNCHANGED vars
    BY <2>5 DEF vars, Abstract!bvars, Line
  <2> QED BY <2>1, <2>2, <2>3, <2>4, <2>5 DEF Next
<1> QED BY <1>1, <1>2, TailStaysClean, PTL DEF Spec, ImplementsLine, Abstract!Spec, LineInv
=============================================================================
