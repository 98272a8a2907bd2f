--------------------------- MODULE NameStoreProofs ---------------------------
(***************************************************************************)
(* Reading a name never runs past its bytes, for any number and length of  *)
(* the names.                                                              *)
(***************************************************************************)
EXTENDS NameStore, LineEditorProofs, WellFoundedInduction, SequenceTheorems

(* The byte that every write of a name puts last.                           *)
LastEnds == \A s \in Slot : eeName[CellOf(s, NAME_LEN - 1)] \in {NUL, ERASED}

NameInv == NTypeOK /\ CleanTail /\ LastEnds

LEMMA CellInside ==
    ASSUME NEW s \in Slot, NEW k \in 0 .. NAME_LEN - 1
    PROVE  CellOf(s, k) \in EECell
<1>1. /\ s \in Int /\ k \in Int /\ NAME_LEN \in Int /\ NAME_CNT \in Int
      /\ 0 <= s /\ s + 1 <= NAME_CNT /\ 0 <= k /\ k + 1 <= NAME_LEN /\ NAME_LEN > 0
  BY NameAssumption DEF Slot, NameAssumption
<1>2. ASSUME NEW a \in Int, NEW b \in Int, NEW c \in Int, 0 <= c, a <= b
      PROVE  a * c <= b * c
  BY <1>2, SMT
<1>3. (s + 1) * NAME_LEN <= NAME_CNT * NAME_LEN /\ 0 * NAME_LEN <= s * NAME_LEN
  BY <1>1, <1>2
<1>4. (s + 1) * NAME_LEN = s * NAME_LEN + NAME_LEN
  BY <1>1
<1>5. s * NAME_LEN \in Int /\ NAME_CNT * NAME_LEN \in Int
  BY <1>1
<1> QED BY <1>1, <1>3, <1>4, <1>5 DEF CellOf, EECell

(* Different bytes of the names lie in different cells.                     *)
LEMMA CellInjective ==
    ASSUME NEW s \in Slot, NEW t \in Slot, NEW k \in 0 .. NAME_LEN - 1, NEW j \in 0 .. NAME_LEN - 1,
           CellOf(s, k) = CellOf(t, j)
    PROVE  s = t /\ k = j
<1>1. /\ s \in Int /\ t \in Int /\ k \in Int /\ j \in Int /\ NAME_LEN \in Int /\ NAME_LEN > 0
      /\ 0 <= k /\ k < NAME_LEN /\ 0 <= j /\ j < NAME_LEN
  BY NameAssumption DEF Slot, NameAssumption
<1>2. ASSUME NEW a \in Int, NEW b \in Int, NEW c \in Int, 0 <= c, a <= b
      PROVE  a * c <= b * c
  BY <1>2, SMT
<1>3. s * NAME_LEN \in Int /\ t * NAME_LEN \in Int
  BY <1>1
<1>4. s * NAME_LEN + k = t * NAME_LEN + j
  BY DEF CellOf
<1>5. ~(s + 1 <= t)
  <2> SUFFICES ASSUME s + 1 <= t PROVE FALSE
    OBVIOUS
  <2>1. (s + 1) * NAME_LEN <= t * NAME_LEN
    BY <1>1, <1>2
  <2>2. (s + 1) * NAME_LEN = s * NAME_LEN + NAME_LEN
    BY <1>1
  <2> QED BY <1>1, <1>3, <1>4, <2>1, <2>2
<1>6. ~(t + 1 <= s)
  <2> SUFFICES ASSUME t + 1 <= s PROVE FALSE
    OBVIOUS
  <2>1. (t + 1) * NAME_LEN <= s * NAME_LEN
    BY <1>1, <1>2
  <2>2. (t + 1) * NAME_LEN = t * NAME_LEN + NAME_LEN
    BY <1>1
  <2> QED BY <1>1, <1>3, <1>4, <2>1, <2>2
<1>7. s = t
  BY <1>1, <1>5, <1>6
<1> QED BY <1>1, <1>3, <1>4, <1>7

LEMMA NameInit == NInit => NameInv
<1> SUFFICES ASSUME NInit PROVE NameInv
  OBVIOUS
<1>1. LineInv
  BY BufferAssumption, ByteAssumption
     DEF NInit, Init, Zeroes, LineInv, TypeOK, CleanTail, Cell, BufferAssumption, ByteAssumption
<1>2. NTypeOK
  BY <1>1, NameAssumption, SMTT(30) DEF NInit, NTypeOK, LineInv, Slot, NameAssumption
<1>3. LastEnds
  <2> SUFFICES ASSUME NEW s \in Slot PROVE eeName[CellOf(s, NAME_LEN - 1)] = ERASED
    BY DEF LastEnds
  <2>1. CellOf(s, NAME_LEN - 1) \in EECell
    BY CellInside, NameAssumption DEF NameAssumption
  <2> QED BY <2>1 DEF NInit
<1> QED BY <1>1, <1>2, <1>3 DEF NameInv, LineInv

LEMMA NameFrame ==
    ASSUME NameInv, UNCHANGED eeName PROVE LastEnds'
BY DEF NameInv, LastEnds, CellOf

LEMMA LineFrame ==
    ASSUME NameInv, [Next]_vars \/ INPUT_Clear \/ UNCHANGED <<DATA_IN, DATA_IN_POS>>
    PROVE  (TypeOK /\ CleanTail)'
<1>1. CASE [Next]_vars
  BY <1>1, LineNext DEF NameInv, NTypeOK, LineInv
<1>2. CASE INPUT_Clear
  BY <1>2, ClearInv DEF LineInv
<1>3. CASE UNCHANGED <<DATA_IN, DATA_IN_POS>>
  BY <1>3 DEF NameInv, NTypeOK, TypeOK, CleanTail, Cell
<1> QED BY <1>1, <1>2, <1>3

LEMMA NameNext == NameInv /\ [NNext]_nvars => NameInv'
<1> SUFFICES ASSUME NameInv, [NNext]_nvars PROVE NameInv'
  OBVIOUS
<1>type. /\ NTypeOK /\ LastEnds /\ NAME_LEN \in Nat \ {0, 1} /\ NAME_CNT \in Nat \ {0}
  BY NameAssumption DEF NameInv, NameAssumption
<1>1. CASE EditName \/ OtherCommand
  <2>1. [Next]_vars
    BY <1>1 DEF EditName, OtherCommand, Next
  <2>2. UNCHANGED <<pc, at, slot, src, eeName>>
    BY <1>1 DEF EditName, OtherCommand
  <2> QED BY <2>1, <2>2, LineFrame, NameFrame DEF NameInv, NTypeOK
<1>2. ASSUME NEW s \in Slot, StartName(s) PROVE NameInv'
  <2>1. /\ UNCHANGED <<DATA_IN, DATA_IN_POS, eeName>>
        /\ pc' = "name" /\ slot' = s /\ src' = Argument /\ at' = 0
    BY <1>2 DEF StartName
  <2> QED BY <1>type, <2>1, LineFrame, NameFrame DEF NameInv, NTypeOK
<1>3. CASE WriteName
  <2>1. /\ UNCHANGED <<DATA_IN, DATA_IN_POS, slot, src>> /\ at \in 0 .. NAME_LEN - 1
        /\ slot \in Slot
    BY <1>3, <1>type DEF WriteName, NTypeOK, vars
  <2>2. PICK b \in IF at < NAME_LEN - 1 THEN Source(src + at) ELSE EndByte :
              eeName' = [eeName EXCEPT ![CellOf(slot, at)] = b]
    BY <1>3 DEF WriteName
  <2>3. b \in Byte /\ (at = NAME_LEN - 1 => b = NUL)
    <3>1. Source(src + at) \subseteq Byte
      BY <1>type DEF Source, NTypeOK, TypeOK
    <3> QED BY <2>1, <2>2, <3>1, <1>type, ByteAssumption DEF EndByte, ByteAssumption
  <2>4. eeName' \in [EECell -> Byte]
    BY <1>type, <2>2, <2>3 DEF NTypeOK
  <2>5. LastEnds'
    <3> SUFFICES ASSUME NEW s \in Slot
                 PROVE  eeName'[CellOf(s, NAME_LEN - 1)] \in {NUL, ERASED}
      BY DEF LastEnds, CellOf
    <3>1. CellOf(s, NAME_LEN - 1) \in EECell
      BY <1>type, CellInside
    <3>2. CASE at = NAME_LEN - 1
      BY <1>type, <2>2, <2>3, <3>1, <3>2 DEF LastEnds, NTypeOK
    <3>3. CASE at # NAME_LEN - 1
      <4>1. CellOf(slot, at) # CellOf(s, NAME_LEN - 1)
        <5>1. NAME_LEN - 1 \in 0 .. NAME_LEN - 1
          BY <1>type
        <5> QED BY <2>1, <3>3, <5>1, CellInjective
      <4> QED BY <1>type, <2>2, <3>1, <4>1 DEF LastEnds, NTypeOK
    <3> QED BY <3>2, <3>3
  <2>6. pc' \in {"name", "clear"} /\ at' \in 0 .. NAME_LEN - 1 /\ (pc' = "clear" => at' = 0)
    BY <1>3, <1>type, <2>1 DEF WriteName
  <2> QED BY <1>type, <2>1, <2>4, <2>5, <2>6, LineFrame DEF NameInv, NTypeOK
<1>4. CASE StartErase
  <2>1. 0 \in EECell
    <3>1. 0 \in Slot /\ 0 \in 0 .. NAME_LEN - 1
      BY <1>type DEF Slot
    <3>2. CellOf(0, 0) = 0
      BY <1>type DEF CellOf
    <3> QED BY <3>1, <3>2, CellInside
  <2>2. at = 0
    BY <1>4, <1>type DEF StartErase, NTypeOK
  <2>3. /\ UNCHANGED <<DATA_IN, DATA_IN_POS, at, slot, src, eeName>> /\ pc' = "erase"
    BY <1>4 DEF StartErase, vars
  <2> QED BY <1>type, <2>1, <2>2, <2>3, LineFrame, NameFrame DEF NameInv, NTypeOK
<1>5. CASE EraseName
  <2>1. /\ UNCHANGED <<DATA_IN, DATA_IN_POS, slot, src>> /\ at \in EECell
        /\ eeName' = [eeName EXCEPT ![at] = ERASED]
    BY <1>5, <1>type DEF EraseName, NTypeOK, vars
  <2>2. /\ pc' \in {"erase", "clear"} /\ at' \in Nat
        /\ pc' = "erase" => at' \in EECell
        /\ pc' = "clear" => at' = 0
    BY <1>5, <1>type, <2>1 DEF EraseName, NTypeOK
  <2>3. LastEnds'
    <3> SUFFICES ASSUME NEW s \in Slot
                 PROVE  eeName'[CellOf(s, NAME_LEN - 1)] \in {NUL, ERASED}
      BY DEF LastEnds, CellOf
    <3>1. CellOf(s, NAME_LEN - 1) \in EECell
      BY <1>type, CellInside
    <3> QED BY <1>type, <2>1, <3>1 DEF LastEnds, NTypeOK
  <2>4. eeName' \in [EECell -> Byte]
    BY <1>type, <2>1, NameAssumption DEF NTypeOK, NameAssumption
  <2> QED BY <1>type, <2>1, <2>2, <2>3, <2>4, LineFrame DEF NameInv, NTypeOK
<1>6. CASE EndName \/ PowerLoss
  <2>1. INPUT_Clear
    BY <1>6 DEF EndName, PowerLoss, INPUT_Clear
  <2>2. /\ pc' = "idle" /\ slot' = 0 /\ at' = 0 /\ eeName' = eeName
    BY <1>6, <1>type DEF EndName, PowerLoss, NTypeOK
  <2>3. 0 \in Slot
    BY <1>type DEF Slot
  <2> QED BY <1>type, <2>1, <2>2, <2>3, LineFrame, NameFrame DEF NameInv, NTypeOK
<1>7. CASE UNCHANGED nvars
  <2>1. UNCHANGED <<DATA_IN, DATA_IN_POS, pc, at, slot, src, eeName>>
    BY <1>7 DEF nvars, vars
  <2> QED BY <1>type, <2>1, LineFrame, NameFrame DEF NameInv, NTypeOK
<1> QED BY <1>1, <1>2, <1>3, <1>4, <1>5, <1>6, <1>7 DEF NNext

(* The types, the clean tail and the last bytes of the names together.      *)
LEMMA NameInvariant == NSpec => []NameInv
BY NameInit, NameNext, PTL DEF NSpec

(* The types, the one of the command line included: NTypeOK.                *)
THEOREM NamesTypeCorrect == NSpec => []NTypeOK
<1>1. NameInv => NTypeOK
  BY DEF NameInv
<1> QED BY <1>1, NameInvariant, PTL

(* Behind the position the buffer is zero, while SETNAME reads it, resets   *)
(* and losses of power come as they may: CleanTail.                         *)
THEOREM TailCleanForNames == NSpec => []CleanTail
<1>1. NameInv => CleanTail
  BY DEF NameInv
<1> QED BY <1>1, NameInvariant, PTL

(* Every name ends inside its own bytes, in the middle of a write, after a  *)
(* loss of power and during a reset too: NamesEnd.                          *)
THEOREM NamesAlwaysEnd == NSpec => []NamesEnd
<1>1. NSpec => []NameInv
  BY NameInvariant
<1>2. NameInv => NamesEnd
  <2> SUFFICES ASSUME NameInv, NEW s \in Slot
               PROVE  \E k \in 0 .. NAME_LEN - 1 : eeName[CellOf(s, k)] \in {NUL, ERASED}
    BY DEF NamesEnd
  <2>1. NAME_LEN - 1 \in 0 .. NAME_LEN - 1
    BY NameAssumption DEF NameAssumption
  <2> QED BY <2>1 DEF NameInv, LastEnds
<1> QED BY <1>1, <1>2, PTL

-----------------------------------------------------------------------------
(* The command line under SETNAME *)

(* A command that was just executed left no line behind it.                *)
ExecutedClears == executed # <<>> => DATA_IN_POS = 0 \/ pc \in {"name", "clear"}

LEMMA ExecutedNext == NameInv /\ ExecutedClears /\ [NNext]_nvars => ExecutedClears'
<1> SUFFICES ASSUME NameInv, ExecutedClears, [NNext]_nvars PROVE ExecutedClears'
  OBVIOUS
<1>1. CASE EditName
  BY <1>1 DEF EditName, Buffer, TooLong, Backspace, Wipe, ExecutedClears
<1>2. CASE OtherCommand
  BY <1>2 DEF OtherCommand, Newline, INPUT_Clear, ExecutedClears
<1>3. ASSUME NEW s \in Slot, StartName(s) PROVE ExecutedClears'
  BY <1>3 DEF StartName, ExecutedClears
<1>4. CASE WriteName
  BY <1>4 DEF WriteName, vars, ExecutedClears
<1>5. CASE StartErase \/ EraseName
  BY <1>5 DEF StartErase, EraseName, vars, ExecutedClears
<1>6. CASE EndName \/ PowerLoss
  BY <1>6 DEF EndName, PowerLoss, ExecutedClears
<1>7. CASE UNCHANGED nvars
  BY <1>7 DEF nvars, vars, ExecutedClears
<1> QED BY <1>1, <1>2, <1>3, <1>4, <1>5, <1>6, <1>7 DEF NNext

(* While SETNAME takes its argument out of the buffer, while the EEPROM is  *)
(* reset and when power fails, what is executed is what was typed and not   *)
(* rubbed out since the line was last empty: CommandLine.                   *)
THEOREM NamesRefineLine == NSpec => CommandLine
<1>1. NInit => Typed!Init /\ ExecutedClears
  BY DEF NInit, Init, Typed!Init, Line, ExecutedClears
<1>2. NameInv /\ ExecutedClears /\ [NNext]_nvars => [Typed!Next]_Typed!bvars
  <2> SUFFICES ASSUME NameInv, ExecutedClears, [NNext]_nvars
               PROVE  [Typed!Next]_Typed!bvars
    OBVIOUS
  <2>inv. LineInv
    BY DEF NameInv, NTypeOK, LineInv
  <2>1. CASE EditName
    <3>0. pc = "idle" /\ pc' = "idle"
      BY <2>1 DEF EditName
    <3>1. ASSUME NEW c \in Byte, Buffer(c) PROVE Typed!Next
      <4>1. Abstract!Type(c)
        BY <2>inv, <3>1, BufferIsType
      <4> QED BY <3>0, <4>1 DEF Abstract!Type, Typed!Type, Typed!Next
    <3>2. CASE Backspace
      <4>1. Abstract!Rubout
        BY <2>inv, <3>2, BackspaceIsRubout
      <4> QED BY <3>0, <4>1 DEF Abstract!Rubout, Typed!Rubout, Typed!Next
    <3>3. CASE TooLong \/ Wipe
      BY <3>0, <3>3, ClearLine DEF TooLong, Wipe, Typed!Next, Typed!Drop
    <3> QED BY <2>1, <3>1, <3>2, <3>3 DEF EditName
  <2>2. CASE OtherCommand
    <3>1. pc = "idle" /\ pc' = "idle" /\ executed' = Abstract!Text(Line) /\ Line' = <<>>
      BY <2>inv, <2>2, StringIsText, ClearLine DEF OtherCommand, Newline
    <3> QED BY <3>1 DEF Typed!Next, Typed!Execute, Typed!Text, Abstract!Text
  <2>3. ASSUME NEW s \in Slot, StartName(s) PROVE Typed!Next
    <3>1. pc = "idle" /\ pc' = "name" /\ executed' = Abstract!Text(Line)
      BY <2>inv, <2>3, StringIsText DEF StartName
    <3> QED BY <3>1 DEF Typed!Next, Typed!Execute, Typed!Text, Abstract!Text
  <2>4. CASE WriteName
    BY <2>4 DEF WriteName, vars, Typed!bvars
  <2>5. CASE StartErase
    BY <2>5 DEF StartErase, vars, Line, Typed!bvars
  <2>6. CASE EraseName
    <3>1. pc = "erase" /\ pc' \in {"erase", "clear"} /\ Line' = Line /\ executed' = executed
      BY <2>6 DEF EraseName, vars, Line
    <3>2. CASE pc' = "erase"
      BY <3>1, <3>2 DEF Typed!bvars
    <3>3. CASE pc' = "clear" /\ executed = <<>>
      BY <3>1, <3>3 DEF Typed!Next, Typed!Drop
    <3>4. CASE pc' = "clear" /\ executed # <<>>
      <4>1. Line = <<>>
        BY <3>1, <3>4 DEF ExecutedClears, Line
      <4> QED BY <3>1, <3>4, <4>1 DEF Typed!bvars
    <3> QED BY <3>1, <3>2, <3>3, <3>4
  <2>7. CASE EndName \/ PowerLoss
    <3>1. pc' = "idle" /\ Line' = <<>> /\ executed' = <<>>
      BY <2>7, ClearLine DEF EndName, PowerLoss, INPUT_Clear
    <3> QED BY <3>1 DEF Typed!Next, Typed!Drop
  <2>8. CASE UNCHANGED nvars
    BY <2>8 DEF nvars, vars, Line, Typed!bvars
  <2> QED BY <2>1, <2>2, <2>3, <2>4, <2>5, <2>6, <2>7, <2>8 DEF NNext
<1> QED
  BY <1>1, <1>2, ExecutedNext, NameInit, NameNext, PTL DEF NSpec, CommandLine, Typed!Spec

-----------------------------------------------------------------------------
(* What a name reads back as *)

(* A set of numbers has a least one.                                       *)
LEMMA Least ==
    ASSUME NEW T \in SUBSET Nat, T # {}
    PROVE  \E m \in T : \A k \in T : m <= k
<1>1. PICK R : IsWellFoundedOn(R, Nat) /\ \A a, b \in Nat : a < b => <<a, b>> \in R
  <2>1. \A a, b \in Nat : a < b => <<a, b>> \in OpToRel(<, Nat)
    BY DEF OpToRel
  <2> QED BY <2>1, NatLessThanWellFounded
<1>2. IsWellFoundedOn(R, Nat) /\ T \subseteq Nat /\ T # {}
  BY <1>1
<1>3. \E m \in T : \A k \in T : ~(<<k, m>> \in R)
  BY <1>2, WFMin, Zenon
<1>4. PICK m \in T : \A k \in T : ~(<<k, m>> \in R)
  BY <1>3
<1>5. \A k \in T : ~(k < m)
  BY <1>1, <1>2, <1>4, Zenon
<1>6. \A k \in T : m <= k
  BY <1>2, <1>5
<1> QED BY <1>6

(* The last cell of the buffer is always zero.                             *)
LEMMA LastCellZero ==
    ASSUME LineInv
    PROVE  /\ DATA_BUFF_LEN - 1 \in Cell /\ DATA_BUFF_LEN - 1 > 0
           /\ DATA_IN[DATA_BUFF_LEN - 1] = NUL
<1>1. /\ DATA_BUFF_LEN - 1 \in Cell /\ DATA_BUFF_LEN - 1 > 0
      /\ DATA_BUFF_LEN - 1 >= DATA_IN_POS
  BY BufferAssumption DEF LineInv, TypeOK, Cell, BufferAssumption
<1> QED BY <1>1 DEF LineInv, CleanTail

(* The executed string has an end in the buffer.                           *)
TextEndsAt(e) ==
    /\ e \in Cell
    /\ DATA_IN[e] = NUL
    /\ \A k \in 0 .. e - 1 : DATA_IN[k] # NUL

LEMMA TextEnds ==
    ASSUME LineInv
    PROVE  \E e \in Cell : TextEndsAt(e)
<1> DEFINE T == {k \in Cell : DATA_IN[k] = NUL}
<1>1. T \in SUBSET Nat /\ T # {}
  BY LastCellZero DEF Cell
<1>2. PICK e \in T : \A k \in T : e <= k
  <2> HIDE DEF T
  <2> QED BY <1>1, Least
<1>3. ASSUME NEW k \in 0 .. e - 1 PROVE DATA_IN[k] # NUL
  <2>1. k \in Cell /\ k < e
    BY BufferAssumption DEF Cell, BufferAssumption
  <2>2. k \notin T
    BY <1>2, <2>1 DEF Cell
  <2> QED BY <2>1, <2>2
<1> QED BY <1>2, <1>3 DEF TextEndsAt

LEMMA StringOf ==
    ASSUME LineInv, NEW e, TextEndsAt(e)
    PROVE  /\ CString \in Seq(Byte) /\ Len(CString) = e
           /\ \A k \in 1 .. e : CString[k] = DATA_IN[k - 1]
<1> DEFINE S == {k \in 1 .. DATA_BUFF_LEN : \A j \in 1 .. k : DATA_IN[j - 1] # NUL}
<1>1. e \in Nat /\ e < DATA_BUFF_LEN /\ DATA_BUFF_LEN \in Nat
  BY BufferAssumption DEF TextEndsAt, Cell, BufferAssumption
<1>2. ASSUME NEW k \in S PROVE k \in 1 .. e
  <2> SUFFICES ASSUME k > e PROVE FALSE
    BY <1>1
  <2>1. e + 1 \in 1 .. k /\ (e + 1) - 1 = e
    BY <1>1
  <2> QED BY <2>1 DEF TextEndsAt
<1>3. ASSUME NEW k \in 1 .. e PROVE k \in S
  <2>1. k \in 1 .. DATA_BUFF_LEN /\ \A j \in 1 .. k : j - 1 \in 0 .. e - 1
    BY <1>1
  <2> QED BY <2>1 DEF TextEndsAt
<1>4. S = 1 .. e
  BY <1>2, <1>3
<1>5. CString = [k \in 1 .. e |-> DATA_IN[k - 1]]
  BY <1>4 DEF CString
<1>6. \A k \in 1 .. e : DATA_IN[k - 1] \in Byte
  BY <1>1 DEF LineInv, TypeOK, Cell
<1> HIDE DEF S
<1> QED BY <1>1, <1>5, <1>6, PrefixIsSeq

(* The argument begins at the first byte after the command that is not blank. *)
LEMMA ArgumentBegins ==
    ASSUME LineInv
    PROVE  /\ Argument \in Cell /\ Argument > 0 /\ DATA_IN[Argument] # Blank
           /\ \A j \in 1 .. Argument - 1 : DATA_IN[j] = Blank
<1> DEFINE T == {k \in Cell : k > 0 /\ DATA_IN[k] # Blank}
<1>1. T \in SUBSET Nat /\ T # {}
  BY LastCellZero, NameAssumption DEF Cell, NameAssumption
<1>2. PICK m \in T : \A k \in T : m <= k
  <2> HIDE DEF T
  <2> QED BY <1>1, Least
<1>3. ASSUME NEW j \in 1 .. m - 1 PROVE DATA_IN[j] = Blank
  <2>1. j \in Cell /\ j < m /\ j > 0
    BY BufferAssumption DEF Cell, BufferAssumption
  <2>2. j \notin T
    BY <1>2, <2>1 DEF Cell
  <2> QED BY <2>1, <2>2
<1>4. \E k \in Cell : /\ k > 0 /\ DATA_IN[k] # Blank
                      /\ \A j \in 1 .. k - 1 : DATA_IN[j] = Blank
  BY <1>2, <1>3
<1> QED BY <1>4 DEF Argument

LEMMA TruncatedFrom ==
    ASSUME NEW text, NEW first,
           first = CHOOSE k \in 2 .. Len(text) + 1 :
                       /\ k <= Len(text) => text[k] # Blank
                       /\ \A j \in 2 .. k - 1 : text[j] = Blank
    PROVE  Truncated(text) =
               SubSeq(text, first, IF Len(text) < first + NAME_LEN - 2
                                   THEN Len(text) ELSE first + NAME_LEN - 2)
BY DEF Truncated

(* Length of the name that a line whose string ends at e gives.            *)
NameLength(e) == IF e < Argument + NAME_LEN - 1 THEN e - Argument ELSE NAME_LEN - 1

LEMMA TruncatedName ==
    ASSUME LineInv, DATA_IN[0] = SetName, NEW e, TextEndsAt(e)
    PROVE  /\ Argument <= e
           /\ NameLength(e) \in 0 .. NAME_LEN - 1 /\ Argument + NameLength(e) <= e
           /\ Truncated(CString) = [k \in 1 .. NameLength(e) |-> DATA_IN[Argument + k - 1]]
<1> DEFINE a == Argument
<1> DEFINE text == CString
<1> DEFINE n == NameLength(e)
<1>0. /\ a \in Nat /\ e \in Nat /\ NAME_LEN \in Nat \ {0, 1} /\ a > 0 /\ e < DATA_BUFF_LEN
      /\ DATA_IN[a] # Blank /\ (\A j \in 1 .. a - 1 : DATA_IN[j] = Blank)
      /\ NUL # Blank /\ SetName # NUL
  BY ArgumentBegins, NameAssumption, BufferAssumption
     DEF TextEndsAt, Cell, NameAssumption, BufferAssumption
<1>1. a <= e
  <2> SUFFICES ASSUME a > e PROVE FALSE
    BY <1>0
  <2>1. e # 0
    BY <1>0 DEF TextEndsAt
  <2>2. e \in 1 .. a - 1
    BY <1>0, <2>1
  <2> QED BY <1>0, <2>2 DEF TextEndsAt
<1>2. n \in 0 .. NAME_LEN - 1 /\ a + n <= e
  BY <1>0, <1>1 DEF NameLength
<1>3. /\ text \in Seq(Byte) /\ Len(text) = e
      /\ \A k \in 1 .. e : text[k] = DATA_IN[k - 1]
  BY StringOf
<1> DEFINE First(k) == /\ k <= Len(text) => text[k] # Blank
                       /\ \A j \in 2 .. k - 1 : text[j] = Blank
<1> HIDE DEF a, text, n
<1>4. a + 1 \in 2 .. Len(text) + 1 /\ First(a + 1)
  <2>1. a + 1 <= e => text[a + 1] # Blank
    <3>1. a + 1 <= e => text[a + 1] = DATA_IN[(a + 1) - 1]
      BY <1>0, <1>3
    <3> QED BY <1>0, <3>1
  <2>2. ASSUME NEW j \in 2 .. a PROVE text[j] = Blank
    <3>1. j \in 1 .. e /\ j - 1 \in 1 .. a - 1
      BY <1>0, <1>1
    <3> QED BY <1>0, <1>3, <3>1
  <2> QED BY <1>0, <1>1, <1>3, <2>1, <2>2
<1>5. ASSUME NEW k \in 2 .. Len(text) + 1, First(k) PROVE k = a + 1
  <2>1. ~(k < a + 1)
    <3> SUFFICES ASSUME k < a + 1 PROVE FALSE
      OBVIOUS
    <3>1. k \in 1 .. e /\ k - 1 \in 1 .. a - 1
      BY <1>0, <1>1, <1>3
    <3> QED BY <1>0, <1>3, <1>5, <3>1
  <2>2. ~(k > a + 1)
    <3> SUFFICES ASSUME k > a + 1 PROVE FALSE
      OBVIOUS
    <3>1. a + 1 \in 2 .. k - 1 /\ a + 1 <= Len(text)
      BY <1>0, <1>3
    <3> QED BY <1>4, <1>5, <3>1
  <2> QED BY <1>0, <1>3, <2>1, <2>2
<1>6. (CHOOSE k \in 2 .. Len(text) + 1 : First(k)) = a + 1
  <2> HIDE DEF First
  <2> QED BY <1>4, <1>5
<1>7. Truncated(text) = SubSeq(text, a + 1, a + n)
  <2>1. Truncated(text) = SubSeq(text, a + 1, IF Len(text) < a + 1 + NAME_LEN - 2
                                              THEN Len(text) ELSE a + 1 + NAME_LEN - 2)
    BY <1>6, TruncatedFrom
  <2>2. (IF Len(text) < a + 1 + NAME_LEN - 2 THEN Len(text) ELSE a + 1 + NAME_LEN - 2) = a + n
    BY <1>0, <1>3 DEF n, a, NameLength
  <2> QED BY <2>1, <2>2
<1>8. SubSeq(text, a + 1, a + n) = [k \in 1 .. n |-> DATA_IN[a + k - 1]]
  <2>1. SubSeq(text, a + 1, a + n) = [k \in 1 .. n |-> text[a + k]]
    BY <1>0, <1>2, <1>3
  <2>2. ASSUME NEW k \in 1 .. n PROVE text[a + k] = DATA_IN[a + k - 1]
    <3>1. a + k \in 1 .. e
      BY <1>0, <1>2
    <3>2. text[a + k] = DATA_IN[(a + k) - 1]
      BY <1>3, <3>1
    <3>3. (a + k) - 1 = a + k - 1
      BY <1>0
    <3> QED BY <3>2, <3>3
  <2> QED BY <2>1, <2>2
<1> QED BY <1>1, <1>2, <1>7, <1>8 DEF a, n, text

-----------------------------------------------------------------------------
(* Names read back as given *)

(* NameOf, of any contents f of the EEPROM.                                *)
NameIn(f, s) ==
    [k \in {k \in 1 .. NAME_LEN : \A j \in 1 .. k : f[CellOf(s, j - 1)] \notin {NUL, ERASED}}
        |-> f[CellOf(s, k - 1)]]

LEMMA NameInIsNameOf == \A s \in Slot : NameOf(s) = NameIn(eeName, s)
BY DEF NameOf, NameIn

(* A name depends on its own cells.                                        *)
LEMMA NameInSame ==
    ASSUME NEW s \in Slot, NEW f, NEW g,
           \A k \in 0 .. NAME_LEN - 1 : f[CellOf(s, k)] = g[CellOf(s, k)]
    PROVE  NameIn(f, s) = NameIn(g, s)
<1> DEFINE S(h) == {k \in 1 .. NAME_LEN : \A j \in 1 .. k : h[CellOf(s, j - 1)] \notin {NUL, ERASED}}
<1>1. \A k \in 1 .. NAME_LEN : f[CellOf(s, k - 1)] = g[CellOf(s, k - 1)]
  <2> TAKE k \in 1 .. NAME_LEN
  <2>1. k - 1 \in 0 .. NAME_LEN - 1
    BY NameAssumption DEF NameAssumption
  <2> QED BY <2>1
<1>2. \A k \in 1 .. NAME_LEN : \A j \in 1 .. k : j \in 1 .. NAME_LEN
  BY NameAssumption DEF NameAssumption
<1>3. S(f) = S(g)
  BY <1>1, <1>2
<1>4. \A k \in S(f) : f[CellOf(s, k - 1)] = g[CellOf(s, k - 1)]
  BY <1>1
<1> HIDE DEF S
<1>5. [k \in S(f) |-> f[CellOf(s, k - 1)]] = [k \in S(g) |-> g[CellOf(s, k - 1)]]
  BY <1>3, <1>4
<1> QED BY <1>5 DEF NameIn, S

(* A name with its first end byte at n has the n bytes before it.          *)
LEMMA NameInEnds ==
    ASSUME NEW s \in Slot, NEW f, NEW n \in 0 .. NAME_LEN - 1,
           f[CellOf(s, n)] \in {NUL, ERASED},
           \A k \in 0 .. n - 1 : f[CellOf(s, k)] \notin {NUL, ERASED}
    PROVE  NameIn(f, s) = [k \in 1 .. n |-> f[CellOf(s, k - 1)]]
<1> DEFINE S == {k \in 1 .. NAME_LEN : \A j \in 1 .. k : f[CellOf(s, j - 1)] \notin {NUL, ERASED}}
<1>0. n \in Nat /\ n < NAME_LEN /\ NAME_LEN \in Nat
  BY NameAssumption DEF NameAssumption
<1>1. ASSUME NEW k \in S PROVE k \in 1 .. n
  <2> SUFFICES ASSUME k > n PROVE FALSE
    BY <1>0
  <2>1. n + 1 \in 1 .. k /\ (n + 1) - 1 = n
    BY <1>0
  <2> QED BY <2>1
<1>2. ASSUME NEW k \in 1 .. n PROVE k \in S
  <2>1. k \in 1 .. NAME_LEN /\ \A j \in 1 .. k : j - 1 \in 0 .. n - 1
    BY <1>0
  <2> QED BY <2>1
<1>3. S = 1 .. n
  BY <1>1, <1>2
<1> QED BY <1>3 DEF NameIn

(* A name with its first NUL at n reads back as what can be read of the n   *)
(* bytes before it.                                                         *)
LEMMA NameInReadable ==
    ASSUME NEW s \in Slot, NEW f, NEW n \in 0 .. NAME_LEN - 1,
           f[CellOf(s, n)] = NUL,
           \A k \in 0 .. n - 1 : f[CellOf(s, k)] # NUL
    PROVE  NameIn(f, s) = Readable([k \in 1 .. n |-> f[CellOf(s, k - 1)]])
<1> DEFINE g == [k \in 1 .. n |-> f[CellOf(s, k - 1)]]
<1> DEFINE S == {k \in 1 .. NAME_LEN : \A j \in 1 .. k : f[CellOf(s, j - 1)] \notin {NUL, ERASED}}
<1> DEFINE R == {k \in DOMAIN g : \A j \in 1 .. k : g[j] # ERASED}
<1>0. n \in Nat /\ n < NAME_LEN /\ NAME_LEN \in Nat
  BY NameAssumption DEF NameAssumption
<1>1. DOMAIN g = 1 .. n /\ \A k \in 1 .. n : g[k] = f[CellOf(s, k - 1)]
  OBVIOUS
<1>2. ASSUME NEW k \in S PROVE k \in R
  <2>1. k \in 1 .. n
    <3> SUFFICES ASSUME k > n PROVE FALSE
      BY <1>0
    <3>1. n + 1 \in 1 .. k /\ (n + 1) - 1 = n
      BY <1>0
    <3> QED BY <3>1
  <2>2. \A j \in 1 .. k : j \in 1 .. n
    BY <1>0, <2>1
  <2> HIDE DEF g
  <2> QED BY <1>1, <2>1, <2>2
<1>3. ASSUME NEW k \in R PROVE k \in S
  <2>0. k \in 1 .. n
    BY <1>1
  <2>1. k \in 1 .. NAME_LEN /\ \A j \in 1 .. k : j \in 1 .. n /\ j - 1 \in 0 .. n - 1
    BY <1>0, <2>0
  <2>2. \A j \in 1 .. k : g[j] # ERASED
    BY <1>3
  <2> HIDE DEF g
  <2> QED BY <1>1, <2>1, <2>2
<1>4. S = R
  BY <1>2, <1>3
<1>5. \A k \in R : g[k] = f[CellOf(s, k - 1)]
  BY <1>1
<1>6. NameIn(f, s) = [k \in S |-> f[CellOf(s, k - 1)]] /\ Readable(g) = [k \in R |-> g[k]]
  BY DEF NameIn, Readable
<1> HIDE DEF S, R, g
<1>7. [k \in S |-> f[CellOf(s, k - 1)]] = [k \in R |-> g[k]]
  BY <1>4, <1>5
<1> QED BY <1>6, <1>7 DEF g

(* While a name is written: where it comes from and what is written so far. *)
CopyInv ==
    pc = "name" =>
        /\ DATA_IN[0] = SetName /\ src = Argument
        /\ asked[slot] = Readable(Truncated(CString))
        /\ \A k \in 0 .. at - 1 : src + k \in Cell => eeName[CellOf(slot, k)] = DATA_IN[src + k]

(* While the EEPROM is erased: names whose first byte is gone are forgotten. *)
EraseInv ==
    pc = "erase" => \A s \in Slot : CellOf(s, 0) < at =>
        asked[s] = <<>> /\ s \notin torn /\ eeName[CellOf(s, 0)] = ERASED

AskedIsFunction == asked = [s \in Slot |-> asked[s]]

KeptInv == CopyInv /\ EraseInv /\ AskedIsFunction /\ NamesKept

(* Steps that leave the names and what was asked alone.                    *)
LEMMA KeptFrame ==
    ASSUME KeptInv, UNCHANGED eeName, torn \subseteq torn', AskedIsFunction',
           \A s \in Slot \ torn' : asked'[s] = asked[s],
           pc' \in {"idle", "clear"},
           pc = "name" => slot \in torn'
    PROVE  KeptInv'
<1>1. NamesKept'
  <2> SUFFICES ASSUME NEW s \in Slot, s \notin torn' PROVE NameOf(s)' = asked'[s]
    BY DEF NamesKept
  <2>1. NameOf(s) = asked[s]
    BY DEF KeptInv, NamesKept
  <2>2. NameOf(s)' = NameOf(s)
    BY DEF NameOf, CellOf
  <2> QED BY <2>1, <2>2
<1>2. CopyInv' /\ EraseInv'
  BY DEF CopyInv, EraseInv
<1> QED BY <1>1, <1>2 DEF KeptInv

(* A byte of one name leaves the others alone.                             *)
LEMMA OtherNames ==
    ASSUME NameInv, NEW t \in Slot, NEW b, NEW s \in Slot, s # t,
           NEW k \in 0 .. NAME_LEN - 1, eeName' = [eeName EXCEPT ![CellOf(t, k)] = b]
    PROVE  NameIn(eeName', s) = NameIn(eeName, s)
<1>1. ASSUME NEW j \in 0 .. NAME_LEN - 1 PROVE eeName'[CellOf(s, j)] = eeName[CellOf(s, j)]
  <2>1. CellOf(s, j) # CellOf(t, k)
    BY CellInjective
  <2>2. CellOf(s, j) \in EECell
    BY CellInside
  <2> QED BY <2>1, <2>2 DEF NameInv, NTypeOK
<1> QED BY <1>1, NameInSame

LEMMA KeptByWrite == ASSUME NameInv, KeptInv, WriteName PROVE KeptInv'
<1>0. /\ NTypeOK /\ LineInv /\ NAME_LEN \in Nat \ {0, 1} /\ pc = "name"
      /\ slot \in Slot /\ at \in 0 .. NAME_LEN - 1
      /\ UNCHANGED <<DATA_IN, DATA_IN_POS, slot, src, asked>>
  BY NameAssumption DEF NameInv, NTypeOK, LineInv, WriteName, vars, NameAssumption
<1>1. PICK b \in IF at < NAME_LEN - 1 THEN Source(src + at) ELSE EndByte :
            eeName' = [eeName EXCEPT ![CellOf(slot, at)] = b]
  BY DEF WriteName
<1>copy. /\ DATA_IN[0] = SetName /\ src = Argument
         /\ asked[slot] = Readable(Truncated(CString))
         /\ \A k \in 0 .. at - 1 : src + k \in Cell => eeName[CellOf(slot, k)] = DATA_IN[src + k]
  BY <1>0 DEF KeptInv, CopyInv
<1>cells. /\ \A k \in 0 .. NAME_LEN - 1 : CellOf(slot, k) \in EECell
          /\ \A k \in 0 .. at - 1 : CellOf(slot, k) # CellOf(slot, at)
  <2>1. \A k \in 0 .. at - 1 : k \in 0 .. NAME_LEN - 1 /\ k # at
    BY <1>0
  <2> QED BY <1>0, <2>1, CellInside, CellInjective
<1>2. /\ eeName'[CellOf(slot, at)] = b
      /\ \A k \in 0 .. at - 1 : eeName'[CellOf(slot, k)] = eeName[CellOf(slot, k)]
  <2>1. \A k \in 0 .. at - 1 : k \in 0 .. NAME_LEN - 1
    BY <1>0
  <2>2. eeName \in [EECell -> Byte]
    BY <1>0 DEF NTypeOK
  <2> QED BY <1>0, <1>1, <1>cells, <2>1, <2>2
<1>3. \A s \in Slot : s # slot => NameOf(s)' = NameOf(s)
  <2> SUFFICES ASSUME NEW s \in Slot, s # slot PROVE NameOf(s)' = NameOf(s)
    OBVIOUS
  <2>1. NameIn(eeName', s) = NameIn(eeName, s)
    BY <1>0, <1>1, OtherNames
  <2> QED BY <2>1, NameInIsNameOf DEF NameOf, NameIn, CellOf
<1>4. AskedIsFunction'
  BY <1>0 DEF KeptInv, AskedIsFunction
<1>5. CASE at < NAME_LEN - 1
  <2>1. pc' = "name" /\ at' = at + 1 /\ torn' = torn /\ b \in Source(src + at)
    BY <1>0, <1>1, <1>5 DEF WriteName
  <2>2. CopyInv'
    <3>1. ASSUME NEW k \in 0 .. at' - 1, src + k \in Cell
          PROVE  eeName'[CellOf(slot, k)] = DATA_IN[src + k]
      <4>1. k \in 0 .. at - 1 \/ k = at
        BY <1>0, <2>1
      <4>2. src + k \in Cell => Source(src + k) = {DATA_IN[src + k]}
        BY DEF Source
      <4> QED BY <1>2, <1>copy, <2>1, <3>1, <4>1, <4>2
    <3>2. Argument' = Argument /\ CString' = CString
      BY <1>0 DEF Argument, CString
    <3>3. Readable(Truncated(CString))' = Readable(Truncated(CString))
      BY <3>2 DEF Readable, Truncated
    <3> QED BY <1>0, <1>copy, <3>1, <3>2, <3>3 DEF CopyInv, CellOf, Cell
  <2>3. NamesKept'
    BY <1>0, <1>3, <2>1 DEF KeptInv, NamesKept
  <2> QED BY <1>4, <2>1, <2>2, <2>3 DEF KeptInv, EraseInv
<1>6. CASE at = NAME_LEN - 1
  <2>1. pc' = "clear" /\ torn' = torn \ {slot} /\ b = NUL
    BY <1>0, <1>1, <1>6 DEF WriteName, EndByte
  <2>2. PICK e \in Cell : TextEndsAt(e)
    BY <1>0, TextEnds
  <2> DEFINE n == NameLength(e)
  <2>3. /\ Argument <= e /\ n \in 0 .. NAME_LEN - 1 /\ Argument + n <= e
        /\ Truncated(CString) = [k \in 1 .. n |-> DATA_IN[Argument + k - 1]]
    BY <1>0, <1>copy, <2>2, TruncatedName
  <2>4. Argument \in Nat /\ e \in Nat /\ n \in Nat /\ e \in Cell
    BY <2>3, ArgumentBegins, <1>0 DEF Cell
  <2>5. ASSUME NEW k \in 0 .. n - 1
        PROVE  /\ eeName'[CellOf(slot, k)] = DATA_IN[Argument + k]
               /\ DATA_IN[Argument + k] # NUL
    <3>1. k \in 0 .. at - 1 /\ Argument + k \in 0 .. e - 1 /\ Argument + k \in Cell
      BY <1>0, <1>6, <2>3, <2>4, BufferAssumption DEF Cell, BufferAssumption
    <3>2. DATA_IN[Argument + k] # NUL
      BY <2>2, <3>1 DEF TextEndsAt
    <3> QED BY <1>2, <1>copy, <3>1, <3>2
  <2>6. eeName'[CellOf(slot, n)] = NUL
    <3>1. CASE e < Argument + NAME_LEN - 1
      <4>1. n = e - Argument /\ n \in 0 .. at - 1 /\ Argument + n = e
        BY <1>0, <1>6, <2>3, <2>4, <3>1 DEF NameLength
      <4> QED BY <1>2, <1>copy, <2>2, <2>4, <4>1 DEF TextEndsAt
    <3>2. CASE ~(e < Argument + NAME_LEN - 1)
      <4>1. n = at
        BY <1>6, <3>2 DEF NameLength
      <4> QED BY <1>2, <2>1, <4>1
    <3> QED BY <3>1, <3>2
  <2> HIDE DEF n
  <2>7. \A k \in 0 .. n - 1 : eeName'[CellOf(slot, k)] # NUL
    BY <2>5
  <2>8. NameIn(eeName', slot) = Readable([k \in 1 .. n |-> eeName'[CellOf(slot, k - 1)]])
    BY <1>0, <2>3, <2>6, <2>7, NameInReadable
  <2>9. NameIn(eeName', slot) = asked'[slot]
    <3>1. \A k \in 1 .. n : eeName'[CellOf(slot, k - 1)] = DATA_IN[Argument + k - 1]
      <4> TAKE k \in 1 .. n
      <4>1. k - 1 \in 0 .. n - 1 /\ Argument + (k - 1) = Argument + k - 1
        BY <2>4
      <4> QED BY <2>5, <4>1
    <3>2. [k \in 1 .. n |-> eeName'[CellOf(slot, k - 1)]] = Truncated(CString)
      BY <2>3, <3>1
    <3> QED BY <1>0, <1>copy, <2>8, <3>2
  <2>10. NamesKept'
    <3> SUFFICES ASSUME NEW s \in Slot, s \notin torn' PROVE NameOf(s)' = asked'[s]
      BY DEF NamesKept
    <3>1. CASE s = slot
      BY <2>9, <3>1 DEF NameOf, NameIn, CellOf
    <3>2. CASE s # slot
      <4>1. s \notin torn
        BY <2>1, <3>2
      <4> QED BY <1>0, <1>3, <3>2, <4>1 DEF KeptInv, NamesKept
    <3> QED BY <3>1, <3>2
  <2> QED BY <1>4, <2>1, <2>10 DEF KeptInv, CopyInv, EraseInv
<1> QED BY <1>0, <1>5, <1>6

LEMMA KeptByErase == ASSUME NameInv, KeptInv, EraseName PROVE KeptInv'
<1>0. /\ NTypeOK /\ NAME_LEN \in Nat \ {0, 1} /\ pc = "erase" /\ at \in EECell /\ at \in Int
      /\ eeName' = [eeName EXCEPT ![at] = ERASED]
      /\ asked' = [s \in Slot |-> IF at = CellOf(s, 0) THEN <<>> ELSE asked[s]]
      /\ torn' = torn \ {s \in Slot : at = CellOf(s, 0)}
      /\ pc' = "clear" \/ (pc' = "erase" /\ at' = at + 1)
      /\ eeName \in [EECell -> Byte]
  BY NameAssumption DEF NameInv, NTypeOK, EraseName, EECell, NameAssumption
<1>zero. 0 \in 0 .. NAME_LEN - 1
  BY <1>0
<1>erased. \A s \in Slot : CellOf(s, 0) < at =>
               asked[s] = <<>> /\ s \notin torn /\ eeName[CellOf(s, 0)] = ERASED
  BY <1>0 DEF KeptInv, EraseInv
<1>1. ASSUME NEW s \in Slot, at = CellOf(s, 0) \/ CellOf(s, 0) < at
      PROVE  asked'[s] = <<>> /\ s \notin torn' /\ eeName'[CellOf(s, 0)] = ERASED
  <2>1. CellOf(s, 0) \in EECell
    BY <1>zero, CellInside
  <2> QED BY <1>0, <1>1, <1>erased, <2>1
<1>2. EraseInv'
  <2> SUFFICES ASSUME pc' = "erase", NEW s \in Slot, CellOf(s, 0) < at'
               PROVE  asked'[s] = <<>> /\ s \notin torn' /\ eeName'[CellOf(s, 0)] = ERASED
    BY DEF EraseInv, CellOf
  <2>1. CellOf(s, 0) \in Int
    <3>1. CellOf(s, 0) \in EECell
      BY <1>zero, CellInside
    <3> QED BY <3>1 DEF EECell
  <2>2. at = CellOf(s, 0) \/ CellOf(s, 0) < at
    BY <1>0, <2>1
  <2> QED BY <1>1, <2>2
<1>3. NamesKept'
  <2> SUFFICES ASSUME NEW s \in Slot, s \notin torn' PROVE NameOf(s)' = asked'[s]
    BY DEF NamesKept
  <2>same. NameOf(s)' = NameIn(eeName', s)
    BY DEF NameOf, NameIn, CellOf
  <2>1. CASE \A k \in 0 .. NAME_LEN - 1 : at # CellOf(s, k)
    <3>1. \A k \in 0 .. NAME_LEN - 1 : eeName'[CellOf(s, k)] = eeName[CellOf(s, k)]
      BY <1>0, <2>1, CellInside
    <3>2. NameIn(eeName', s) = NameIn(eeName, s)
      BY <3>1, NameInSame
    <3>3. asked'[s] = asked[s] /\ s \notin torn
      BY <1>0, <1>zero, <2>1
    <3>4. NameOf(s) = asked[s]
      BY <1>0, <3>3 DEF KeptInv, NamesKept
    <3> QED BY <2>same, <3>2, <3>3, <3>4, NameInIsNameOf
  <2>2. CASE \E k \in 0 .. NAME_LEN - 1 : at = CellOf(s, k)
    <3>1. PICK k \in 0 .. NAME_LEN - 1 : at = CellOf(s, k)
      BY <2>2
    <3>2. at = CellOf(s, 0) \/ CellOf(s, 0) < at
      <4>1. s * NAME_LEN \in Int /\ k \in Int /\ 0 <= k
        BY <1>0 DEF Slot
      <4> QED BY <3>1, <4>1 DEF CellOf
    <3>3. asked'[s] = <<>> /\ eeName'[CellOf(s, 0)] = ERASED
      BY <1>1, <3>2
    <3>4. \A j \in 0 .. 0 - 1 : FALSE
      OBVIOUS
    <3>5. NameIn(eeName', s) = [j \in 1 .. 0 |-> eeName'[CellOf(s, j - 1)]]
      BY <1>zero, <3>3, <3>4, NameInEnds
    <3>6. [j \in 1 .. 0 |-> eeName'[CellOf(s, j - 1)]] = <<>>
      OBVIOUS
    <3> QED BY <2>same, <3>3, <3>5, <3>6
  <2> QED BY <2>1, <2>2
<1>4. AskedIsFunction'
  BY <1>0 DEF AskedIsFunction
<1> QED BY <1>0, <1>2, <1>3, <1>4 DEF KeptInv, CopyInv

LEMMA KeptByStart == ASSUME NameInv, KeptInv, NEW s \in Slot, StartName(s) PROVE KeptInv'
<1>0. /\ pc = "idle" /\ pc' = "name" /\ slot' = s /\ src' = Argument /\ at' = 0
      /\ DATA_IN[0] = SetName
      /\ asked' = [asked EXCEPT ![s] = Readable(Truncated(CString))]
      /\ UNCHANGED <<DATA_IN, eeName, torn>>
  BY DEF StartName
<1>1. /\ asked'[s] = Readable(Truncated(CString))
      /\ \A t \in Slot : t # s => asked'[t] = asked[t]
      /\ AskedIsFunction'
  BY <1>0 DEF KeptInv, AskedIsFunction
<1>2. CopyInv'
  <2>1. Argument' = Argument /\ CString' = CString
    BY <1>0 DEF Argument, CString
  <2>2. Readable(Truncated(CString))' = Readable(Truncated(CString))
    BY <2>1 DEF Readable, Truncated
  <2>3. \A k \in 0 .. 0 - 1 : FALSE
    OBVIOUS
  <2> QED BY <1>0, <1>1, <2>1, <2>2, <2>3 DEF CopyInv
<1>3. NamesKept'
  <2> SUFFICES ASSUME NEW t \in Slot, t \notin torn', t # s PROVE NameOf(t)' = asked'[t]
    BY <1>0 DEF NamesKept
  <2>1. NameOf(t) = asked[t]
    BY <1>0 DEF KeptInv, NamesKept
  <2> QED BY <1>0, <1>1, <2>1 DEF NameOf, CellOf
<1> QED BY <1>0, <1>1, <1>2, <1>3 DEF KeptInv, EraseInv

LEMMA KeptNext == NameInv /\ KeptInv /\ [NNext]_nvars => KeptInv'
<1> SUFFICES ASSUME NameInv, KeptInv, [NNext]_nvars PROVE KeptInv'
  OBVIOUS
<1>1. CASE EditName \/ OtherCommand
  <2>1. /\ UNCHANGED <<eeName, asked, torn>> /\ pc = "idle" /\ pc' = "idle"
    BY <1>1 DEF EditName, OtherCommand
  <2>2. AskedIsFunction'
    BY <2>1 DEF KeptInv, AskedIsFunction
  <2> QED BY <2>1, <2>2, KeptFrame
<1>2. CASE StartErase
  <2>1. /\ pc = "idle" /\ pc' = "erase" /\ at' = at /\ at = 0
        /\ UNCHANGED <<eeName, asked, torn>>
    BY <1>2 DEF StartErase, NameInv, NTypeOK
  <2>2. \A s \in Slot : ~(CellOf(s, 0) < 0)
    <3> TAKE s \in Slot
    <3>1. 0 \in 0 .. NAME_LEN - 1
      BY NameAssumption DEF NameAssumption
    <3>2. CellOf(s, 0) \in EECell
      BY <3>1, CellInside
    <3> QED BY <3>2 DEF EECell
  <2>3. NamesKept'
    BY <2>1 DEF KeptInv, NamesKept, NameOf, CellOf
  <2>4. EraseInv'
    BY <2>1, <2>2 DEF EraseInv, CellOf
  <2> QED BY <2>1, <2>3, <2>4 DEF KeptInv, CopyInv, AskedIsFunction
<1>3. CASE EndName
  <2>1. /\ UNCHANGED <<eeName, asked, torn>> /\ pc = "clear" /\ pc' = "idle"
    BY <1>3 DEF EndName
  <2>2. AskedIsFunction'
    BY <2>1 DEF KeptInv, AskedIsFunction
  <2> QED BY <2>1, <2>2, KeptFrame
<1>4. CASE PowerLoss
  <2>1. /\ UNCHANGED eeName /\ pc' = "idle"
        /\ torn' = torn \cup {s \in {slot} : pc = "name"}
        /\ asked' = [s \in Slot |-> IF s \in torn' THEN <<>> ELSE asked[s]]
    BY <1>4 DEF PowerLoss
  <2>2. torn \subseteq torn' /\ (pc = "name" => slot \in torn')
    BY <2>1
  <2>3. AskedIsFunction' /\ \A s \in Slot \ torn' : asked'[s] = asked[s]
    BY <2>1 DEF AskedIsFunction
  <2> QED BY <2>1, <2>2, <2>3, KeptFrame
<1>5. CASE UNCHANGED nvars
  <2>1. UNCHANGED <<DATA_IN, pc, at, slot, src, eeName, asked, torn>>
    BY <1>5 DEF nvars, vars
  <2>2. /\ Readable(Truncated(CString))' = Readable(Truncated(CString))
        /\ Argument' = Argument
    BY <2>1 DEF Readable, Truncated, CString, Argument
  <2>3. CopyInv'
    BY <2>1, <2>2 DEF KeptInv, CopyInv, CellOf, Cell
  <2>4. NamesKept'
    BY <2>1 DEF KeptInv, NamesKept, NameOf, CellOf
  <2> QED BY <2>1, <2>3, <2>4 DEF KeptInv, EraseInv, AskedIsFunction, CellOf
<1> QED BY <1>1, <1>2, <1>3, <1>4, <1>5, KeptByWrite, KeptByErase, KeptByStart DEF NNext

(* A name reads back as it was given last, cut to the room there is and at  *)
(* the first byte 255, whatever bytes were typed, for any buffer, any       *)
(* number and length of names, whatever lies behind the buffer and wherever *)
(* power fails in another write: NamesKept.                                 *)
THEOREM NamesReadBack == NSpec => []NamesKept
<1>1. NInit => KeptInv
  <2> SUFFICES ASSUME NInit PROVE KeptInv
    OBVIOUS
  <2>1. CopyInv /\ EraseInv /\ AskedIsFunction
    BY DEF NInit, CopyInv, EraseInv, AskedIsFunction
  <2>2. ASSUME NEW s \in Slot PROVE NameOf(s) = <<>>
    <3>1. 0 \in 0 .. NAME_LEN - 1
      BY NameAssumption DEF NameAssumption
    <3>2. eeName[CellOf(s, 0)] = ERASED
      BY <3>1, CellInside DEF NInit
    <3>3. \A k \in 0 .. 0 - 1 : FALSE
      OBVIOUS
    <3>4. NameIn(eeName, s) = [j \in 1 .. 0 |-> eeName[CellOf(s, j - 1)]]
      BY <3>1, <3>2, <3>3, NameInEnds
    <3>5. [j \in 1 .. 0 |-> eeName[CellOf(s, j - 1)]] = <<>>
      OBVIOUS
    <3> QED BY <3>4, <3>5, NameInIsNameOf
  <2> QED BY <2>1, <2>2 DEF KeptInv, NamesKept, NInit
<1>2. KeptInv => NamesKept
  BY DEF KeptInv
<1> QED BY <1>1, <1>2, KeptNext, NameInit, NameNext, PTL DEF NSpec
=============================================================================
