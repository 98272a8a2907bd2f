------------------------------ MODULE LineBuffer ------------------------------
(***************************************************************************)
(* What the console promises of the command line: characters collect in a  *)
(* line of bounded length that can be edited, a newline executes what was  *)
(* collected, and the line is otherwise only ever dropped whole.           *)
(***************************************************************************)
EXTENDS Sequences, Naturals

CONSTANTS Byte,      \* bytes the host may type into a line
          NUL,       \* the byte 0, which ends a string
          MaxLine    \* longest line

VARIABLES line,      \* the line so far
          executed   \* the command just parsed, else empty

(* The string a sequence holds: what stands before the first NUL. *)
Text(s) == [k \in {k \in 1 .. Len(s) : \A j \in 1 .. k : s[j] # NUL} |-> s[k]]

Init == line = <<>> /\ executed = <<>>

Type(c) == Len(line) < MaxLine /\ line' = Append(line, c) /\ executed' = <<>>

Rubout == line # <<>> /\ line' = SubSeq(line, 1, Len(line) - 1) /\ executed' = <<>>

Execute == executed' = Text(line) /\ line' = <<>>

Drop == line' = <<>> /\ executed' = <<>>

Next == (\E c \in Byte : Type(c)) \/ Rubout \/ Execute \/ Drop

bvars == <<line, executed>>

Spec == Init /\ [][Next]_bvars
=============================================================================
