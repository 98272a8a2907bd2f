------------------------------ MODULE HostLink ------------------------------
(***************************************************************************)
(* Runs of the host utility k7nvh_dc_pdu, one after the other or refused,  *)
(* and the unit at the other end of the serial line.  A run sends one      *)
(* command and shows what arrives until a '#', the start of the unit's     *)
(* prompt, or until its alarm.                                             *)
(*                                                                         *)
(* What the unit prints is a sequence of pieces: the echo of a command,    *)
(* the reply, the '#' of the prompt and the rest of the prompt.            *)
(***************************************************************************)
EXTENDS Integers, Sequences

CONSTANTS
    Runs,       \* runs of the utility
    CAP,        \* pieces the unit holds while the port is closed (a bank)
    MaxNotices  \* bound on messages the unit prints of its own accord

ASSUME HostAssumption == CAP \in Nat \ {0} /\ MaxNotices \in Nat

VARIABLES
    stage,    \* where each run is
    shown,    \* what each run has shown
    opened,   \* pieces the unit had printed when the run opened the port
    typed,    \* characters under way to the unit: <<run, is a newline>>
    line,     \* DATA_IN: whose text it holds
    queue,    \* what the unit is printing
    bank,     \* what the host has not read yet
    printed,  \* pieces printed so far
    notices

unit == <<typed, line, queue, bank, printed, notices>>
vars == <<stage, shown, opened, unit>>

Finished == {"prompt", "alarm", "killed", "refused", "unsent"}
IsOpen(r) == stage[r] \in {"open", "reading"}
PortOpen == \E r \in Runs : IsOpen(r)

Init ==
    /\ stage = [r \in Runs |-> "new"] /\ shown = [r \in Runs |-> <<>>]
    /\ opened = [r \in Runs |-> 0]
    /\ typed = <<>> /\ line = <<>> /\ queue = <<>> /\ bank = <<>>
    /\ printed = 0 /\ notices = 0

-----------------------------------------------------------------------------
(* The utility *)

(* Mutant: a lock held by another run is not noticed. *)
LockFreeIgnored == TRUE

(* lockf(F_TLOCK); the system frees the lock when its holder ends. *)
LockFree == ~PortOpen

Open(r) ==
    /\ stage[r] = "new"
    /\ stage' = [stage EXCEPT ![r] = IF LockFree THEN "open" ELSE "refused"]
    /\ opened' = [opened EXCEPT ![r] = printed]
    /\ UNCHANGED <<shown, unit>>

(* The run ends: the system drops what it had received for it, and perhaps  *)
(* what it had not yet sent.                                                *)
Leave(r, how, received, sent) ==
    /\ stage' = [stage EXCEPT ![r] = how]
    /\ bank' \in {SubSeq(received, k, Len(received)) : k \in 1 .. Len(received) + 1}
    /\ typed' \in {SubSeq(sent, 1, k) : k \in 0 .. Len(sent)}
    /\ UNCHANGED <<opened, line, queue, printed, notices>>

Send(r) ==
    /\ stage[r] = "open"
    /\ \/ /\ stage' = [stage EXCEPT ![r] = "reading"]
          /\ typed' = typed \o << <<r, FALSE>>, <<r, TRUE>> >>
          /\ UNCHANGED <<opened, line, queue, bank, printed, notices>>
       \/ Leave(r, "unsent", bank, Append(typed, <<r, FALSE>>))
    /\ UNCHANGED shown

(* Mutant: the end of the command's echo passes for the end of the reply. *)
StopsAtEcho(piece) == piece.kind \in {"#", "echo"}

StopsAt(piece) == piece.kind = "#"

Read(r) ==
    /\ stage[r] = "reading" /\ bank # <<>>
    /\ IF StopsAt(Head(bank))
       THEN Leave(r, "prompt", Tail(bank), typed) /\ UNCHANGED shown
       ELSE /\ shown' = [shown EXCEPT ![r] = Append(@, Head(bank))]
            /\ bank' = Tail(bank)
            /\ UNCHANGED <<stage, opened, typed, line, queue, printed, notices>>

(* Mutant: the alarm does not end the loop. *)
AlarmIgnored(r) == UNCHANGED <<stage, opened, unit>>

Alarm(r) == Leave(r, "alarm", bank, typed)

Expire(r) == stage[r] = "reading" /\ Alarm(r) /\ UNCHANGED shown

(* SIGINT or SIGTERM *)
Kill(r) == IsOpen(r) /\ Leave(r, "killed", bank, typed) /\ UNCHANGED shown

-----------------------------------------------------------------------------
(* The unit *)

Piece(kind, of) == [kind |-> kind, of |-> of]

Prompt == <<Piece("#", <<>>), Piece("rest", <<>>)>>

Reply(of) == <<Piece("reply", of)>> \o Prompt

Receive ==
    /\ queue = <<>> /\ typed # <<>>
    /\ typed' = Tail(typed)
    /\ IF Head(typed)[2]
       THEN queue' = Reply(line) /\ line' = <<>>
       ELSE queue' = <<Piece("echo", <<Head(typed)[1]>>)>> /\ line' = Append(line, Head(typed)[1])
    /\ UNCHANGED <<stage, shown, opened, bank, printed, notices>>

(* A trip or a voltage switch prints, and clears the command line.          *)
Notice ==
    /\ queue = <<>> /\ notices < MaxNotices /\ notices' = notices + 1
    /\ queue' = Reply(<<>>) /\ line' = <<>>
    /\ UNCHANGED <<stage, shown, opened, typed, bank, printed>>

(* Mutant: one piece more than fits. *)
RoomOffByOne == Len(bank) <= CAP

Room == Len(bank) < CAP

(* A piece for which there is no room waits for the host while that reads,  *)
(* and is lost after a while when it does not.                              *)
PrintPiece ==
    /\ queue # <<>> /\ (Room \/ ~PortOpen)
    /\ printed' = printed + 1
    /\ bank' = IF Room
               THEN Append(bank, [n |-> printed', kind |-> Head(queue).kind, of |-> Head(queue).of])
               ELSE bank
    /\ queue' = Tail(queue)
    /\ UNCHANGED <<stage, shown, opened, typed, line, notices>>

Unit == Receive \/ PrintPiece \/ Notice

Next ==
    \/ \E r \in Runs : Open(r) \/ Send(r) \/ Read(r) \/ Expire(r) \/ Kill(r)
    \/ Unit

Spec == Init /\ [][Next]_vars

(* The processes run, and an alarm that was set goes off.                   *)
FairSpec == Spec /\ \A r \in Runs : WF_vars(Send(r)) /\ SF_vars(Expire(r))

-----------------------------------------------------------------------------
(* Properties *)

Pieces(numbers) == [n : numbers, kind : {"echo", "reply", "#", "rest"}, of : Seq(Runs)]

(* Every variable keeps its range, and the unit holds at most a bank.       *)
HostTypeOK ==
    /\ stage \in [Runs -> Finished \cup {"new", "open", "reading"}]
    /\ shown \in [Runs -> Seq(Pieces(1 .. printed))]
    /\ opened \in [Runs -> 0 .. printed]
    /\ typed \in Seq(Runs \X BOOLEAN) /\ line \in Seq(Runs)
    /\ queue \in Seq([kind : {"echo", "reply", "#", "rest"}, of : Seq(Runs)])
    /\ bank \in Seq(Pieces(1 .. printed)) /\ Len(bank) <= CAP
    /\ printed \in Nat /\ notices \in Nat

(* No run reads what another run waits for: of what was printed while it    *)
(* had the port, a run shows everything up to where it is, in order.        *)
Unbroken(s, from) ==
    \A k \in DOMAIN s : s[k].n > from + 1 => k > 1 /\ s[k - 1].n = s[k].n - 1

NothingStolen == \A r \in Runs : Unbroken(shown[r], opened[r])

(* As long as every run got its prompt and the unit printed nothing of its  *)
(* own, a run that ends at the prompt has shown the echo of its command and *)
(* the reply to it, after at most the rest of an earlier prompt.            *)
Calm == notices = 0 /\ \A r \in Runs : stage[r] \notin {"alarm", "killed", "unsent"}

Answered(r) ==
    LET n == Len(shown[r]) IN
    /\ n \in {2, 3} /\ (n = 3 => shown[r][1].kind = "rest")
    /\ shown[r][n - 1].kind = "echo" /\ shown[r][n - 1].of = <<r>>
    /\ shown[r][n].kind = "reply" /\ shown[r][n].of = <<r>>

CalmReplies == Calm => \A r \in Runs : stage[r] = "prompt" => Answered(r)

(* A run ends, whatever the unit does, and leaves the lock to the next.     *)
RunsEnd == \A r \in Runs : IsOpen(r) ~> stage[r] \in Finished
=============================================================================
