----------------------------- MODULE ByteStream -----------------------------
(***************************************************************************)
(* What one direction of the USB serial line promises to its two ends: the *)
(* bytes the writer was told are accepted come out at the reader in order, *)
(* none twice and none missing.  An upset (a reset of the bus, a new       *)
(* configuration, a stop of the clock) may drop what is in flight, and     *)
(* only the one call of the driver it interrupts may go astray: lose what  *)
(* it accepted, return a byte nobody wrote, discard what just came.        *)
(***************************************************************************)
EXTENDS Integers, Sequences

CONSTANTS
    Capacity,  \* bytes in flight at most
    Stray      \* the byte nobody wrote

VARIABLES
    accepted,  \* bytes the writer was told are on their way, numbered from 1
    flight,    \* those still under way
    heard,     \* what the reader got
    upsets,    \* upsets so far
    shaken     \* a call is under way that an upset interrupted

stream == <<accepted, flight, heard, upsets, shaken>>

Numbered(from, n) == [k \in 1 .. n |-> from + k]

Init == accepted = 0 /\ flight = <<>> /\ heard = <<>> /\ upsets = 0 /\ shaken = FALSE

(* No upset: at most the interrupted call returns.                         *)
Undisturbed == upsets' = upsets /\ shaken' \in {shaken, FALSE}

Write(n) ==
    /\ Len(flight) + n <= Capacity
    /\ accepted' = accepted + n
    /\ flight' = flight \o Numbered(accepted, n)
    /\ heard' = heard
    /\ Undisturbed

Read(n) ==
    /\ heard' = heard \o SubSeq(flight, 1, n)
    /\ flight' = SubSeq(flight, n + 1, Len(flight))
    /\ accepted' = accepted
    /\ Undisturbed

Upset ==
    /\ upsets' = upsets + 1
    /\ flight' \in {flight, <<>>}
    /\ shaken' \in BOOLEAN
    /\ UNCHANGED <<accepted, heard>>

(* The interrupted call goes wrong, or just returns.                       *)
Astray ==
    /\ shaken
    /\ \/ accepted' = accepted + 1 /\ UNCHANGED <<flight, heard>>
       \/ heard' = Append(heard, Stray) /\ UNCHANGED <<accepted, flight>>
       \/ flight' = <<>> /\ UNCHANGED <<accepted, heard>>
       \/ UNCHANGED <<accepted, flight, heard>>
    /\ Undisturbed

Next ==
    \/ \E n \in 1 .. Capacity : Write(n)
    \/ \E n \in 1 .. Len(flight) : Read(n)
    \/ Upset \/ Astray

Spec == Init /\ [][Next]_stream
=============================================================================
