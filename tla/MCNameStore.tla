----------------------------- MODULE MCNameStore -----------------------------
(***************************************************************************)
(* Values of the constants for the runs of NameStore: two names of two     *)
(* characters.                                                             *)
(***************************************************************************)
EXTENDS NameStore

MCByte == {"S", " ", "nul", "ff"}
MCNUL == "nul"
MCBlank == " "
MCSetName == "S"
MCERASED == "ff"
=============================================================================
