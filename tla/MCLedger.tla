------------------------------ MODULE MCLedger ------------------------------
(***************************************************************************)
(* Instances of Ledger for TLC: three sessions of one agent name, one of   *)
(* which is the sender of the message.                                     *)
(***************************************************************************)
EXTENDS Ledger, TLC

CONSTANTS s1, s2, s3

MCSenders == [m \in Messages |-> s3]
ReceiverSymmetry == Permutations({s1, s2})
=============================================================================
