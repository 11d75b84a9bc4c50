----------------------------- MODULE MCElection -----------------------------
(* Instances of Election for TLC: the two kinds of bind(), calm or not.    *)
EXTENDS Election, TLC

Kinds(exclusive, slow, byHand, most) ==
    [exclusive : exclusive, slow : slow, byHand : byHand, faults : {most}]

(* A slow machine behaves in every way a prompt one does, and more.        *)
Rough == Kinds({FALSE}, {TRUE}, {FALSE}, 1)
ByHand == Kinds({FALSE}, {TRUE}, {TRUE}, 0)
Prompt == Kinds({TRUE}, {FALSE}, {FALSE}, 1)
Linux == Kinds({FALSE}, {FALSE}, {FALSE}, 0)
MCHosts == Rough \cup Prompt \cup ByHand
=============================================================================
