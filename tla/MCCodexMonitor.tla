--------------------------- MODULE MCCodexMonitor ---------------------------
(* Three requests: one of a reachable sender, one of a sender that never   *)
(* comes back, one that asks for nothing.                                  *)
EXTENDS CodexMonitor, TLC

CONSTANTS work, lost, note

MCRequests == {work, lost, note}
MCInformational == {note}
MCOffline == {lost}
=============================================================================
