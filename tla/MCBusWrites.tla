----------------------------- MODULE MCBusWrites -----------------------------
(***************************************************************************)
(* The instances of MCBus for BusWrites.                                   *)
(***************************************************************************)
EXTENDS MCBus, BusWrites

\* As ModuloHistory; no property looks at the swallowed messages.
WrittenModuloHistory ==
  <<registry, hellos, asks, conn, Addresses, msgs, rows, reached, written>>
=============================================================================
