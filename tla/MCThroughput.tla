---------------------------- MODULE MCThroughput -----------------------------
(***************************************************************************)
(* An instance of Throughput for TLC: a slow queue, which gets half a      *)
(* token per unit of time, before a faster one.                            *)
(***************************************************************************)
EXTENDS Throughput

Rates  == <<1, 2>>
Limits == <<1, 2>>
=============================================================================
