---------------------------- MODULE MC_PMC8Guide ----------------------------
(* PMC8Guide for TLC: a serial line that may time out, one orphan timer   *)
(* per axis at most.                                                       *)
EXTENDS PMC8Guide

MCMaxOrphans == 1
MCSerial == {"ok", "timeout"}
=============================================================================
