-------------------------- MODULE MC_RotatorTimer --------------------------
(***************************************************************************)
(* Instances of RotatorTimer for TLC.                                      *)
(***************************************************************************)
EXTENDS RotatorTimer

\* A serial line that always answers in time, and one that may time out.
Reliable   == {"ok"}
Unreliable == {"ok", "timeout"}

=============================================================================
