-------------------------- MODULE MCBatchIterator --------------------------
(***************************************************************************)
(* Instances of BatchIterator for TLC.                                     *)
(***************************************************************************)
EXTENDS BatchIterator

CONSTANTS w1, w2

TwoWorkers == {w1, w2}
=============================================================================
