---------------------------- MODULE MCLifecycle ----------------------------
(* Instances of Lifecycle for TLC.                                         *)
EXTENDS Lifecycle

\* Used in runs of safety properties only.
WorkerSymmetry == Permutations(Workers)
=============================================================================
