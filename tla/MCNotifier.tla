----------------------------- MODULE MCNotifier -----------------------------
(* Instances of Notifier and of its refinement of Broadcast for TLC.       *)
EXTENDS NotifierRefinement

\* Threads of one kind are interchangeable; sinks are not, when some of them are
\* reentrant. Used in runs of safety properties only.
ThreadSymmetry == Permutations(Workers) \cup Permutations(Clients)
=============================================================================
