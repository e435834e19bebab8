-------------------------- MODULE MCOutboxNotifier --------------------------
(* Values for the constants of OutboxNotifier; a tick stands for minutes.   *)
EXTENDS OutboxNotifier, TLC

\* Notifier processes in the same mode, and rows of the same kind, are interchangeable.
Symmetry ==
    Permutations(Enabled) \cup Permutations(Rows \ Refused)
=============================================================================
