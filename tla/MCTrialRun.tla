----------------------------- MODULE MCTrialRun -----------------------------
\* TrialRun with model values for the processes.
EXTENDS TrialRun, TLC

Symmetry == Permutations(Processes)

=============================================================================
