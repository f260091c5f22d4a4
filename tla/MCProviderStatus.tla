-------------------------- MODULE MCProviderStatus --------------------------
\* ProviderStatus with model values for its processes.
EXTENDS ProviderStatus

Symmetry == Permutations(Workers) \cup Permutations(Handlers)

=============================================================================
