------------------------- MODULE MCTransferDispatch -------------------------
\* TransferDispatch with model values for invoices and workers.
EXTENDS TransferDispatch, TLC

Symmetry == Permutations(Invoices) \cup Permutations(Workers)

=============================================================================
