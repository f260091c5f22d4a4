-------------------------- MODULE MCInvoiceIssuing --------------------------
\* InvoiceIssuing with model values for the processes.
EXTENDS InvoiceIssuing, TLC

Symmetry == Permutations(Ticks)

=============================================================================
