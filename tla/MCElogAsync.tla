------------------------------ MODULE MCElogAsync -----------------------------
\* Small instances of ElogAsync.
EXTENDS ElogAsync, TLC
===============================================================================
