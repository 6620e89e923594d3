------------------------------ MODULE MCElogFile ------------------------------
\* Small instances of ElogFile.
EXTENDS ElogFile, TLC
===============================================================================
