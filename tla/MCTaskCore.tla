------------------------------ MODULE MCTaskCore ------------------------------
EXTENDS TaskCore, TLC
===============================================================================
