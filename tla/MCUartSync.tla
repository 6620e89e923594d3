------------------------------ MODULE MCUartSync ------------------------------
\* Small instances of UartSync.
EXTENDS UartSync, TLC
===============================================================================
