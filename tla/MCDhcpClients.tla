----------------------------- MODULE MCDhcpClients ----------------------------
\* Small instances of DhcpClients.
EXTENDS DhcpClients, TLC
===============================================================================
