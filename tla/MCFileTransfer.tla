---------------------------- MODULE MCFileTransfer ----------------------------
\* Small instances of FileTransfer.
EXTENDS FileTransfer, TLC
===============================================================================
