--------------------------- MODULE MCFileTransfer ---------------------------
EXTENDS FileTransfer

CONSTANTS short, long

\* One version has a single unit, the other two.
MCLength == [v \in Versions |-> IF v = short THEN 1 ELSE 2]
=============================================================================
