--------------------------- MODULE MCPipeRegistry ---------------------------
EXTENDS PipeRegistry

\* Every name is its own file name.
OwnFiles == [n \in Names |-> n]
=============================================================================
