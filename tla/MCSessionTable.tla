--------------------------- MODULE MCSessionTable ---------------------------
EXTENDS SessionTable, TLC

\* Peers, names and commands are told apart only by what happens to them.
Symmetry == Permutations(Peers) \cup Permutations(Names) \cup Permutations(Procs)

\* Once somebody got in between (~calm) no property asks about the notes, and no other part
\* of the state ever depends on them: the states that differ in them only are one.
WithoutNotes(s) == IF s = None THEN None ELSE <<s.uid, s.regs, s.live>>
View ==
  IF calm THEN vars
  ELSE <<conn, pipes, [n \in Names |-> WithoutNotes(sessions[n])], cmd, listing,
         dangling, bound>>
=============================================================================
