------------------------------ MODULE MCApplyTx ------------------------------
(* ApplyTx on small checkouts.  Processes, file names and bodies are         *)
(* interchangeable, and so are the directories (Init populates any one).     *)
EXTENDS ApplyTx, TLC

CONSTANTS plain, stray

\* A frontmatter as aiwf writes it, and one with a field the kind does not carry, which
\* loading drops.
Pipeline == [f \in Files |-> [x \in Fields |-> plain]]

Symmetry ==
  Permutations(Procs) \cup Permutations(Dirs) \cup Permutations(Names) \cup
  Permutations(Bodies)
=============================================================================
