----------------------------- MODULE MCErrorExt -----------------------------
(* Instances of ErrorExt for TLC. *)
EXTENDS ErrorExt, TLC

\* An error and a warning; each of them may be reported again and again.
MCTwoMessages ==
  {[text |-> "e", severity |-> "error"], [text |-> "w", severity |-> "warning"]}

\* Identifiers are only compared.
IdSymmetry == Permutations(Ids)

=============================================================================
