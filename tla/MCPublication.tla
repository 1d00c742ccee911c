---------------------------- MODULE MCPublication ----------------------------
EXTENDS Publication, TLC

\* People save the review under the project and under the vault.
HumanFiles == {"project", "vault"} \X Docs

Symmetry == Permutations(Edits)
==============================================================================
