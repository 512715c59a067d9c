---------------------------- MODULE MCTelegramLinking ----------------------------
(* Small instances of the linking for TLC. *)
EXTENDS TelegramLinking, TLC

Symmetry == Permutations(Users) \union Permutations(TelegramUsers) \union Permutations(Updates)
              \union Permutations(Handlers) \union Permutations(Sessions)
=============================================================================
