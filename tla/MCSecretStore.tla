--------------------------- MODULE MCSecretStore ---------------------------
(* TLC instance of SecretStore: model values, and its symmetries. *)
EXTENDS SecretStore, TLC

\* The specification never names a request or a key: each is as good as
\* another.
Symmetry == Permutations(Requests) \cup Permutations(Keys)
=============================================================================
