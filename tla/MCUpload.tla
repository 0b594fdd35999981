------------------------------ MODULE MCUpload ------------------------------
(* Upload as TLC checks it: sessions are interchangeable. *)
EXTENDS Upload, TLC

Symm == Permutations(Sessions)

=============================================================================
