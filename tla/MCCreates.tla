----------------------------- MODULE MCCreates -----------------------------
(* Creates as TLC checks it. *)
EXTENDS Creates

CONSTANTS ann, bob, other

Together(k, l) == [c \in {ann, bob} |-> IF c = ann THEN k ELSE l]

\* The pairs of calls that can see each other's resources, and a rename.
Pairs == {Together("notebook", "notebook"), Together("padded", "rename"),
          Together("source", "file"), Together("file", "text"),
          Together("text", "rename")}

=============================================================================
