----------------------------- MODULE MCBranding -----------------------------
(* Branding as TLC checks it. *)
EXTENDS Branding

CONSTANTS d1, d2

TwoDays == {d1, d2}
OneDay  == {d1}

=============================================================================
