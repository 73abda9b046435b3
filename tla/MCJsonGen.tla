------------------------------ MODULE MCJsonGen ------------------------------
(* JsonGen with a stack of three scopes and a buffer of four characters, so
   that both are exhausted within eight calls. *)
EXTENDS JsonGen

MCLengths == {1, 3}

=============================================================================
