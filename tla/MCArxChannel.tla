--------------------------- MODULE MCArxChannel ---------------------------
(* Instances of the channel for TLC. *)
EXTENDS ArxChannel

CONSTANTS a, b, c, x, y

MCKeys3 == {a, b, c}
MCMessages == {x, y}

=============================================================================
