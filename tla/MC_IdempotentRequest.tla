------------------------ MODULE MC_IdempotentRequest ------------------------
EXTENDS IdempotentRequest

(* Three attempts of one request and one that reuses its key for another.  *)
CONSTANTS a1, a2, a3, other

MCContent == [a \in Attempts |-> IF a = other THEN "y" ELSE "x"]
MCSlow    == {{}, {a1}}

=============================================================================
