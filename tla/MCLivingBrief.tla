--------------------------- MODULE MCLivingBrief ---------------------------
(* A second topic is what a confirmation must leave alone, and a second    *)
(* value, where there is one, tells an old decision from a new one.        *)
EXTENDS LivingBrief, TLC

CONSTANTS x1, audience, outcome

SameTopic == [x \in Threads |-> audience]

Interchangeable ==
  {p @@ q @@ r : p \in Permutations(Values), q \in Permutations(Threads),
                 r \in Permutations(Turns)}
=============================================================================
