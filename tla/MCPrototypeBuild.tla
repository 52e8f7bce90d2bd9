-------------------------- MODULE MCPrototypeBuild --------------------------
(* Two requests race for startMu, two proposals for one base; two files    *)
(* tell what a revision may write from what it may not.                    *)
EXTENDS PrototypeBuild, TLC

Interchangeable ==
  {q @@ r @@ s @@ t : q \in Permutations(Requests),
                      r \in Permutations(Proposals),
                      s \in Permutations(Paths),
                      t \in Permutations(Contents)}
=============================================================================
