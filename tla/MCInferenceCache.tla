-------------------------- MODULE MCInferenceCache --------------------------
(* An instance of InferenceCache for model checking. *)
EXTENDS InferenceCache, TLC

CONSTANTS f1, f2, p1, p2, d1, d2

\* One frame at two qualities, the lower the downgrade of the higher, in two
\* directories, of which only the straight output is asked, and another frame.
Ask(f, p, q, d) == [frame |-> f, params |-> p, quality |-> q, dir |-> d]

MCRequests ==
  {Ask(f1, p1, "full_2048", d1), Ask(f1, p1, "full_2048", d2),
   Ask(f1, p1, "high_1024", d1), Ask(f2, p2, "full_2048", d2)}

\* Neither inputs nor what is said of the models are told apart.
Alike == Permutations(Inputs) \cup Permutations(ModelStatus)
=============================================================================
