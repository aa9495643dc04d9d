---------------------------- MODULE MCModelStore ----------------------------
(* Instances of ModelStore for model checking. *)
EXTENDS ModelStore

\* The source begins with version 1, the test package, which both gates let in;
\* a publication may put any other in its place.
FirstInit == Init /\ manifestV = 1

FirstSpec == FirstInit /\ [][Next]_vars /\ Fairness
=============================================================================
