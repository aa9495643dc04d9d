-------------------------- MODULE MCTorchBackend --------------------------
(* An instance of TorchBackend for model checking. *)
EXTENDS TorchBackend, TLC

CONSTANTS w1, w2

\* The download of a blue model, a blue and a green package, in the order of
\* their paths; the green one serves both runtimes.
MCColor    == <<"blue", "blue", "green">>
MCBackends == <<{"torch_cpu"}, {"torch_cpu"}, {"torch_cpu", "mlx"}>>

\* "s" is what the bootstrap script installs, "p" a package of two files; the
\* first are the weights.
MCExpected == [v \in {"s", "p"} |-> IF v = "s" THEN {1} ELSE {1, 2}]
MCWeights  == [v \in {"s", "p"} |-> 1]

\* A download, nothing and a package.
MCRoots == {<<"p", "none", "p">>}

Normal == [root |-> TRUE, fixture |-> FALSE, cpu |-> TRUE, repo |-> TRUE, modelDir |-> FALSE,
           mlx |-> FALSE, adapter |-> "ok"]

\* The usual environment, one that has neither a CPU device nor the
\* repository, the fixture runtime, and two whose adapters fail, of which one
\* has a model directory that is not the manager's.
MCEnvs ==
  LET NoCpu == [Normal EXCEPT !.cpu = FALSE, !.mlx = TRUE]
  IN {Normal, [NoCpu EXCEPT !.repo = FALSE], [Normal EXCEPT !.fixture = TRUE],
      [NoCpu EXCEPT !.adapter = "unusable"],
      [NoCpu EXCEPT !.adapter = "raises", !.root = FALSE, !.modelDir = TRUE]}

\* No writer is told from another.
Symmetry == Permutations(Writers)

MCRequests ==
  {[cmd |-> "warmup", backend |-> "auto", color |-> "auto"],
   [cmd |-> "infer", backend |-> "mlx", color |-> "auto"],
   [cmd |-> "infer", backend |-> "torch_cpu", color |-> "green"],
   [cmd |-> "infer", backend |-> "torch_mps", color |-> "auto"]}
=============================================================================
