-------------------------- MODULE MCInstallation --------------------------
(* An instance of Installation, and so of Distribution, for model checking. *)
EXTENDS Installation

\* Whole packages, one without a file, one with an unreadable manifest, and a
\* download that names the same directory as "a".
A      == [dir |-> "a", names |-> "a", expects |-> {1}, has |-> {1}]
B      == [dir |-> "b", names |-> "b", expects |-> {1}, has |-> {1}]
Half   == [dir |-> "b", names |-> "b", expects |-> {1}, has |-> {}]
Broken == [dir |-> "b", names |-> "b", expects |-> {}, has |-> {1}]
Staged == [dir |-> "s", names |-> "a", expects |-> {1}, has |-> {1}]

Plain == [tools |-> TRUE, code |-> TRUE, models |-> <<>>, archive |-> "none", runtime |-> "none",
          repo |-> TRUE, packed |-> <<>>, python |-> "none", own |-> FALSE]
Assets   == [Plain EXCEPT !.models = <<A, Broken>>, !.runtime = "assets", !.python = "good"]
Packaged == [Plain EXCEPT !.runtime = "packaged", !.packed = <<Staged>>, !.python = "good"]

\* Calls that succeed, and one for each way to fail.
MCInputs ==
  {Plain, [Plain EXCEPT !.models = <<A>>, !.archive = "given"], Assets, Packaged,
   [Plain EXCEPT !.tools = FALSE], [Plain EXCEPT !.code = FALSE],
   [Plain EXCEPT !.models = <<Staged, A>>], [Plain EXCEPT !.archive = "lost"],
   [Assets EXCEPT !.runtime = "both"], [Assets EXCEPT !.models = <<A, Half>>],
   [Assets EXCEPT !.python = "bad"], [Assets EXCEPT !.repo = FALSE],
   [Packaged EXCEPT !.own = TRUE], [Packaged EXCEPT !.packed = <<Half>>]}

\* Nothing, ours, and somebody else's
MCBundles  == {{}, {"dir", "Info.plist", "sidecar"}, {"dir", "other"}}
MCSidecars == {{}, {"dir", "server.py"}, {"dir", "other"}}
MCUserRoots ==
  {{"dir", "models", "logs"}, {"dir", "models", "cache", "support-bundles", "sentinel"},
   {"dir", "models", "other"}}
=============================================================================
