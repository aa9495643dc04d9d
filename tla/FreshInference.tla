-------------------------- MODULE FreshInference ---------------------------
(***************************************************************************)
(* The stub inference without a cache: the abstract specification          *)
(* InferenceCache implements.  A request is answered from the input that   *)
(* is in its directory then, at the quality the memory allows.  There are  *)
(* no entries and no files of earlier jobs here.  An answer also says how  *)
(* the models are; this alone may be remembered from an earlier answer, in *)
(* a hit, and a hit has the quality that was asked for.                    *)
(***************************************************************************)
EXTENDS StubInference

VARIABLES
  asked,   \* the request being handled, or Nobody
  answer,  \* the response to the last request, once it is handled
  told     \* what is remembered of the models, by what was asked for then

vars == <<oom, dirs, models, asked, answer, told>>

Init == InitJobs /\ asked = Nobody /\ answer = NoAnswer /\ told = {}

Host ==
  /\ \/ \E d \in Dirs, input \in Inputs : MakesDir(d, input) /\ UNCHANGED models
     \/ \E d \in Dirs : RemovesDir(d) /\ UNCHANGED models
     \/ ModelsChange /\ UNCHANGED dirs
  /\ UNCHANGED <<oom, asked, answer, told>>

\* A request names a directory its host has made.
Ask ==
  /\ asked = Nobody
  /\ \E r \in Requests : dirs[r.dir] # Absent /\ asked' = r
  /\ answer' = NoAnswer
  /\ UNCHANGED <<oom, dirs, models, told>>

\* What the blobs of an inference hold.
Computed(r, quality) ==
  [kind : Kinds(r.params), input : {dirs[r.dir]}, params : {r.params}, quality : {quality}]

Answer(hit, quality, status) ==
  [ok |-> TRUE, hit |-> hit, rq |-> asked, quality |-> quality, models |-> status,
   blobs |-> Computed(asked, quality)]

\* What is said of the models for what was asked for.
Said(status) == [of |-> KeyFor(asked), models |-> status]

\* An answer from this request's own inference: it says how the models are, which
\* may be remembered if it has the quality that was asked for, and other things
\* forgotten.
Compute(quality) ==
  /\ answer' = Answer(FALSE, quality, models)
  /\ told' \subseteq told \cup {Said(s) : s \in IF quality = asked.quality THEN {models} ELSE {}}

\* An answer that is called a hit, with what was said of the models when the same
\* was asked for.
Recall(quality) ==
  /\ quality = asked.quality
  /\ \E said \in told : said.of = KeyFor(asked) /\ answer' = Answer(TRUE, quality, said.models)
  /\ told' = told

Infer ==
  /\ asked # Nobody
  /\ LET quality == Effective(asked.quality)
     IN IF Readable(asked.dir) /\ quality # "failed"
        THEN Compute(quality) \/ Recall(quality)
        ELSE answer' = NoAnswer /\ told' = told
  /\ asked' = Nobody
  /\ UNCHANGED <<oom, dirs, models>>

Next == Host \/ Ask \/ Infer

Spec == Init /\ [][Next]_vars
=============================================================================
