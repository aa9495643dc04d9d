----------------------------- MODULE Installed -----------------------------
(***************************************************************************)
(* What the model manager promises those who use an installed model: the   *)
(* abstract specification ModelStore implements.  There are no files       *)
(* here, no chunks and no checksums: a model is there or it is not, and is *)
(* replaced by one that is allowed.                                        *)
(***************************************************************************)
CONSTANT None   \* no model

VARIABLES
  allowed,   \* the versions that may be installed, for good
  model,     \* the version installed
  stage,     \* the call: "idle", "reading", "replacing", "replaced"
  incoming,  \* the version that takes the place of the model
  answer     \* what the last call said

vars == <<allowed, model, stage, incoming, answer>>

Refusals == {"cancelled", "blocked", "checksum_mismatch", "failed", "internal_error"}

Init == model = None /\ stage = "idle" /\ incoming = None /\ answer = "none"

\* A download is asked for, and the model is read from its source.
Ask ==
  /\ stage = "idle"
  /\ stage' = "reading" /\ answer' = "none"
  /\ UNCHANGED <<allowed, model, incoming>>

\* Whatever goes wrong with the source, the model is what it was.
Refuse ==
  /\ stage \in {"idle", "reading"}
  /\ stage' = "idle" /\ answer' \in Refusals
  /\ UNCHANGED <<allowed, model, incoming>>

\* All of the new model is at hand.
Begin ==
  /\ stage \in {"idle", "reading"}
  /\ stage' = "replacing" /\ incoming' \in allowed /\ answer' = "none"
  /\ UNCHANGED <<allowed, model>>

Remove ==
  /\ stage = "replacing"
  /\ model' = None
  /\ UNCHANGED <<allowed, stage, incoming, answer>>

\* The new model appears whole, and stays.
Put ==
  /\ stage = "replacing" /\ model = None
  /\ stage' = "replaced" /\ model' = incoming
  /\ UNCHANGED <<allowed, incoming, answer>>

Succeed ==
  /\ stage = "replaced"
  /\ stage' = "idle" /\ incoming' = None /\ answer' = "ready"
  /\ UNCHANGED <<allowed, model>>

\* A replacement can fail, but it says so, and of no other reason.
Fail ==
  /\ stage = "replacing"
  /\ stage' = "idle" /\ incoming' = None /\ answer' = "failed"
  /\ UNCHANGED <<allowed, model>>

\* Who is killed says nothing.
Die ==
  /\ stage' = "idle" /\ incoming' = None /\ answer' = "none"
  /\ UNCHANGED <<allowed, model>>

Next == Ask \/ Refuse \/ Begin \/ Remove \/ Put \/ Succeed \/ Fail \/ Die

Spec == Init /\ [][Next]_vars
=============================================================================
