----------------------------- MODULE Answering -----------------------------
(***************************************************************************)
(* What the server promises the host that reads its answers: the abstract  *)
(* specification SidecarServer implements.  There are no threads here, no  *)
(* locks and no buffers, only the requests that were asked and the lines   *)
(* that came back.                                                         *)
(*                                                                         *)
(* A request is answered once.  Requests other than downloads are answered *)
(* in the order they were asked.  A download that is accepted keeps the    *)
(* later ones of its kind out: it is answered when everything asked before *)
(* it has been, and whatever is asked in the meantime may be refused.      *)
(***************************************************************************)
EXTENDS Naturals, Sequences

VARIABLES
  asked,  \* the requests: "download" or "serial"
  lines   \* what came back: which request it answers (0: none), and if it refuses it

vars == <<asked, lines>>

Answers(r) == {i \in 1 .. Len(lines) : lines[i].req = r}

Init == asked = <<>> /\ lines = <<>>

Ask ==
  /\ \E kind \in {"serial", "download"} : asked' = Append(asked, kind)
  /\ UNCHANGED lines

\* A request is due when it has no answer and none of those asked before it
\* that are served in turn is still waiting.
Due(r) ==
  /\ Answers(r) = {}
  /\ \A q \in 1 .. r - 1 : asked[q] = "serial" => Answers(q) # {}

\* An accepted download has nothing before it that waits, not even a download.
Serve(r) ==
  /\ Due(r)
  /\ asked[r] = "download" => \A q \in 1 .. r - 1 : Answers(q) # {}
  /\ lines' = Append(lines, [req |-> r, refused |-> FALSE])
  /\ UNCHANGED asked

\* A request is refused on account of an earlier download that was not.
Refuse(r) ==
  /\ Due(r)
  /\ \E d \in 1 .. r - 1 : /\ asked[d] = "download"
                           /\ \A i \in Answers(d) : ~lines[i].refused
  /\ lines' = Append(lines, [req |-> r, refused |-> TRUE])
  /\ UNCHANGED asked

\* A line that answers nothing.
Chatter ==
  /\ lines' = Append(lines, [req |-> 0, refused |-> FALSE])
  /\ UNCHANGED asked

Next == Ask \/ Chatter \/ \E r \in 1 .. Len(asked) : Serve(r) \/ Refuse(r)

Spec == Init /\ [][Next]_vars
=============================================================================
