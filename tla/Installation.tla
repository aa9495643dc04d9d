---------------------------- MODULE Installation ----------------------------
(***************************************************************************)
(* What becomes of a distribution (Distribution): it is brought to another *)
(* machine and its bundle is installed there, its sidecar installs models  *)
(* inside of it, and the uninstaller (packaging/uninstall_corridorkey_ofx. *)
(* py) removes it again.  The paths given to the uninstaller may hold      *)
(* something else, a removal may fail or be killed at any entry, and it    *)
(* may be called again.                                                    *)
(***************************************************************************)
EXTENDS Distribution

CONSTANTS
  Sidecars,  \* what may be in the directory of a separate sidecar
  UserRoots, \* what may be in the user data root
  Bundles    \* what may be in the place of the bundle

VARIABLES
  there,   \* the distribution has come to a machine
  place,   \* entries of "bundle", "sidecar" and "user"; "dir" is the directory itself
  args,    \* of the uninstaller
  phase,   \* what the uninstaller does next
  before,  \* the places when it was called
  torn,    \* a removal has failed or was killed
  said     \* how the last call ended

installer == <<there, place, args, phase, before, torn, said>>
vars == <<packager, installer>>

Purged == <<"models", "logs", "cache", "support-bundles">>

\* default: the user data root is the one that needs no mark.
Args == [purge : BOOLEAN, dry : BOOLEAN, default : BOOLEAN]

Phases == {"idle", "bundle", "sidecar", "root"} \cup Range(Purged)

TypeOK ==
  /\ there \in BOOLEAN
  /\ DOMAIN place = {"bundle", "sidecar", "user"}
  /\ \A p \in DOMAIN place : place[p] # {} => "dir" \in place[p]
  /\ args \in Args /\ phase \in Phases
  /\ DOMAIN before = DOMAIN place
  /\ torn \in BOOLEAN
  /\ said \in {"nothing", "refused", "ok", "failed"}

ASSUME PlacesAssumption ==
  \A S \in Sidecars \cup UserRoots \cup Bundles : S # {} => "dir" \in S

-----------------------------------------------------------------------------

Init ==
  /\ InitPackager
  /\ there = FALSE /\ place = [bundle |-> {}, sidecar |-> {}, user |-> {}]
  /\ args = [purge |-> FALSE, dry |-> TRUE, default |-> TRUE]
  /\ phase = "idle" /\ before = place /\ torn = FALSE /\ said = "nothing"

\* A finished distribution is brought to a machine that may hold anything at
\* the paths in question.
Deliver ==
  /\ ~there /\ step = 0 /\ dist.status = "written" /\ ~cut
  /\ there' = TRUE
  /\ place' \in [bundle : Bundles, sidecar : Sidecars, user : UserRoots]
  /\ UNCHANGED <<packager, args, phase, before, torn, said>>

\* Its bundle is copied to where the host looks for plugins; it brings models
\* if it has a runtime.
Install ==
  /\ there /\ phase = "idle" /\ place["bundle"] = {}
  /\ place' = [place EXCEPT !["bundle"] =
                 {"dir", "Info.plist", "sidecar"} \cup (IF dist.runtime = "ready" THEN {"model"} ELSE {})]
  /\ said' = "nothing"
  /\ UNCHANGED <<packager, there, args, phase, before, torn>>

\* A sidecar of the bundle installs a model in the model root next to it.
Use ==
  /\ {"dir", "sidecar", "model"} \subseteq place["bundle"] /\ "own model" \notin place["bundle"]
  /\ place' = [place EXCEPT !["bundle"] = @ \cup {"own model"}]
  /\ said' = "nothing"
  /\ UNCHANGED <<packager, there, args, phase, before, torn>>

\* Nothing, or something that carries our mark
IsOurs(p, mark) == place[p] = {} \/ mark \in place[p]

IsUserRoot(a) == a.default \/ "sentinel" \in place["user"]

Checked_UserRootLater(a) == IsOurs("bundle", "Info.plist") /\ IsOurs("sidecar", "server.py")

\* All that may be removed is looked at before anything is.
Checked(a) ==
  /\ IsOurs("bundle", "Info.plist") /\ IsOurs("sidecar", "server.py")
  /\ a.purge => IsUserRoot(a)

Ends(how) == phase' = "idle" /\ said' = how

Uninstall(a) ==
  /\ there /\ phase = "idle"
  /\ args' = a /\ before' = place
  /\ \/ ~Checked(a) /\ Ends("refused")
     \/ Checked(a) /\ a.dry /\ Ends("ok")
     \/ Checked(a) /\ ~a.dry /\ phase' = "bundle" /\ said' = "nothing"
  /\ UNCHANGED <<packager, there, place, torn>>

AfterSidecar == IF args.purge THEN Purged[1] ELSE "ok"

\* rmtree takes the entries in any order and the directory at last.
RemoveTree(p, next) ==
  /\ phase = p
  /\ \/ /\ \E e \in place[p] : (e = "dir" => place[p] = {"dir"})
                               /\ place' = [place EXCEPT ![p] = @ \ {e}]
        /\ UNCHANGED <<phase, said>>
     \/ /\ place[p] = {} /\ UNCHANGED place
        /\ IF next = "ok" THEN Ends("ok") ELSE phase' = next /\ UNCHANGED said
  /\ UNCHANGED <<packager, there, args, before, torn>>

\* _purge_user_data looks at the root once more, then removes one directory
\* after another.
Purge(n) ==
  /\ phase = Purged[n]
  /\ IF n = 1 /\ ~IsUserRoot(args) THEN Ends("refused") /\ UNCHANGED place
     ELSE /\ place' = [place EXCEPT !["user"] = @ \ {Purged[n]}]
          /\ phase' = IF n < Len(Purged) THEN Purged[n + 1] ELSE "root"
          /\ UNCHANGED said
  /\ UNCHANGED <<packager, there, args, before, torn>>

\* The root itself goes if nothing else is in it.
PurgeRoot ==
  /\ phase = "root"
  /\ place' = [place EXCEPT !["user"] = IF @ = {"dir"} THEN {} ELSE @]
  /\ Ends("ok")
  /\ UNCHANGED <<packager, there, args, before, torn>>

\* An OSError, which nothing catches, or a kill
Interrupted ==
  /\ phase # "idle"
  /\ Ends("failed") /\ torn' = TRUE
  /\ UNCHANGED <<packager, there, place, args, before>>

Next ==
  \/ ~there /\ PackagerStep /\ UNCHANGED installer
  \/ Deliver \/ Install \/ Use
  \/ \E a \in Args : Uninstall(a)
  \/ RemoveTree("bundle", "sidecar") \/ RemoveTree("sidecar", AfterSidecar)
  \/ \E n \in 1 .. Len(Purged) : Purge(n)
  \/ PurgeRoot \/ Interrupted

Spec == Init /\ [][Next]_vars

-----------------------------------------------------------------------------

\* A call of the uninstaller removes all that it was asked to or, if it
\* refuses, nothing; it never touches other entries of the user data root, or
\* any without the option to purge, wherever it is interrupted.
UninstallKeepsItsWord ==
  LET user == IF args.purge /\ ~args.dry THEN Range(Purged) ELSE {}
      kept == before["user"] \ user
  IN /\ kept \ {"dir"} \subseteq place["user"]
     /\ said = "refused" \/ (said = "ok" /\ args.dry) => place = before
     /\ said = "ok" /\ ~args.dry =>
          /\ place["bundle"] = {} /\ place["sidecar"] = {}
          /\ place["user"] = IF args.purge /\ kept = {"dir"} THEN {} ELSE kept

-----------------------------------------------------------------------------
(* The inductive invariant *)

\* How far an uninstallation is: it was checked before it began, the places it
\* has done with are empty, and of the user data root only the directories it
\* has come to are gone.
UninstallInv ==
  /\ TypeOK
  /\ ~there => phase = "idle" /\ said = "nothing" /\ before["user"] = {}
  /\ phase # "idle" =>
       /\ ~args.dry /\ said = "nothing"
       /\ args.purge => args.default \/ "sentinel" \in before["user"]
  /\ phase \in {"bundle", "sidecar"} => place["user"] = before["user"]
  /\ phase \notin {"idle", "bundle"} => place["bundle"] = {}
  /\ phase \notin {"idle", "bundle", "sidecar"} => args.purge /\ place["sidecar"] = {}
  /\ \A n \in 1 .. Len(Purged) :
       phase = Purged[n] =>
         place["user"] = before["user"] \ {Purged[k] : k \in 1 .. n - 1}
  /\ phase = "root" => place["user"] = before["user"] \ Range(Purged)
  /\ UninstallKeepsItsWord
=============================================================================
