--------------------------- MODULE MCSidecarWire ---------------------------
(* An instance of SidecarWire for model checking. *)
EXTENDS SidecarWire

Tmp == <<"plain">>
Other == <<"plain", "plain">>
Linked == <<"plain", "?">>
Long == <<"plain", "plain", "plain", "plain">>

\* One directory for each kind of character that is special to JSON.
Special == {<<"plain", c>> : c \in {"quote", "tab", "control", "wide"}}

MCDirectories == {Tmp, Other, Linked, Long, <<"?">>} \cup Special
MCRelative == {<<"?">>}
MCLinks == [n \in {Linked} |-> Other]

\* What a variable may hold: a directory, what is none, or nothing at all.
Values == MCDirectories \cup {<<"plain", "plain", "?">>, <<>>}

MCEnvironments ==
  {e \in UNION {[set -> Values] : set \in SUBSET TempVariables} :
     Cardinality(DOMAIN e) <= 2}

Plain == [form |-> "object", id |-> "safe", command |-> "infer", payload |-> "object",
          fields |-> "good", quality |-> "known", despill |-> "number",
          root |-> EscapeJsonString(Tmp), hash |-> Tmp]

MCForeignLines ==
  {[Plain EXCEPT !.form = f] : f \in {"text", "value"}}
    \cup {[Plain EXCEPT !.id = i, !.command = c, !.payload = p, !.fields = f] :
             i \in {"safe", "newline", "unsafe"},
             c \in {"infer", "health", "install_model", "mystery", "none"},
             p \in {"object", "other"}, f \in {"good", "bad"}}
    \cup {[Plain EXCEPT !.id = i, !.command = c, !.quality = q, !.despill = d] :
             i \in {"safe", "unsafe"}, c \in {"infer", "warmup"},
             q \in {"known", "unknown", "list"}, d \in {"number", "huge"}}
    \cup {[Plain EXCEPT !.root = EscapeJsonString(n)] : n \in Special}
=============================================================================
