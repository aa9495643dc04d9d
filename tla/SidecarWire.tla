---------------------------- MODULE SidecarWire ----------------------------
(***************************************************************************)
(* One exchange between the plugin and the sidecar, as text: the line a    *)
(* request becomes, how the sidecar decodes it and answers (protocol.py),  *)
(* and what the plugin's own JSON reader makes of the answer               *)
(* (SidecarProtocol.h).                                                    *)
(*                                                                         *)
(* The two programs never agree on the directory the frame blobs are in:   *)
(* each asks its own library for the temporary directory and refuses paths *)
(* outside of it.  A text is a sequence of kinds of characters, a JSON     *)
(* string a sequence of characters with the way each is written.           *)
(***************************************************************************)
EXTENDS Naturals, Sequences, FiniteSets

CONSTANTS
  Default,       \* the system's directory for temporary files, a text
  Directories,   \* the directories that exist; any process may write there
  Relative,      \* those of their names that are not absolute
  Links,         \* symbolic links: a function from names to directories
  Environments,  \* the environments of the host, see below
  ForeignLines,  \* lines that other programs send
  PathSize       \* the size of a path in the plugin's answer, less what
                 \* follows the temporary directory in it

TempVariables == {"TMPDIR", "TMP", "TEMP", "TEMPDIR"}

\* Characters: "plain" ones, the question mark, what JSON writes with a short
\* escape of its own ("quote", which stands for the backslash too, and "tab"),
\* other control characters, and "wide" ones: DEL and all beyond ASCII.
Characters == {"plain", "?", "quote", "tab", "control", "wide"}

\* A string on the wire: how each of its characters is written, and which it is.
Strings == Seq({"raw", "short", "u"} \X Characters)

ASSUME DefaultAssumption == Default \in Directories
ASSUME DirectoriesAssumption == Directories \subseteq Seq(Characters)
ASSUME EnvironmentsAssumption ==
  \A e \in Environments :
    /\ DOMAIN e \subseteq TempVariables
    /\ \A v \in DOMAIN e : e[v] \in Seq(Characters)
ASSUME PathSizeAssumption == PathSize \in Nat

VARIABLES
  environment,  \* the host's: a function from the variables that are set
  step,         \* where the exchange is
  sender,       \* who sent the request
  line,         \* the request on the wire
  answer,       \* the answer on the wire
  outcome       \* what the client has read

vars == <<environment, step, sender, line, answer, outcome>>

Nothing == [form |-> "nothing"]
NoOutcome == [read |-> "nothing"]

-----------------------------------------------------------------------------
(* Strings as JSON: written raw, with a short escape, or as \uXXXX.         *)

\* escapeJsonString works on bytes: those of wide characters stay as they are.
EscapeJsonString(text) ==
  [i \in DOMAIN text |->
     <<CASE text[i] \in {"quote", "tab"} -> "short"
         [] text[i] = "control" -> "u"
         [] OTHER -> "raw",
       text[i]>>]

\* encode_response: json.dumps writes printable ASCII only.
JsonDumps(text) ==
  [i \in DOMAIN text |->
     <<CASE text[i] \in {"quote", "tab"} -> "short"
         [] text[i] \in {"control", "wide"} -> "u"
         [] OTHER -> "raw",
       text[i]>>]

\* Neither reader accepts a string with raw control characters, and a raw
\* quote ends it.
WellFormed(string) ==
  \A i \in DOMAIN string :
    ~ (string[i][1] = "raw" /\ string[i][2] \in {"quote", "tab", "control"})

\* A line of another program is a JSON object only if its strings are JSON.
ASSUME ForeignLinesAssumption ==
  \A l \in ForeignLines :
    l.root \in Strings /\ (l.form = "object" => WellFormed(l.root))

JsonLoads(string) == [i \in DOMAIN string |-> string[i][2]]

\* The plugin's reader does not decode \uXXXX.
ParseString(string) ==
  [i \in DOMAIN string |-> IF string[i][1] = "u" THEN "?" ELSE string[i][2]]

\* The kinds of payload values the plugin can read (parseValue,
\* scalarToString): a number makes it refuse the whole line.
ScalarReadable(kind) == kind \in {"string", "list", "bool", "null"}

-----------------------------------------------------------------------------
(* The temporary directories. *)

Resolve(name) == IF name \in DOMAIN Links THEN Links[name] ELSE name

\* The first variable in this order with a usable value names the directory.
FirstOf(order, env, usable) ==
  LET found == {i \in DOMAIN order : order[i] \in DOMAIN env /\ env[order[i]] \in usable}
  IN IF found = {} THEN Default
     ELSE env[order[CHOOSE i \in found : \A j \in found : i <= j]]

\* std::filesystem::temp_directory_path, which fails if the result is not a
\* directory.
TempDirectoryPath ==
  FirstOf(<<"TMPDIR", "TMP", "TEMP", "TEMPDIR">>, environment,
          {environment[v] : v \in DOMAIN environment})

\* tempfile.gettempdir skips what it cannot use.
GetTempDir(env) ==
  FirstOf(<<"TMPDIR", "TEMP", "TMP">>, env, Directories)

\* Mutant of ShouldDropInheritedEnv: the directory is not handed down.
ShouldDropInheritedEnv_Temp(key) == key \in TempVariables

\* Families of variables the sidecar does not inherit.
ShouldDropInheritedEnv(key) ==
  key \in {"CORRIDORKEY_", "PYTHON", "VIRTUAL_ENV", "CONDA", "DYLD_",
           "LD_LIBRARY_PATH", "LD_PRELOAD", "PATH"}

SidecarEnvironment ==
  [v \in {w \in DOMAIN environment : ~ShouldDropInheritedEnv(w)} |-> environment[v]]

\* Whether a file of a job in this directory is in the temporary directory.
TempFrameBlobJobPath(root, tempRoot) ==
  root \notin Relative /\ Resolve(root) = Resolve(tempRoot)

\* The hash of a request, injective, stands for what is hashed.
RequestHash(root) == root

-----------------------------------------------------------------------------
(* The plugin sends a request. *)

PluginLine(command) ==
  [form |-> "object", id |-> "safe", command |-> command, payload |-> "object",
   fields |-> "good", quality |-> "known", despill |-> "number",
   root |-> EscapeJsonString(TempDirectoryPath), hash |-> RequestHash(TempDirectoryPath)]

PluginCommands == {"health", "status", "shutdown", "infer", "warmup", "cancel"}

\* renderTempRoot and validateInferRequestContract.
PluginMaySend(command) ==
  command = "infer" =>
    /\ TempDirectoryPath \in Directories
    /\ TempFrameBlobJobPath(TempDirectoryPath, TempDirectoryPath)

PluginSends ==
  /\ step = "idle"
  /\ \E command \in PluginCommands :
       PluginMaySend(command) /\ line' = PluginLine(command)
  /\ step' = "sent" /\ sender' = "plugin"
  /\ UNCHANGED <<environment, answer, outcome>>

\* No request is sent: the job has no directory, or one that is not absolute.
PluginRefuses ==
  /\ step = "idle" /\ ~PluginMaySend("infer")
  /\ step' = "done" /\ outcome' = [read |-> "no_request"]
  /\ UNCHANGED <<environment, sender, line, answer>>

OtherSends ==
  /\ step = "idle"
  /\ line' \in ForeignLines
  /\ step' = "sent" /\ sender' = "other"
  /\ UNCHANGED <<environment, answer, outcome>>

-----------------------------------------------------------------------------
(* The sidecar decodes and answers. *)

\* $ in the pattern of request ids matches before a trailing newline too.
ValidateRequestId(id) == id \in {"safe", "newline"}

Decoded == [status |-> "accepted"]
Fault == [status |-> "fault"]
Refusal(code, id) == [status |-> "refused", code |-> code, id |-> id]

ValidatedCommands == {"infer", "warmup", "cancel", "install_model",
                      "download_model", "cancel_download", "model_status"}

\* _require_temp_frame_blob_path
PathAccepted(l) ==
  TempFrameBlobJobPath(JsonLoads(l.root), GetTempDir(SidecarEnvironment))

\* Mutant of Invalid: the errors of the validators lose the request.
Invalid_Anonymous(l) == Refusal("invalid_request", "null")

Invalid(l) == Refusal("invalid_request", l.id)

\* validate_infer_payload: a conversion lets the overflow of a despill
\* strength escape, after the fields before it and the paths were looked at
\* and before the hash is.
ValidateInfer(l) ==
  IF l.fields # "good" \/ l.quality # "known" \/ ~PathAccepted(l) THEN Invalid(l)
  ELSE IF l.despill = "huge" THEN Fault
  ELSE IF RequestHash(JsonLoads(l.root)) = l.hash THEN Decoded ELSE Invalid(l)

\* decode_request: from the id on, a refusal names the request.
DecodeRequest(l) ==
  IF l.form = "text" \/ ~WellFormed(l.root) THEN Refusal("malformed_json", "null")
  ELSE IF l.form = "value" \/ ~ValidateRequestId(l.id) THEN Refusal("invalid_request", "null")
  ELSE IF l.command = "none" \/ l.payload # "object" THEN Invalid(l)
  ELSE IF l.command = "infer" THEN ValidateInfer(l)
  ELSE IF l.command \in ValidatedCommands /\ l.fields # "good" THEN Invalid(l)
  ELSE Decoded

\* _decode_error_diagnostics looks a list up in a set of qualities.
DiagnosticsFail(l) ==
  l.form = "object" /\ l.command = "infer" /\ l.payload = "object" /\ l.quality = "list"

\* The kinds of values in the payloads of the sidecar: its numbers and truth
\* values are written as strings.
Kinds == {"string", "list"}

MakeResponse(id, ok, code, root) ==
  [id |-> id, ok |-> ok, code |-> code, kinds |-> Kinds, root |-> JsonDumps(root)]

InternalError == MakeResponse("null", FALSE, "internal_error", <<>>)

\* Mutant of OutputRoot: the outputs are named by their resolved directory.
OutputRoot_Resolved(l) == Resolve(JsonLoads(l.root))

\* The outputs are named beside the source, as the request names it.
OutputRoot(l) == JsonLoads(l.root)

\* handle_line, and the server's loop for what is no ProtocolError.
SidecarAnswers ==
  LET decoded == DecodeRequest(line)
  IN /\ step = "sent"
     /\ CASE decoded.status = "fault" -> answer' = InternalError
          [] decoded.status = "refused" ->
               answer' = IF WellFormed(line.root) /\ DiagnosticsFail(line) THEN InternalError
                         ELSE MakeResponse(decoded.id, FALSE, decoded.code, <<>>)
          [] decoded.status = "accepted" ->
               IF line.command \in ValidatedCommands \cup PluginCommands
               THEN \/ answer' = MakeResponse(line.id, TRUE, "none",
                                   IF line.command = "infer" THEN OutputRoot(line) ELSE <<>>)
                    \/ /\ line.command \in {"infer", "warmup", "install_model", "download_model"}
                       /\ answer' = MakeResponse(line.id, FALSE, "failure", <<>>)
               ELSE answer' = MakeResponse(line.id, FALSE, "unknown_command", <<>>)
     /\ step' = "answered"
     /\ UNCHANGED <<environment, sender, line, outcome>>

-----------------------------------------------------------------------------
(* The client reads the answer. *)

IsSafeRequestId(id) == id = "safe"

\* decodeResponse: null is an id of its own.
DecodesResponse(a) ==
  /\ \A kind \in a.kinds : ScalarReadable(kind)
  /\ WellFormed(a.root)
  /\ a.id = "null" \/ IsSafeRequestId(a.id)

\* copyRuntimeString: a path that is too long loses its end.
CopyRuntimeString(root) == IF Len(root) > PathSize THEN SubSeq(root, 1, PathSize) ELSE root

\* validateResponseFrameBlobPath compares the names, whatever they resolve to.
PathInJob(root) == root = TempDirectoryPath

ClientReads ==
  LET root == CopyRuntimeString(ParseString(answer.root))
  IN /\ step = "answered" /\ sender = "plugin"
     /\ outcome' =
          IF ~DecodesResponse(answer) \/ answer.id # line.id THEN [read |-> "protocol_error"]
          ELSE IF ~answer.ok THEN [read |-> "failure"]
          ELSE IF line.command = "infer" /\ ~PathInJob(root) THEN [read |-> "escaped"]
          ELSE [read |-> "success"]
     /\ step' = "done"
     /\ UNCHANGED <<environment, sender, line, answer>>

Init ==
  /\ environment \in Environments
  /\ step = "idle" /\ sender = "none" /\ line = Nothing /\ answer = Nothing /\ outcome = NoOutcome

Next == PluginSends \/ PluginRefuses \/ OtherSends \/ SidecarAnswers \/ ClientReads

Spec == Init /\ [][Next]_vars

-----------------------------------------------------------------------------
(* Properties. *)

\* The variables keep their types; the plugin sends no raw control character
\* and no answer of the sidecar holds anything but ASCII.
TypeOK ==
  /\ environment \in Environments
  /\ step \in {"idle", "sent", "answered", "done"}
  /\ sender \in {"none", "plugin", "other"}
  /\ sender # "none" =>
       /\ line.root \in Strings
       /\ sender = "plugin" => WellFormed(line.root)
  /\ answer # Nothing =>
       /\ answer.id \in {"null", "safe", "newline"} /\ answer.ok \in BOOLEAN
       /\ \A i \in DOMAIN answer.root : answer.root[i] # <<"raw", "wide">>
  /\ outcome.read \in {"nothing", "no_request", "protocol_error", "failure",
                       "escaped", "success"}

\* The environment leaves the two libraries no choice: TMPDIR is set, or the
\* variables both of them know name one directory.
Unambiguous ==
  \/ "TMPDIR" \in DOMAIN environment
  \/ /\ "TEMPDIR" \notin DOMAIN environment
     /\ \A v, w \in DOMAIN environment : Resolve(environment[v]) = Resolve(environment[w])

\* An inference the plugin asks for is not refused for the text of its paths,
\* whatever characters they are made of, if the environment is unambiguous.
RequestsArrive ==
  step \in {"answered", "done"} /\ sender = "plugin" /\ line.command = "infer" /\ Unambiguous =>
    answer.code \notin {"malformed_json", "invalid_request", "internal_error"}

\* The plugin finds the outputs of an inference that succeeded exactly if the
\* path needs no \uXXXX, which its reader does not decode, and fits its field.
PathsComeBack ==
  step = "done" /\ sender = "plugin" /\ line.command = "infer" /\ answer.ok =>
    LET root == TempDirectoryPath
    IN outcome.read = "success" <=>
         /\ \A i \in DOMAIN root : root[i] \notin {"control", "wide"}
         /\ Len(root) <= PathSize

\* An answer names the request it answers, unless the request has no valid id
\* or the sidecar failed on a line that the plugin does not send; the plugin
\* can read every answer it gets.
AnswersEcho ==
  /\ step \in {"answered", "done"} /\ answer # Nothing =>
       \/ answer.id = line.id
       \/ /\ answer.id = "null" /\ sender = "other"
          /\ \/ line.form # "object" \/ ~ValidateRequestId(line.id)
             \/ line.quality = "list" \/ line.despill = "huge"
  /\ step = "done" => outcome.read # "protocol_error"
=============================================================================
