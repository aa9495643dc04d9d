-------------------------- MODULE SidecarWireProofs --------------------------
(***************************************************************************)
(* Proofs about SidecarWire, for every environment, every set of           *)
(* directories and links and every line another program may send.          *)
(***************************************************************************)
EXTENDS SidecarWire, SequenceTheorems, TLAPS

-----------------------------------------------------------------------------
(* Texts as JSON. *)

(* What the plugin writes is JSON, and the sidecar reads the same text.    *)
LEMMA EscapedText ==
  ASSUME NEW t \in Seq(Characters)
  PROVE  /\ EscapeJsonString(t) \in Strings /\ WellFormed(EscapeJsonString(t))
         /\ JsonLoads(EscapeJsonString(t)) = t
<1> DEFINE s == EscapeJsonString(t)
           Way(c) == CASE c \in {"quote", "tab"} -> "short"
                       [] c = "control" -> "u"
                       [] OTHER -> "raw"
<1>1. Len(t) \in Nat /\ DOMAIN t = 1 .. Len(t) /\ \A i \in 1 .. Len(t) : t[i] \in Characters
  OBVIOUS
<1>2. \A c : Way(c) \in {"raw", "short", "u"}
  OBVIOUS
<1>3. \A c \in {"quote", "tab", "control"} : Way(c) # "raw"
  OBVIOUS
<1>4. s = [i \in 1 .. Len(t) |-> <<Way(t[i]), t[i]>>]
  BY <1>1 DEF EscapeJsonString
<1> HIDE DEF s, Way
<1>5. s \in [1 .. Len(t) -> {"raw", "short", "u"} \X Characters]
  BY <1>1, <1>2, <1>4
<1>6. s \in Strings
  BY <1>1, <1>5 DEF Strings
<1>7. \A i \in 1 .. Len(t) : s[i][1] = Way(t[i]) /\ s[i][2] = t[i]
  BY <1>4
<1>8. WellFormed(s)
  BY <1>3, <1>4, <1>7 DEF WellFormed
<1>9. JsonLoads(s) = t
  BY <1>1, <1>4, <1>7 DEF JsonLoads
<1> QED  BY <1>6, <1>8, <1>9 DEF s

(* The sidecar reads texts.                                                *)
LEMMA LoadedText ==
  ASSUME NEW s \in Strings
  PROVE  JsonLoads(s) \in Seq(Characters)
<1>1. /\ Len(s) \in Nat /\ DOMAIN s = 1 .. Len(s)
      /\ \A i \in 1 .. Len(s) : s[i] \in {"raw", "short", "u"} \X Characters
  BY DEF Strings
<1>2. \A i \in 1 .. Len(s) : s[i][2] \in Characters
  BY <1>1
<1>3. JsonLoads(s) \in [1 .. Len(s) -> Characters]
  BY <1>1, <1>2 DEF JsonLoads
<1> QED  BY <1>1, <1>3

(* What the sidecar writes is JSON in ASCII, and the plugin reads the same *)
(* text but for the characters that are written as \uXXXX.                 *)
LEMMA DumpedText ==
  ASSUME NEW t \in Seq(Characters)
  PROVE  /\ WellFormed(JsonDumps(t))
         /\ \A i \in DOMAIN JsonDumps(t) : JsonDumps(t)[i] # <<"raw", "wide">>
         /\ ParseString(JsonDumps(t)) \in Seq(Characters)
         /\ Len(ParseString(JsonDumps(t))) = Len(t)
         /\ \A i \in 1 .. Len(t) :
              ParseString(JsonDumps(t))[i] = IF t[i] \in {"control", "wide"} THEN "?" ELSE t[i]
<1> DEFINE s == JsonDumps(t)
           p == ParseString(s)
           Way(c) == CASE c \in {"quote", "tab"} -> "short"
                       [] c \in {"control", "wide"} -> "u"
                       [] OTHER -> "raw"
<1>1. Len(t) \in Nat /\ DOMAIN t = 1 .. Len(t) /\ \A i \in 1 .. Len(t) : t[i] \in Characters
  OBVIOUS
<1>2. /\ \A c \in {"quote", "tab", "control", "wide"} : Way(c) # "raw"
      /\ \A c : Way(c) = "u" <=> c \in {"control", "wide"}
  OBVIOUS
<1>3. s = [i \in 1 .. Len(t) |-> <<Way(t[i]), t[i]>>]
  BY <1>1 DEF JsonDumps
<1> HIDE DEF s, Way
<1>4. \A i \in 1 .. Len(t) : s[i] = <<Way(t[i]), t[i]>> /\ s[i][1] = Way(t[i]) /\ s[i][2] = t[i]
  BY <1>3
<1>5. DOMAIN s = 1 .. Len(t)
  BY <1>3
<1>6. WellFormed(s)
  BY <1>2, <1>4, <1>5 DEF WellFormed
<1>7. \A i \in DOMAIN s : s[i] # <<"raw", "wide">>
  BY <1>2, <1>4, <1>5
<1>8. p = [i \in 1 .. Len(t) |-> IF t[i] \in {"control", "wide"} THEN "?" ELSE t[i]]
  BY <1>2, <1>4, <1>5 DEF ParseString
<1> HIDE DEF p
<1>9. "?" \in Characters
  BY DEF Characters
<1>10. p \in [1 .. Len(t) -> Characters]
  BY <1>1, <1>8, <1>9
<1>11. p \in Seq(Characters) /\ Len(p) = Len(t)
  BY <1>1, <1>10, LenProperties
<1> QED  BY <1>6, <1>7, <1>8, <1>11 DEF s, p

(* The plugin recognises a path that travelled to the sidecar and back      *)
(* exactly if nothing of it was written as \uXXXX and it fits its field.   *)
LEMMA PathBack ==
  ASSUME NEW t \in Seq(Characters)
  PROVE  CopyRuntimeString(ParseString(JsonDumps(t))) = t
           <=> /\ \A i \in DOMAIN t : t[i] \notin {"control", "wide"}
               /\ Len(t) <= PathSize
<1> DEFINE p == ParseString(JsonDumps(t))
<1>1. /\ p \in Seq(Characters) /\ Len(p) = Len(t)
      /\ \A i \in 1 .. Len(t) : p[i] = IF t[i] \in {"control", "wide"} THEN "?" ELSE t[i]
  BY DumpedText
<1>2. /\ Len(t) \in Nat /\ DOMAIN t = 1 .. Len(t) /\ PathSize \in Nat
      /\ p \in [1 .. Len(t) -> Characters] /\ t \in [1 .. Len(t) -> Characters]
  BY <1>1, PathSizeAssumption
<1> HIDE DEF p
<1>3. CASE Len(t) > PathSize
  <2>1. CopyRuntimeString(p) = SubSeq(p, 1, PathSize)
    BY <1>1, <1>3 DEF CopyRuntimeString
  <2>2. Len(SubSeq(p, 1, PathSize)) = PathSize
    BY <1>1, <1>2, <1>3, SubSeqProperties
  <2>3. CopyRuntimeString(p) # t
    <3>1. SubSeq(p, 1, PathSize) = t => PathSize = Len(t)
      BY <2>2
    <3>2. PathSize # Len(t)
      <4>1. Len(t) \in Int /\ PathSize \in Int
        BY <1>2
      <4> QED  BY <1>3, <4>1
    <3> QED  BY <2>1, <3>1, <3>2
  <2> QED  BY <1>2, <1>3, <2>3 DEF p
<1>4. CASE ~(Len(t) > PathSize)
  <2>1. CopyRuntimeString(p) = p
    BY <1>1, <1>4 DEF CopyRuntimeString
  <2>2. p = t <=> \A i \in 1 .. Len(t) : p[i] = t[i]
    BY <1>2
  <2>3. \A i \in 1 .. Len(t) : p[i] = t[i] <=> t[i] \notin {"control", "wide"}
    BY <1>1
  <2>4. CopyRuntimeString(p) = t <=> \A i \in DOMAIN t : t[i] \notin {"control", "wide"}
    BY <1>2, <2>1, <2>2, <2>3
  <2> QED  BY <1>2, <1>4, <2>4 DEF p
<1> QED  BY <1>3, <1>4

-----------------------------------------------------------------------------
(* The temporary directories. *)

(* A directory is found by the first variable that names one: if there is  *)
(* such a variable in the order, the first one exists.                      *)
LEMMA FirstExists ==
  ASSUME NEW found \in SUBSET (1 .. 4), found # {}
  PROVE  (CHOOSE i \in found : \A j \in found : i <= j) \in found
<1>1. \A i \in found : i = 1 \/ i = 2 \/ i = 3 \/ i = 4
  OBVIOUS
<1>2. \E i \in found : \A j \in found : i <= j
  <2>1. CASE 1 \in found
    BY <1>1, <2>1
  <2>2. CASE 1 \notin found /\ 2 \in found
    BY <1>1, <2>2
  <2>3. CASE 1 \notin found /\ 2 \notin found /\ 3 \in found
    BY <1>1, <2>3
  <2>4. CASE 1 \notin found /\ 2 \notin found /\ 3 \notin found /\ 4 \in found
    BY <1>1, <2>4
  <2> QED  BY <1>1, <2>1, <2>2, <2>3, <2>4
<1> QED  BY <1>2

(* What the search returns: the default if no variable of the order is     *)
(* usable, or else the value of one that is; the first one, if it is.      *)
LEMMA FirstOfFound ==
  ASSUME NEW order, DOMAIN order \subseteq 1 .. 4, NEW env, NEW usable
  PROVE  /\ \/ /\ FirstOf(order, env, usable) = Default
               /\ \A i \in DOMAIN order : ~(order[i] \in DOMAIN env /\ env[order[i]] \in usable)
            \/ \E i \in DOMAIN order : /\ order[i] \in DOMAIN env /\ env[order[i]] \in usable
                                       /\ FirstOf(order, env, usable) = env[order[i]]
         /\ 1 \in DOMAIN order /\ order[1] \in DOMAIN env /\ env[order[1]] \in usable
              => FirstOf(order, env, usable) = env[order[1]]
<1> DEFINE found == {i \in DOMAIN order : order[i] \in DOMAIN env /\ env[order[i]] \in usable}
           least == CHOOSE i \in found : \A j \in found : i <= j
<1>1. found \in SUBSET (1 .. 4)
  OBVIOUS
<1>2. FirstOf(order, env, usable) = IF found = {} THEN Default ELSE env[order[least]]
  BY DEF FirstOf
<1>3. CASE found = {}
  BY <1>2, <1>3
<1>4. CASE found # {}
  <2> HIDE DEF found
  <2>1. least \in found
    BY <1>1, <1>4, FirstExists
  <2>2. 1 \in found => least = 1
    <3>1. \A i \in found : i \in Int /\ 1 <= i
      BY <1>1
    <3>2. 1 \in found => least <= 1
      <4>1. 1 \in found => \A j \in found : 1 <= j
        BY <3>1
      <4> QED  BY <4>1
    <3> QED  BY <2>1, <3>1, <3>2
  <2> HIDE DEF least
  <2>3. least \in DOMAIN order /\ order[least] \in DOMAIN env /\ env[order[least]] \in usable
    BY <2>1 DEF found
  <2>4. 1 \in DOMAIN order /\ order[1] \in DOMAIN env /\ env[order[1]] \in usable => 1 \in found
    BY DEF found
  <2> QED  BY <1>2, <1>4, <2>2, <2>3, <2>4
<1> QED  BY <1>3, <1>4

PluginOrder == <<"TMPDIR", "TMP", "TEMP", "TEMPDIR">>
SidecarOrder == <<"TMPDIR", "TEMP", "TMP">>

(* The sidecar inherits the variables that name the directory.             *)
LEMMA EnvironmentInherited ==
  ASSUME environment \in Environments
  PROVE  /\ DOMAIN SidecarEnvironment = DOMAIN environment
         /\ \A v \in DOMAIN environment : SidecarEnvironment[v] = environment[v]
<1>1. \A v \in TempVariables : ~ShouldDropInheritedEnv(v)
  BY DEF TempVariables, ShouldDropInheritedEnv
<1>2. DOMAIN environment \subseteq TempVariables
  BY EnvironmentsAssumption
<1> QED  BY <1>1, <1>2 DEF SidecarEnvironment

(* The directories of the two programs.                                    *)
LEMMA PluginDirectory ==
  ASSUME environment \in Environments
  PROVE  /\ TempDirectoryPath \in Seq(Characters)
         /\ \/ TempDirectoryPath = Default /\ DOMAIN environment = {}
            \/ \E v \in DOMAIN environment : TempDirectoryPath = environment[v]
         /\ "TMPDIR" \in DOMAIN environment => TempDirectoryPath = environment["TMPDIR"]
<1> DEFINE usable == {environment[v] : v \in DOMAIN environment}
           order == PluginOrder
<1>1. /\ DOMAIN order = 1 .. 4 /\ order[1] = "TMPDIR" /\ order[2] = "TMP"
      /\ order[3] = "TEMP" /\ order[4] = "TEMPDIR"
  BY DEF PluginOrder
<1>2. TempDirectoryPath = FirstOf(order, environment, usable)
  BY DEF TempDirectoryPath, PluginOrder
<1>3. \A v \in DOMAIN environment : environment[v] \in usable
  OBVIOUS
<1>4. /\ 1 \in DOMAIN order /\ 2 \in DOMAIN order /\ 3 \in DOMAIN order /\ 4 \in DOMAIN order
      /\ DOMAIN order \subseteq 1 .. 4
  BY <1>1
<1> HIDE DEF order, usable
<1>5. \/ /\ TempDirectoryPath = Default
         /\ \A i \in DOMAIN order : ~(order[i] \in DOMAIN environment /\ environment[order[i]] \in usable)
      \/ \E i \in DOMAIN order : /\ order[i] \in DOMAIN environment
                                 /\ TempDirectoryPath = environment[order[i]]
  BY <1>2, <1>4, FirstOfFound
<1>6. "TMPDIR" \in DOMAIN environment => TempDirectoryPath = environment["TMPDIR"]
  BY <1>1, <1>2, <1>3, <1>4, FirstOfFound
<1>7. \/ TempDirectoryPath = Default /\ DOMAIN environment = {}
      \/ \E v \in DOMAIN environment : TempDirectoryPath = environment[v]
  <2>1. ASSUME \A i \in DOMAIN order :
                 ~(order[i] \in DOMAIN environment /\ environment[order[i]] \in usable)
        PROVE  DOMAIN environment = {}
    <3>1. /\ "TMPDIR" \notin DOMAIN environment /\ "TMP" \notin DOMAIN environment
          /\ "TEMP" \notin DOMAIN environment /\ "TEMPDIR" \notin DOMAIN environment
      BY <1>1, <1>3, <1>4, <2>1
    <3> QED  BY <3>1, EnvironmentsAssumption DEF TempVariables
  <2> QED  BY <1>5, <2>1
<1>8. TempDirectoryPath \in Seq(Characters)
  BY <1>7, DefaultAssumption, DirectoriesAssumption, EnvironmentsAssumption
<1> QED  BY <1>6, <1>7, <1>8

LEMMA SidecarDirectory ==
  ASSUME environment \in Environments
  PROVE  LET d == GetTempDir(SidecarEnvironment)
         IN /\ \/ /\ d = Default
                  /\ \A v \in DOMAIN environment :
                       v \in {"TMPDIR", "TEMP", "TMP"} => environment[v] \notin Directories
               \/ \E v \in DOMAIN environment : d = environment[v]
            /\ "TMPDIR" \in DOMAIN environment /\ environment["TMPDIR"] \in Directories
                 => d = environment["TMPDIR"]
<1> DEFINE order == SidecarOrder
           env == SidecarEnvironment
           d == GetTempDir(env)
<1>1. /\ DOMAIN order = 1 .. 3 /\ order[1] = "TMPDIR" /\ order[2] = "TEMP" /\ order[3] = "TMP"
  BY DEF SidecarOrder
<1>2. d = FirstOf(order, env, Directories)
  BY DEF GetTempDir, SidecarOrder
<1>3. /\ 1 \in DOMAIN order /\ 2 \in DOMAIN order /\ 3 \in DOMAIN order
      /\ DOMAIN order \subseteq 1 .. 4
  BY <1>1
<1>4. /\ DOMAIN env = DOMAIN environment
      /\ \A v \in DOMAIN environment : env[v] = environment[v]
  BY EnvironmentInherited
<1> HIDE DEF order, env, d
<1>5. \/ /\ d = Default
         /\ \A i \in DOMAIN order : ~(order[i] \in DOMAIN env /\ env[order[i]] \in Directories)
      \/ \E i \in DOMAIN order : /\ order[i] \in DOMAIN env
                                 /\ d = env[order[i]]
  BY <1>2, <1>3, FirstOfFound
<1>6. "TMPDIR" \in DOMAIN env /\ env["TMPDIR"] \in Directories => d = env["TMPDIR"]
  BY <1>1, <1>2, <1>3, FirstOfFound
<1>7. \/ /\ d = Default
         /\ \A v \in DOMAIN environment :
              v \in {"TMPDIR", "TEMP", "TMP"} => environment[v] \notin Directories
      \/ \E v \in DOMAIN environment : d = environment[v]
  BY <1>1, <1>3, <1>4, <1>5
<1> QED  BY <1>4, <1>6, <1>7 DEF d, env

(* If the environment leaves the two libraries no choice, the sidecar       *)
(* accepts the directory the plugin chose, if it could be used at all.     *)
LEMMA OneDirectory ==
  ASSUME environment \in Environments, Unambiguous, TempDirectoryPath \in Directories
  PROVE  Resolve(TempDirectoryPath) = Resolve(GetTempDir(SidecarEnvironment))
<1>1. CASE "TMPDIR" \in DOMAIN environment
  BY <1>1, PluginDirectory, SidecarDirectory
<1>2. CASE "TMPDIR" \notin DOMAIN environment
  <2>1. /\ "TEMPDIR" \notin DOMAIN environment
        /\ \A v, w \in DOMAIN environment : Resolve(environment[v]) = Resolve(environment[w])
    BY <1>2 DEF Unambiguous
  <2>2. DOMAIN environment \subseteq {"TEMP", "TMP"}
    BY <1>2, <2>1, EnvironmentsAssumption DEF TempVariables
  <2>3. CASE DOMAIN environment = {}
    BY <2>3, PluginDirectory, SidecarDirectory
  <2>4. CASE DOMAIN environment # {}
    <3>1. PICK v \in DOMAIN environment : TempDirectoryPath = environment[v]
      BY <2>4, PluginDirectory
    <3>2. PICK w \in DOMAIN environment : GetTempDir(SidecarEnvironment) = environment[w]
      BY <2>2, <3>1, SidecarDirectory
    <3> QED  BY <2>1, <3>1, <3>2
  <2> QED  BY <2>3, <2>4
<1> QED  BY <1>1, <1>2

-----------------------------------------------------------------------------
(* The exchange. *)

(* What is known of an answer, whoever asked.                               *)
Answered ==
  /\ answer.ok \in BOOLEAN /\ answer.kinds = Kinds
  /\ answer.id \in {"null", "safe", "newline"}
  /\ WellFormed(answer.root)
  /\ \A i \in DOMAIN answer.root : answer.root[i] # <<"raw", "wide">>
  /\ \/ answer.id = line.id
     \/ /\ answer.id = "null" /\ sender = "other"
        /\ \/ line.form # "object" \/ ~ValidateRequestId(line.id)
           \/ line.quality = "list" \/ line.despill = "huge"
  /\ sender = "plugin" /\ line.command = "infer" =>
       /\ answer.ok => answer.root = JsonDumps(TempDirectoryPath)
       /\ Unambiguous =>
            answer.code \notin {"malformed_json", "invalid_request", "internal_error"}

(* What is known of a request of the plugin.                                *)
Requested ==
  \E command \in PluginCommands :
    /\ line = [form |-> "object", id |-> "safe", command |-> command, payload |-> "object",
               fields |-> "good", quality |-> "known", despill |-> "number",
               root |-> EscapeJsonString(TempDirectoryPath),
               hash |-> RequestHash(TempDirectoryPath)]
    /\ command = "infer" =>
         TempDirectoryPath \in Directories /\ TempDirectoryPath \notin Relative

(* What is known of an exchange that is over.                               *)
Finished ==
  \/ sender = "none" /\ outcome.read = "no_request"
  \/ /\ sender = "plugin" /\ outcome.read \in {"failure", "escaped", "success"}
     /\ line.command = "infer" /\ answer.ok =>
          (outcome.read = "success"
             <=> CopyRuntimeString(ParseString(answer.root)) = TempDirectoryPath)

WireInv ==
  /\ environment \in Environments
  /\ step \in {"idle", "sent", "answered", "done"}
  /\ sender \in {"none", "plugin", "other"}
  /\ step = "idle" => sender = "none"
  /\ step \in {"sent", "answered"} => sender # "none"
  /\ step \in {"idle", "sent"} \/ sender = "none" => answer = Nothing
  /\ sender = "plugin" => Requested
  /\ sender = "other" => line \in ForeignLines
  /\ step \in {"answered", "done"} /\ sender # "none" => Answered
  /\ step # "done" => outcome = NoOutcome
  /\ step = "done" => Finished

(* The state the actions leave alone.                                       *)
LEMMA SameDirectory ==
  ASSUME environment' = environment
  PROVE  TempDirectoryPath' = TempDirectoryPath /\ (Unambiguous' <=> Unambiguous)
BY DEF TempDirectoryPath, Unambiguous

LEMMA SendsStep ==
  ASSUME WireInv, PluginSends \/ PluginRefuses \/ OtherSends
  PROVE  WireInv'
<1>1. /\ step = "idle" /\ environment' = environment /\ answer' = answer /\ answer = Nothing
      /\ sender = "none" /\ outcome = NoOutcome
  BY DEF WireInv, PluginSends, PluginRefuses, OtherSends
<1>2. TempDirectoryPath' = TempDirectoryPath
  BY <1>1, SameDirectory
<1>3. CASE PluginSends
  <2>1. /\ step' = "sent" /\ sender' = "plugin" /\ outcome' = outcome
    BY <1>3 DEF PluginSends
  <2>2. PICK command \in PluginCommands : PluginMaySend(command) /\ line' = PluginLine(command)
    BY <1>3 DEF PluginSends
  <2>3. Requested'
    BY <1>2, <2>2 DEF Requested, PluginMaySend, PluginLine, TempFrameBlobJobPath
  <2> QED  BY <1>1, <2>1, <2>3 DEF WireInv
<1>4. CASE PluginRefuses
  <2>1. /\ step' = "done" /\ sender' = sender /\ outcome' = [read |-> "no_request"]
    BY <1>4 DEF PluginRefuses
  <2>2. Finished'
    BY <1>1, <2>1 DEF Finished
  <2> QED  BY <1>1, <2>1, <2>2 DEF WireInv
<1>5. CASE OtherSends
  <2>1. step' = "sent" /\ sender' = "other" /\ outcome' = outcome /\ line' \in ForeignLines
    BY <1>5 DEF OtherSends
  <2> QED  BY <1>1, <2>1 DEF WireInv
<1> QED  BY <1>3, <1>4, <1>5

(* The paths in an unambiguous request pass, and the request with them.    *)
LEMMA PluginDecoded ==
  ASSUME WireInv, sender = "plugin", step = "sent"
  PROVE  /\ WellFormed(line.root) /\ JsonLoads(line.root) = TempDirectoryPath
         /\ line.id = "safe" /\ line.command \in PluginCommands /\ line.quality = "known"
         /\ line.despill = "number"
         /\ \/ DecodeRequest(line) = Decoded
            \/ DecodeRequest(line) = Refusal("invalid_request", "safe")
         /\ line.command = "infer" /\ Unambiguous => DecodeRequest(line) = Decoded
<1>1. /\ environment \in Environments /\ TempDirectoryPath \in Seq(Characters)
      /\ Requested
  BY PluginDirectory DEF WireInv
<1>2. /\ WellFormed(EscapeJsonString(TempDirectoryPath))
      /\ JsonLoads(EscapeJsonString(TempDirectoryPath)) = TempDirectoryPath
  BY <1>1, EscapedText
<1>3. /\ WellFormed(line.root) /\ JsonLoads(line.root) = TempDirectoryPath
      /\ line.form = "object" /\ line.id = "safe" /\ line.command \in PluginCommands
      /\ line.payload = "object" /\ line.fields = "good" /\ line.quality = "known"
      /\ line.despill = "number" /\ line.hash = RequestHash(TempDirectoryPath)
      /\ line.command = "infer" =>
           TempDirectoryPath \in Directories /\ TempDirectoryPath \notin Relative
  BY <1>1, <1>2 DEF Requested
<1>4. line.command = "infer" /\ Unambiguous => PathAccepted(line)
  BY <1>1, <1>3, OneDirectory DEF PathAccepted, TempFrameBlobJobPath
<1>5. DecodeRequest(line) = IF line.command = "infer" THEN ValidateInfer(line) ELSE Decoded
  <2>1. line.command # "none"
    BY <1>3 DEF PluginCommands
  <2> QED  BY <1>3, <2>1 DEF DecodeRequest, ValidateRequestId
<1>6. ValidateInfer(line) = IF PathAccepted(line) THEN Decoded ELSE Invalid(line)
  BY <1>3 DEF ValidateInfer, RequestHash
<1>7. Invalid(line) = Refusal("invalid_request", "safe")
  BY <1>3 DEF Invalid
<1> QED  BY <1>3, <1>4, <1>5, <1>6, <1>7

(* The answers the sidecar makes can be read, and hold ASCII only.         *)
LEMMA ResponseFields ==
  ASSUME NEW id, NEW ok, NEW code, NEW root \in Seq(Characters),
         NEW a, a = MakeResponse(id, ok, code, root)
  PROVE  /\ a.id = id /\ a.ok = ok /\ a.code = code /\ a.kinds = Kinds
         /\ a.root = JsonDumps(root) /\ WellFormed(a.root)
         /\ \A i \in DOMAIN a.root : a.root[i] # <<"raw", "wide">>
BY DumpedText DEF MakeResponse

LEMMA EmptyText == <<>> \in Seq(Characters)
OBVIOUS

(* The answer to a request that is accepted, and to one that is refused.    *)
LEMMA AnswerOfAccepted ==
  ASSUME SidecarAnswers, DecodeRequest(line).status = "accepted"
  PROVE  \/ answer' = MakeResponse(line.id, TRUE, "none",
                         IF line.command = "infer" THEN OutputRoot(line) ELSE <<>>)
         \/ answer' = MakeResponse(line.id, FALSE, "failure", <<>>)
         \/ /\ line.command \notin ValidatedCommands \cup PluginCommands
            /\ answer' = MakeResponse(line.id, FALSE, "unknown_command", <<>>)
<1>1. IF line.command \in ValidatedCommands \cup PluginCommands
      THEN \/ answer' = MakeResponse(line.id, TRUE, "none",
                           IF line.command = "infer" THEN OutputRoot(line) ELSE <<>>)
           \/ answer' = MakeResponse(line.id, FALSE, "failure", <<>>)
      ELSE answer' = MakeResponse(line.id, FALSE, "unknown_command", <<>>)
  BY Zenon DEF SidecarAnswers
<1> QED  BY <1>1

LEMMA AnswerOfRefused ==
  ASSUME SidecarAnswers, NEW code, NEW id, DecodeRequest(line) = Refusal(code, id)
  PROVE  \/ answer' = InternalError /\ DiagnosticsFail(line)
         \/ answer' = MakeResponse(id, FALSE, code, <<>>)
<1> DEFINE decoded == DecodeRequest(line)
<1>1. decoded.status = "refused" /\ decoded.code = code /\ decoded.id = id
  BY DEF Refusal
<1> HIDE DEF decoded
<1>2. answer' = IF WellFormed(line.root) /\ DiagnosticsFail(line) THEN InternalError
                ELSE MakeResponse(decoded.id, FALSE, decoded.code, <<>>)
  BY <1>1 DEF SidecarAnswers, decoded
<1> QED  BY <1>1, <1>2

(* What the sidecar may answer to the plugin.                               *)
LEMMA AnswerToPlugin ==
  ASSUME WireInv, sender = "plugin", SidecarAnswers
  PROVE  Answered'
<1>1. /\ step = "sent" /\ environment' = environment /\ line' = line /\ sender' = sender
  BY DEF SidecarAnswers
<1>2. /\ TempDirectoryPath' = TempDirectoryPath /\ (Unambiguous' <=> Unambiguous)
      /\ TempDirectoryPath \in Seq(Characters)
  BY <1>1, SameDirectory, PluginDirectory DEF WireInv
<1>3. /\ WellFormed(line.root) /\ JsonLoads(line.root) = TempDirectoryPath
      /\ line.id = "safe" /\ line.command \in PluginCommands /\ line.quality = "known"
      /\ \/ DecodeRequest(line) = Decoded
         \/ DecodeRequest(line) = Refusal("invalid_request", "safe")
      /\ line.command = "infer" /\ Unambiguous => DecodeRequest(line) = Decoded
  BY <1>1, PluginDecoded
<1>4. ASSUME NEW ok \in BOOLEAN, NEW code, NEW root \in Seq(Characters),
             answer' = MakeResponse("safe", ok, code, root),
             line.command = "infer" =>
               /\ ok => root = TempDirectoryPath
               /\ Unambiguous =>
                    code \notin {"malformed_json", "invalid_request", "internal_error"}
      PROVE  Answered'
  <2>1. /\ answer'.id = "safe" /\ answer'.ok = ok /\ answer'.code = code
        /\ answer'.kinds = Kinds /\ answer'.root = JsonDumps(root) /\ WellFormed(answer'.root)
        /\ \A i \in DOMAIN answer'.root : answer'.root[i] # <<"raw", "wide">>
    BY <1>4, ResponseFields
  <2> QED  BY <1>1, <1>2, <1>3, <1>4, <2>1 DEF Answered
<1>5. CASE DecodeRequest(line) = Refusal("invalid_request", "safe")
  <2>1. ~DiagnosticsFail(line)
    BY <1>3 DEF DiagnosticsFail
  <2>2. answer' = MakeResponse("safe", FALSE, "invalid_request", <<>>)
    BY <1>3, <1>5, <2>1 DEF SidecarAnswers, Refusal
  <2>3. ~(line.command = "infer" /\ Unambiguous)
    BY <1>3, <1>5 DEF Decoded, Refusal
  <2> QED  BY <1>4, <2>2, <2>3, EmptyText
<1>6. CASE DecodeRequest(line) = Decoded
  <2>1. \/ answer' = MakeResponse("safe", TRUE, "none",
                        IF line.command = "infer" THEN OutputRoot(line) ELSE <<>>)
        \/ answer' = MakeResponse("safe", FALSE, "failure", <<>>)
    <3>1. DecodeRequest(line).status = "accepted"
      BY <1>6 DEF Decoded
    <3> QED  BY <1>3, <3>1, AnswerOfAccepted
  <2>2. OutputRoot(line) = TempDirectoryPath
    BY <1>3 DEF OutputRoot
  <2>3. CASE answer' = MakeResponse("safe", FALSE, "failure", <<>>)
    BY <1>4, <2>3, EmptyText
  <2>4. CASE answer' = MakeResponse("safe", TRUE, "none",
                         IF line.command = "infer" THEN OutputRoot(line) ELSE <<>>)
    <3>1. (IF line.command = "infer" THEN OutputRoot(line) ELSE <<>>) \in Seq(Characters)
      BY <1>2, <2>2, EmptyText
    <3> QED  BY <1>4, <2>2, <2>4, <3>1
  <2> QED  BY <2>1, <2>3, <2>4
<1> QED  BY <1>3, <1>5, <1>6

(* What it may answer to another program.                                   *)
LEMMA AnswerToOther ==
  ASSUME WireInv, sender = "other", SidecarAnswers
  PROVE  Answered'
<1>1. /\ step = "sent" /\ environment' = environment /\ line' = line /\ sender' = sender
      /\ line.root \in Strings /\ (line.form = "object" => WellFormed(line.root))
  BY ForeignLinesAssumption DEF SidecarAnswers, WireInv
<1> DEFINE Nameless == \/ line.form # "object" \/ ~ValidateRequestId(line.id)
                       \/ line.quality = "list" \/ line.despill = "huge"
<1>2. ASSUME NEW id, NEW ok \in BOOLEAN, NEW code, NEW root \in Seq(Characters),
             answer' = MakeResponse(id, ok, code, root),
             \/ id = line.id /\ ValidateRequestId(id)
             \/ id = "null" /\ Nameless
      PROVE  Answered'
  <2>1. id \in {"null", "safe", "newline"}
    BY <1>2 DEF ValidateRequestId
  <2> QED  BY <1>1, <1>2, <2>1, ResponseFields DEF Answered
<1>3. CASE DecodeRequest(line) = Fault
  <2>1. line.despill = "huge"
    BY <1>3 DEF DecodeRequest, ValidateInfer, Invalid, Refusal, Fault, Decoded
  <2>2. answer' = InternalError
    BY <1>3 DEF SidecarAnswers, Fault
  <2> QED  BY <1>2, <2>1, <2>2, EmptyText DEF InternalError
<1>4. ASSUME NEW code, NEW id, DecodeRequest(line) = Refusal(code, id),
             \/ id = line.id /\ ValidateRequestId(id)
             \/ id = "null" /\ Nameless
      PROVE  Answered'
  <2>1. \/ answer' = InternalError /\ DiagnosticsFail(line)
        \/ answer' = MakeResponse(id, FALSE, code, <<>>)
    BY <1>4, AnswerOfRefused
  <2>2. CASE answer' = InternalError /\ DiagnosticsFail(line)
    BY <1>2, <2>2, EmptyText DEF InternalError, DiagnosticsFail
  <2>3. CASE answer' = MakeResponse(id, FALSE, code, <<>>)
    BY <1>2, <1>4, <2>3, EmptyText
  <2> QED  BY <2>1, <2>2, <2>3
<1>5. CASE DecodeRequest(line) = Decoded /\ ValidateRequestId(line.id)
  <2>1. \/ answer' = MakeResponse(line.id, TRUE, "none",
                        IF line.command = "infer" THEN OutputRoot(line) ELSE <<>>)
        \/ answer' = MakeResponse(line.id, FALSE, "failure", <<>>)
        \/ answer' = MakeResponse(line.id, FALSE, "unknown_command", <<>>)
    <3>1. DecodeRequest(line).status = "accepted"
      BY <1>5 DEF Decoded
    <3> QED  BY <3>1, AnswerOfAccepted
  <2>2. OutputRoot(line) \in Seq(Characters)
    BY <1>1, LoadedText DEF OutputRoot
  <2>3. (IF line.command = "infer" THEN OutputRoot(line) ELSE <<>>) \in Seq(Characters)
    BY <2>2, EmptyText
  <2> QED  BY <1>2, <1>5, <2>1, <2>3, EmptyText
<1>6. \/ DecodeRequest(line) = Fault
      \/ DecodeRequest(line) = Decoded /\ ValidateRequestId(line.id)
      \/ DecodeRequest(line) = Refusal("invalid_request", line.id) /\ ValidateRequestId(line.id)
      \/ DecodeRequest(line) \in {Refusal("malformed_json", "null"), Refusal("invalid_request", "null")}
         /\ Nameless
  <2>1. CASE line.form = "text" \/ ~WellFormed(line.root)
    BY <1>1, <2>1 DEF DecodeRequest
  <2>2. CASE /\ ~(line.form = "text" \/ ~WellFormed(line.root))
             /\ line.form = "value" \/ ~ValidateRequestId(line.id)
    BY <2>2 DEF DecodeRequest
  <2>3. CASE ~(\/ line.form = "text" \/ ~WellFormed(line.root)
               \/ line.form = "value" \/ ~ValidateRequestId(line.id))
    BY <2>3 DEF DecodeRequest, ValidateInfer, Invalid
  <2> QED  BY <2>1, <2>2, <2>3
<1> QED  BY <1>3, <1>4, <1>5, <1>6

LEMMA AnswersStep ==
  ASSUME WireInv, SidecarAnswers
  PROVE  WireInv'
<1>1. /\ step = "sent" /\ step' = "answered"
      /\ UNCHANGED <<environment, sender, line, outcome>>
  BY DEF SidecarAnswers
<1>2. sender \in {"plugin", "other"}
  BY <1>1 DEF WireInv
<1>3. Answered'
  BY <1>2, AnswerToPlugin, AnswerToOther
<1>4. Requested' <=> Requested
  BY <1>1, SameDirectory DEF Requested
<1> QED  BY <1>1, <1>2, <1>3, <1>4 DEF WireInv

LEMMA ReadsStep ==
  ASSUME WireInv, ClientReads
  PROVE  WireInv'
<1>1. /\ step = "answered" /\ step' = "done" /\ sender = "plugin"
      /\ UNCHANGED <<environment, sender, line, answer>>
  BY DEF ClientReads
<1>2. Answered /\ Requested
  BY <1>1 DEF WireInv
<1>3. /\ (Requested' <=> Requested) /\ (Answered' <=> Answered)
      /\ TempDirectoryPath' = TempDirectoryPath
  BY <1>1, SameDirectory DEF Requested, Answered
<1>4. DecodesResponse(answer) /\ answer.id = line.id
  <2>1. answer.id = line.id /\ line.id = "safe"
    BY <1>1, <1>2 DEF Answered, Requested
  <2> QED  BY <1>2, <2>1 DEF Answered, DecodesResponse, IsSafeRequestId, ScalarReadable, Kinds
<1>5. Finished'
  <2> DEFINE root == CopyRuntimeString(ParseString(answer.root))
  <2>1. outcome' = IF ~answer.ok THEN [read |-> "failure"]
                   ELSE IF line.command = "infer" /\ ~(root = TempDirectoryPath)
                        THEN [read |-> "escaped"]
                   ELSE [read |-> "success"]
    BY <1>4 DEF ClientReads, PathInJob
  <2>2. root' = root
    BY <1>1
  <2> QED  BY <1>1, <1>3, <2>1, <2>2 DEF Finished
<1> QED  BY <1>1, <1>2, <1>3, <1>5 DEF WireInv

(* Every reachable state satisfies the invariant.                           *)
THEOREM WireInvariance == Spec => []WireInv
<1>1. Init => WireInv
  BY DEF Init, WireInv
<1>2. WireInv /\ [Next]_vars => WireInv'
  <2> SUFFICES ASSUME WireInv, [Next]_vars PROVE WireInv'
    OBVIOUS
  <2>1. CASE PluginSends \/ PluginRefuses \/ OtherSends
    BY <2>1, SendsStep
  <2>2. CASE SidecarAnswers
    BY <2>2, AnswersStep
  <2>3. CASE ClientReads
    BY <2>3, ReadsStep
  <2>4. CASE UNCHANGED vars
    <3>1. UNCHANGED <<environment, step, sender, line, answer, outcome>>
      BY <2>4 DEF vars
    <3>2. (Requested' <=> Requested) /\ (Answered' <=> Answered) /\ (Finished' <=> Finished)
      BY <3>1, SameDirectory DEF Requested, Answered, Finished
    <3> QED  BY <3>1, <3>2 DEF WireInv
  <2> QED  BY <2>1, <2>2, <2>3, <2>4 DEF Next
<1> QED  BY <1>1, <1>2, PTL DEF Spec

(* The variables keep their types.                                          *)
THEOREM WireTypes == Spec => []TypeOK
<1>1. WireInv => TypeOK
  <2> SUFFICES ASSUME WireInv PROVE TypeOK
    OBVIOUS
  <2>1. ASSUME sender = "plugin"
        PROVE  line.root \in Strings /\ WellFormed(line.root)
    <3>1. TempDirectoryPath \in Seq(Characters) /\ Requested
      BY <2>1, PluginDirectory DEF WireInv
    <3>2. line.root = EscapeJsonString(TempDirectoryPath)
      BY <3>1 DEF Requested
    <3> QED  BY <3>1, <3>2, EscapedText
  <2>2. sender = "other" => line.root \in Strings
    BY ForeignLinesAssumption DEF WireInv
  <2>3. answer # Nothing => Answered
    BY DEF WireInv
  <2>4. outcome.read \in {"nothing", "no_request", "protocol_error", "failure",
                          "escaped", "success"}
    BY DEF WireInv, Finished, NoOutcome
  <2> QED  BY <2>1, <2>2, <2>3, <2>4 DEF WireInv, TypeOK, Answered
<1> QED  BY <1>1, WireInvariance, PTL

(* If the environment names one temporary directory, no inference is        *)
(* refused for the text of its paths, whatever they are made of.           *)
THEOREM InferencesArrive == Spec => []RequestsArrive
<1>1. WireInv => RequestsArrive
  BY DEF WireInv, Answered, RequestsArrive
<1> QED  BY <1>1, WireInvariance, PTL

(* The plugin finds its outputs exactly if their path needs no \uXXXX and   *)
(* fits its field.                                                          *)
THEOREM PathsReturn == Spec => []PathsComeBack
<1>1. WireInv => PathsComeBack
  <2> SUFFICES ASSUME WireInv, step = "done", sender = "plugin", line.command = "infer", answer.ok
               PROVE  outcome.read = "success"
                        <=> /\ \A i \in DOMAIN TempDirectoryPath :
                                 TempDirectoryPath[i] \notin {"control", "wide"}
                            /\ Len(TempDirectoryPath) <= PathSize
    BY DEF PathsComeBack
  <2>1. Finished /\ Answered /\ TempDirectoryPath \in Seq(Characters)
    BY PluginDirectory DEF WireInv
  <2>2. outcome.read = "success"
          <=> CopyRuntimeString(ParseString(JsonDumps(TempDirectoryPath))) = TempDirectoryPath
    BY <2>1 DEF Finished, Answered
  <2> QED  BY <2>1, <2>2, PathBack
<1> QED  BY <1>1, WireInvariance, PTL

(* An answer names its request, and the plugin can read every answer.      *)
THEOREM AnswersNameTheirRequest == Spec => []AnswersEcho
<1>1. WireInv => AnswersEcho
  <2> SUFFICES ASSUME WireInv PROVE AnswersEcho
    OBVIOUS
  <2>1. answer # Nothing /\ step \in {"answered", "done"} => Answered
    BY DEF WireInv
  <2>2. step = "done" => outcome.read # "protocol_error"
    BY DEF WireInv, Finished
  <2> QED  BY <2>1, <2>2 DEF AnswersEcho, Answered
<1> QED  BY <1>1, WireInvariance, PTL
=============================================================================
