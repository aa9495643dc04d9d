--------------------------- MODULE InferContract ---------------------------
(***************************************************************************)
(* The request for an inference, as the plugin builds it from its          *)
(* parameters (CorridorKeyRunStubInfer, SidecarProtocol.h) and as the      *)
(* sidecar validates it (validate_infer_payload in protocol.py).           *)
(*                                                                         *)
(* Both sides keep lists of their own of what a field may hold.  A payload *)
(* is a function from field names to values; the request hash, FNV-1a on   *)
(* both sides, is taken to be injective and stands for the other fields.   *)
(***************************************************************************)
EXTENDS Integers

\* The tokens a choice parameter of the plugin stands for, by its value.
OutputModeToken(choice) ==
  CASE choice = 0 -> "processed_rgba"  [] choice = 1 -> "matte"
    [] choice = 2 -> "straight_fg"     [] choice = 3 -> "alpha_hint_view"
    [] choice = 4 -> "checker_comp"    [] choice = 5 -> "status"
    [] OTHER -> "invalid"

ScreenColorToken(choice) ==
  CASE choice = 0 -> "auto" [] choice = 1 -> "green" [] choice = 2 -> "blue"
    [] OTHER -> "invalid"

QualityToken(choice) ==
  CASE choice = 0 -> "draft_512" [] choice = 1 -> "high_1024"
    [] choice = 2 -> "full_2048" [] OTHER -> "invalid"

InputColorSpaceToken(choice) ==
  CASE choice = 0 -> "host_managed" [] choice = 1 -> "srgb_rec709"
    [] choice = 2 -> "linear" [] OTHER -> "invalid"

AlphaHintSourceToken(choice) ==
  CASE choice = 0 -> "external"    [] choice = 1 -> "source_alpha"
    [] choice = 2 -> "red_channel" [] choice = 3 -> "rough_fallback"
    [] OTHER -> "invalid"

BackendToken(choice) ==
  CASE choice = 0 -> "auto"      [] choice = 1 -> "torch_cuda"
    [] choice = 2 -> "torch_cpu" [] choice = 3 -> "torch_mps"
    [] choice = 4 -> "mlx"       [] OTHER -> "invalid"

-----------------------------------------------------------------------------
(* The despill strength, in hundred-thousandths; the text of the payload   *)
(* holds it in thousandths.                                                *)

Unit == 100000

IsValidDespillStrength(despill) == despill >= 0 /\ despill <= 10 * Unit

FormatContractDouble(despill) == (despill + 50) \div 100

-----------------------------------------------------------------------------
(* The plugin's side. *)

\* The request for a window and the files of a job, with the choices made
\* in the parameters of the plugin.
Contract(choices, window, job) ==
  [frame_id |-> job, job_id |-> job,
   render_window_x1 |-> window.x1, render_window_y1 |-> window.y1,
   render_window_x2 |-> window.x2, render_window_y2 |-> window.y2,
   source_frame_blob_path |-> <<job, "source">>,
   alpha_hint_frame_blob_path |-> <<job, "alpha_hint">>,
   alpha_hint_source |-> AlphaHintSourceToken(choices.hint),
   screen_color |-> ScreenColorToken(choices.screen),
   quality |-> QualityToken(choices.quality),
   input_color_space |-> InputColorSpaceToken(choices.colors),
   despill_strength |-> choices.despill,
   backend |-> BackendToken(choices.backend),
   output_mode |-> OutputModeToken(choices.mode)]

KnownOutputModes == {"processed_rgba", "matte", "straight_fg",
                     "alpha_hint_view", "checker_comp", "status"}
KnownScreenColors == {"auto", "green", "blue"}
KnownQualities == {"draft_512", "high_1024", "full_2048"}
KnownInputColorSpaces == {"host_managed", "srgb_rec709", "linear"}
KnownAlphaHintSources == {"external", "source_alpha", "red_channel", "rough_fallback"}
KnownBackends == {"auto", "torch_cuda", "torch_cpu", "torch_mps", "mlx", "stub"}

\* A path in a job directory has the directory and the file as its parts.
ValidInferRequestContract(c) ==
  /\ c.render_window_x2 > c.render_window_x1 /\ c.render_window_y2 > c.render_window_y1
  /\ c.source_frame_blob_path[1] = c.alpha_hint_frame_blob_path[1]
  /\ c.alpha_hint_source \in KnownAlphaHintSources
  /\ c.screen_color \in KnownScreenColors
  /\ c.quality \in KnownQualities
  /\ c.input_color_space \in KnownInputColorSpaces
  /\ IsValidDespillStrength(c.despill_strength)
  /\ c.backend \in KnownBackends
  /\ c.output_mode \in KnownOutputModes

\* The fields of the payload that are sent as well as hashed.
Payload(c) ==
  [f \in DOMAIN c |-> IF f = "despill_strength" THEN FormatContractDouble(c[f]) ELSE c[f]]

InferRequest(c) == [fields |-> Payload(c), request_hash |-> Payload(c)]

-----------------------------------------------------------------------------
(* The sidecar's side. *)

\* The request hash, required too, is a component of the request of its own.
INFER_REQUIRED_FIELDS ==
  {"frame_id", "job_id", "render_window_x1", "render_window_y1",
   "render_window_x2", "render_window_y2", "source_frame_blob_path",
   "alpha_hint_frame_blob_path", "alpha_hint_source", "screen_color", "quality",
   "input_color_space", "despill_strength", "backend", "output_mode"}

OUTPUT_MODES == {"processed_rgba", "matte", "straight_fg", "alpha_hint_view",
                 "checker_comp", "status"}
SCREEN_COLORS == {"auto", "green", "blue"}
QUALITIES == {"draft_512", "high_1024", "full_2048"}
INPUT_COLOR_SPACES == {"host_managed", "srgb_rec709", "linear"}
ALPHA_HINT_SOURCES == {"external", "source_alpha", "red_channel", "rough_fallback"}

\* Mutant of BACKENDS: the sidecar does not know a backend the plugin offers.
BACKENDS_NoMlx == {"auto", "torch_cuda", "torch_cpu", "torch_mps", "stub"}

BACKENDS == {"auto", "torch_cuda", "torch_cpu", "torch_mps", "mlx", "stub"}

\* The strength is normalised before the hash is compared: read from the
\* text, checked, and formatted again.
NormalizedDespill(thousandths) == FormatContractDouble(thousandths * 100)

\* Whether the sidecar accepts a request for an inference.
ValidateInferPayload(request) ==
  LET p == request.fields
      normalized == [p EXCEPT !.despill_strength = NormalizedDespill(@)]
  IN /\ DOMAIN p = INFER_REQUIRED_FIELDS
     /\ p.alpha_hint_source \in ALPHA_HINT_SOURCES
     /\ p.screen_color \in SCREEN_COLORS
     /\ p.quality \in QUALITIES
     /\ p.input_color_space \in INPUT_COLOR_SPACES
     /\ p.despill_strength >= 0 /\ p.despill_strength <= 10000
     /\ p.backend \in BACKENDS
     /\ p.output_mode \in OUTPUT_MODES
     /\ p.render_window_x2 > p.render_window_x1
     /\ p.render_window_y2 > p.render_window_y1
     /\ p.source_frame_blob_path[1] = p.alpha_hint_frame_blob_path[1]
     /\ request.request_hash = normalized
=============================================================================
