------------------------------- MODULE Tools --------------------------------
(***************************************************************************)
(* The tools and their backbones: what a valid request is, which models a   *)
(* tool declares, which of them a worker loads before its first request,    *)
(* and which a request needs, in the order it fetches them.                 *)
(*                                                                         *)
(* A request is its validated InputModel, up to what tells requests apart:  *)
(* `seed` stands for the seed and for every other field.                    *)
(***************************************************************************)
EXTENDS Sequences

CONSTANTS Seed,            \* what else a request says
          Reference,       \* clips of voices to clone
          OwnVoice,        \* no clip: the voice a model comes with
          DefaultBackbone  \* HVYM_REANGLE_BACKBONE, or "trellis"

ToolName == {"tts", "mesh", "reangle"}
Backbone == {"trellis", "triposr"}
Model == {"chatterbox", "chatterbox_mtl", "trellis", "triposr", "isnet"}

ASSUME BackboneAssumption == DefaultBackbone \in Backbone
ASSUME VoiceAssumption == OwnVoice \notin Reference

Voice == Reference \cup {OwnVoice}

-----------------------------------------------------------------------------
(***************************************************************************)
(* Requests                                                                *)
(***************************************************************************)
\* `TtsInput`: "fr" for the languages that are not English.
Speech == [tool : {"tts"}, language : {"en", "fr"}, reference : Voice, seed : Seed]

\* `MeshInput`.
Sketch == [tool : {"mesh"}, seed : Seed]

\* `ReangleInput`: any string will do for a backbone.
Drawing == [tool : {"reangle"}, backbone : Backbone \cup {"unknown"}, seed : Seed]

Request == Speech \cup Sketch \cup Drawing

\* The voice a request is to be spoken in.
VoiceOf(r) == IF r.tool = "tts" THEN r.reference ELSE OwnVoice

-----------------------------------------------------------------------------
(***************************************************************************)
(* Models                                                                  *)
(***************************************************************************)
\* `model_key_for`: both backbones are registered under the names of their models.
ModelKeyFor(backbone) == backbone

\* What a tool declares (`model_loaders`), what of it a worker loads before it serves
\* (`models_needed`), and the model that its `warmup` runs once.  The model for other
\* languages is left to its first request:
TtsTool == [loaders |-> {"chatterbox", "chatterbox_mtl"},
            needed  |-> {"chatterbox"},
            warmup  |-> "chatterbox"]

\* ... `Tool.models_needed` is all that the tool declares:
MeshTool == [loaders |-> {"trellis"},
             needed  |-> {"trellis"},
             warmup  |-> "trellis"]

\* ... and both backbones are declared, so that a request may name either, but only
\* the default one is needed.
ReangleTool == [loaders |-> {"isnet", "triposr", "trellis"},
                needed  |-> {"isnet", ModelKeyFor(DefaultBackbone)},
                warmup  |-> ModelKeyFor(DefaultBackbone)]

ToolOf == [tts |-> TtsTool, mesh |-> MeshTool, reangle |-> ReangleTool]

\* The loaders of some tools, and what is to be in memory before the first request.
Declared(found) == UNION {ToolOf[n].loaders : n \in found}
Wanted(found) == UNION {ToolOf[n].needed \cup {ToolOf[n].warmup} : n \in found}

\* `TtsTool.run` fetches one model, by the language.
ModelsOfSpeech(r) == <<IF r.language = "en" THEN "chatterbox" ELSE "chatterbox_mtl">>

\* `ReangleTool.run` fetches the backbone's, then the matte's.
ModelsOfDrawing(r) == <<ModelKeyFor(r.backbone), "isnet">>

\* What a request fetches, in its tool's order.
ModelsOf(r) ==
  CASE r.tool = "tts"     -> ModelsOfSpeech(r)
    [] r.tool = "mesh"    -> <<"trellis">>
    [] r.tool = "reangle" -> ModelsOfDrawing(r)

\* `get_backbone` and `model_key_for` refuse a name they do not know.
Known(r) == r.tool = "reangle" => r.backbone \in Backbone

\* Does the model draw from the process's random numbers?  TripoSR does not.
Stochastic(r) == r.tool = "reangle" => r.backbone = "trellis"

=============================================================================
