--------------------------- MODULE MCPipelineRunner ---------------------------
(* The pipeline runner on a pipeline where two chains meet, for TLC. *)
EXTENDS PipelineRunner, TLC

CONSTANTS first, second, both

\* Two tasks and the one where their chains meet, which is the last.
Meeting == first :> both @@ second :> both @@ both :> NULL

=============================================================================
