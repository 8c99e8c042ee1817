-------------------------- MODULE MCLspDiagnostics --------------------------
(* Model checking LspDiagnostics: a source file beside the manifest. *)
EXTENDS LspDiagnostics

CONSTANTS source, toml
=============================================================================
