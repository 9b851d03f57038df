--------------------------- MODULE MCHTTPExporter ---------------------------
(***************************************************************************)
(* The instance of HTTPExporter for TLC: two spans, two producers, one     *)
(* flush() caller beside the worker, two closers, batches of two, two      *)
(* attempts (the code's five differ only in how often a step is repeated). *)
(***************************************************************************)
EXTENDS HTTPExporter
=============================================================================
