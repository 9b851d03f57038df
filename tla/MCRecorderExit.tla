--------------------------- MODULE MCRecorderExit ---------------------------
(***************************************************************************)
(* Two spans of one tenant, the main thread and a second thread, room for  *)
(* one span in the queue, one signal, three processes one after another.   *)
(***************************************************************************)
EXTENDS RecorderExit

CONSTANTS a, b, t1

MCTenant == [s \in Spans |-> t1]
=============================================================================
