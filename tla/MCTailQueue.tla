---------------------------- MODULE MCTailQueue ----------------------------
(***************************************************************************)
(* Small instances of TailQueue: one worker, as MAX_WORKERS says, and      *)
(* enough requests for a removal to meet an insertion on a queue of two    *)
(* and more.                                                               *)
(***************************************************************************)
EXTENDS TailQueue
=============================================================================
