------------------------- MODULE MC_DeadLetterQueue -------------------------
(* Two redrivers and two entries, one that fails for good at its first     *)
(* failed redrive and one that still has retries left.                     *)
EXTENDS DeadLetterQueue, TLC

MCMaxRetries == (1 :> 1) @@ (2 :> 2)
=============================================================================
