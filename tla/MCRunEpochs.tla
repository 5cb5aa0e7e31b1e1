---------------------------- MODULE MCRunEpochs ----------------------------
(* A capturing and a streaming run of one runtime, for TLC. *)
EXTENDS RunEpochs

CONSTANTS capturing, streaming

TheRuns      == {capturing, streaming}
TheStreaming == {streaming}
TheCapturing == {capturing}

\* The limits of the two requests differ.
TheTicks == [r \in TheRuns |-> IF r = capturing THEN 2 ELSE 3]
=============================================================================
