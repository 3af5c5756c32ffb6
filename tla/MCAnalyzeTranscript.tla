------------------------ MODULE MCAnalyzeTranscript ------------------------
(***************************************************************************)
(* Constants for TLC runs of AnalyzeTranscript: a transcript that is split *)
(* into two chunks and one that is not.                                    *)
(***************************************************************************)
EXTENDS AnalyzeTranscript

CONSTANTS long, short

TwoFiles == {long, short}

ChunkCounts == [f \in Files |-> IF f = long THEN 2 ELSE 1]

=============================================================================
