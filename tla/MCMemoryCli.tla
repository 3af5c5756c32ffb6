------------------------------ MODULE MCMemoryCli ------------------------------
(***************************************************************************)
(* Two commands, one after the other or side by side; a web page whose     *)
(* address goes on with a port for the other page, AGENTS.md and a memory. *)
(***************************************************************************)
EXTENDS MemoryCli, TLC

CONSTANTS p1, p2, page, pageOfPort, agentsFile, memoryFile, turn1

MCCommands == {p1, p2}
MCFiles == {page, pageOfPort, agentsFile, memoryFile}
MCCommandOf ==
    [f \in MCFiles |->
        IF f = agentsFile THEN "agents" ELSE IF f = memoryFile THEN "migrate" ELSE "ingest"]
MCExtensions == [f \in MCFiles |-> IF f = page THEN {pageOfPort} ELSE {}]
MCTurns == {turn1}
MCSymmetry == Permutations(MCCommands)
=============================================================================
