--------------------------- MODULE MCGatewayPlugins ---------------------------
(***************************************************************************)
(* Two conversations without a session id, which share one budget; one     *)
(* file that two clients ask for; two notices to one member, with a key of *)
(* the agent's or without; a session of two turns, of two chunks and of    *)
(* one, or with a text that is not to be remembered; two commands, for a   *)
(* web page, another one whose address goes on with a port, AGENTS.md and  *)
(* a file of the agent's memory; two operators, over the same two          *)
(* instances.                                                              *)
(***************************************************************************)
EXTENDS GatewayPlugins, TLC

CONSTANTS c1, c2, u1, k1, k2, n1, n2, m1, key1
CONSTANTS long, short, secret, p1, p2, page, pageOfPort, agentsFile, memoryFile, turn1
CONSTANTS o1, o2, i1, i2

MCConversations == {c1, c2}
MCSessionId == [c \in MCConversations |-> "default"]
MCSizes == {1, 2}
MCUuids == {u1}
MCClients == {k1, k2}
MCNotices == {n1, n2}
MCMembers == {m1}
MCAgentKeys == {key1}

MCBackends == {"pinecone", "pgvector"}
MCRoles == {"user", "tool"}
MCIngestRoles == {"user"}
MCTexts == {long, short, secret}
MCSkipTexts == {secret}
MCChunkCount == [t \in MCTexts |-> IF t = long THEN 2 ELSE 1]
MCCoreTokens == {2, 5}

MCCommands == {p1, p2}
MCFiles == {page, pageOfPort, agentsFile, memoryFile}
MCCommandOf ==
    [f \in MCFiles |->
        IF f = agentsFile THEN "agents" ELSE IF f = memoryFile THEN "migrate" ELSE "ingest"]
MCExtensions == [f \in MCFiles |-> IF f = page THEN {pageOfPort} ELSE {}]
MCTurns == {turn1}

MCOperators == {o1, o2}
MCConfig == <<i1, i2>>

MCSymmetry ==
    Permutations(MCNotices) \cup Permutations(MCCommands) \cup Permutations(MCOperators)
=============================================================================
