---------------------------- MODULE MCOperations ----------------------------
(***************************************************************************)
(* Two deploys of one app, from images that ask for little or for a        *)
(* channel and retrieval, with secret files that define all, some or none  *)
(* of what they need; and the batch over one applicant.                    *)
(***************************************************************************)
EXTENDS Operations, TLC

CONSTANTS d1, d2, app1, a1

MCDeploys == {d1, d2}
MCApps == {app1}
MCSecretEnvKeys == SecretKeys \cup {"MY_FLAG"}
MCPlain ==
    [channels |-> {}, builtin |-> {}, rag |-> FALSE, providers |-> {},
     env |-> ("MY_FLAG" :> Literal)]
MCRag ==
    [channels |-> {"slack"}, builtin |-> {"file-serve"}, rag |-> TRUE,
     providers |-> {"GEMINI_API_KEY"}, env |-> ("OPENAI_API_KEY" :> Literal)]
MCAgentfiles == {MCPlain, MCRag}
MCRagKeys ==
    {GatewayToken, "ANTHROPIC_API_KEY", "GEMINI_API_KEY", "PINECONE_API_KEY"} \cup SlackKeys
MCSecretFiles ==
    {{}, {"PINECONE_API_KEY"}, {"ANTHROPIC_API_KEY"},
     {"ANTHROPIC_API_KEY", GatewayToken}, MCRagKeys, MCRagKeys \ {GatewayToken}}

MCApplicants == <<a1>>
=============================================================================
