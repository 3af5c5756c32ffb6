---------------------------- MODULE OpenclawConfig ----------------------------
(***************************************************************************)
(* What a deploy makes of an Agentfile: the secrets it requires            *)
(* (packages/easyflow-cli/src/deploy/adapters/fly.ts), the openclaw.json   *)
(* it bakes into the image (deploy/openclaw-config.ts), and what the       *)
(* machine makes of that when it starts (deploy/render-openclaw-config.js).*)
(*                                                                         *)
(* An Agentfile is a record: which channels and built-in tools it enables, *)
(* whether it asks for retrieval (rag), the providers of its models, and   *)
(* its environment, where a value is a literal or the name of the key it   *)
(* is a placeholder for.  Values of secrets, texts and numbers of the      *)
(* configuration are left out.                                             *)
(***************************************************************************)
CONSTANTS
    SecretEnvKeys,   \* keys isSecretEnvKey takes for a secret, by name or pattern
    Literal          \* a value that is not a placeholder

ProviderKeys == {"ANTHROPIC_API_KEY", "GEMINI_API_KEY", "OPENAI_API_KEY"}
SlackKeys == {"SLACK_BOT_TOKEN", "SLACK_SIGNING_SECRET"}
LineKeys == {"LINE_ACCESS_TOKEN", "LINE_CHANNEL_SECRET"}
RagKeys == {"PINECONE_API_KEY"}
GatewayToken == "GATEWAY_TOKEN"

SecretKeys ==
    ProviderKeys \cup SlackKeys \cup LineKeys \cup RagKeys \cup {GatewayToken}

ASSUME ConfigAssumption ==
    /\ SecretKeys \subseteq SecretEnvKeys
    /\ Literal \notin SecretEnvKeys

If(condition, keys) == IF condition THEN keys ELSE {}

\* A channel's or a tool's secrets are required of whoever enables it.
getRequiredSecretKeys(agentfile) ==
    {GatewayToken}
        \cup If("slack" \in agentfile.channels, SlackKeys)
        \cup If("line" \in agentfile.channels, LineKeys)
        \cup If(agentfile.rag, RagKeys)

getRequiredProviderSecretKeys(agentfile) ==
    {"ANTHROPIC_API_KEY"} \cup agentfile.providers

\* A key known as a secret, or available as one, is not baked in.
buildRuntimeEnv(env, available) ==
    [key \in DOMAIN env |->
        IF env[key] = Literal /\ key \in available \cup SecretEnvKeys
        THEN key
        ELSE env[key]]

PluginTools == {"workflow-controller", "file-serve", "model-router"}

contextEngine(agentfile, available) ==
    IF "workflow-controller" \in agentfile.builtin
    THEN "workflow"
    ELSE IF agentfile.rag \/ "PINECONE_API_KEY" \in available
         THEN "pinecone-memory"
         ELSE "lossless-claw"

\* placeholders are those outside env, which the machine cannot start without.
buildOpenclawConfig(agentfile, available) ==
    [env |-> buildRuntimeEnv(agentfile.env, available),
     placeholders |-> {GatewayToken}
                          \cup If("slack" \in agentfile.channels, SlackKeys)
                          \cup If("line" \in agentfile.channels, LineKeys),
     allow |-> {"pinecone-memory", "lossless-claw"}
                   \cup ({"slack", "line"} \cap agentfile.channels)
                   \cup (PluginTools \cap agentfile.builtin),
     contextEngine |-> contextEngine(agentfile, available),
     media |-> "GEMINI_API_KEY" \in available]

\* The machine stops when a placeholder outside env has no value.
renderFails(config, environment) == ~(config.placeholders \subseteq environment)

\* An entry of env whose placeholder has no value is left out.
renderedEnv(config, environment) ==
    {key \in DOMAIN config.env : config.env[key] \in environment \cup {Literal}}
===============================================================================
