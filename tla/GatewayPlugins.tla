---------------------------- MODULE GatewayPlugins ----------------------------
(***************************************************************************)
(* Four plugins of the gateway process, cost-guard (CostGuard), file-serve *)
(* (FileServe), portal-notify (PortalNotify) and the context engine with a *)
(* vector index (PineconeEngine), and the commands that fill the index of  *)
(* one instance (MemoryCli) or of all (BulkMemory).  The plugins register  *)
(* hooks, a route, a service, a tool and an engine with the host, and      *)
(* share neither state nor files; the commands meet the engine in the      *)
(* index only, and each of the two modules has the other's writes among    *)
(* its own actions.  A behaviour of all is a behaviour of each, so that    *)
(* one behaviour of this module runs one.                                  *)
(***************************************************************************)
EXTENDS CostGuard, FileServe, PortalNotify, PineconeEngine, MemoryCli,
    BulkMemory

VARIABLE plugin   \* what this behaviour runs

pluginVars == <<plugin, guardVars, serveVars, notifyVars, engineVars, cliVars, bulkVars>>

PluginsInit ==
    /\ plugin \in {"cost-guard", "file-serve", "portal-notify", "memory", "memory-cli", "bulk"}
    /\ GuardInit
    /\ ServeInit
    /\ NotifyInit
    /\ EngineInit /\ (plugin # "memory" => backend = CHOOSE b \in Backends : TRUE)
    /\ CliInit
    /\ BulkInit /\ (plugin # "bulk" => machine = [i \in Instances |-> NewMachine(TRUE)])

Guard(A) ==
    /\ plugin = "cost-guard" /\ A
    /\ UNCHANGED <<plugin, serveVars, notifyVars, engineVars, cliVars, bulkVars>>

Serve(A) ==
    /\ plugin = "file-serve" /\ A
    /\ UNCHANGED <<plugin, guardVars, notifyVars, engineVars, cliVars, bulkVars>>

NotifyTool(A) ==
    /\ plugin = "portal-notify" /\ A
    /\ UNCHANGED <<plugin, guardVars, serveVars, engineVars, cliVars, bulkVars>>

Memory(A) ==
    /\ plugin = "memory" /\ A
    /\ UNCHANGED <<plugin, guardVars, serveVars, notifyVars, cliVars, bulkVars>>

Cli(A) ==
    /\ plugin = "memory-cli" /\ A
    /\ UNCHANGED <<plugin, guardVars, serveVars, notifyVars, engineVars, bulkVars>>

Bulk(A) ==
    /\ plugin = "bulk" /\ A
    /\ UNCHANGED <<plugin, guardVars, serveVars, notifyVars, engineVars, cliVars>>

PluginsNext ==
    \/ Guard(GuardNext) \/ Serve(ServeNext) \/ NotifyTool(NotifyNext)
    \/ Memory(EngineNext) \/ Cli(CliNext) \/ Bulk(BulkNext)

PluginsSpec == PluginsInit /\ [][PluginsNext]_pluginVars

\* The part that runs holds what its variables are for (see GuardTypeOK,
\* ServeTypeOK, NotifyTypeOK, EngineTypeOK, CliTypeOK and BulkTypeOK).
PluginsTypeOK ==
    /\ plugin = "cost-guard" => GuardTypeOK
    /\ plugin = "file-serve" => ServeTypeOK
    /\ plugin = "portal-notify" => NotifyTypeOK
    /\ plugin = "memory" => EngineTypeOK
    /\ plugin = "memory-cli" => CliTypeOK
    /\ plugin = "bulk" => BulkTypeOK
===============================================================================
