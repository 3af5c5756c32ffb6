------------------------------ MODULE Operations ------------------------------
(***************************************************************************)
(* The two programs of the repository that an operator runs on a machine   *)
(* of his own: `easyflow deploy' (FlyDeploy) and the daily batch           *)
(* (DailyProcess).  They share no state and nothing orders them, so that a *)
(* behaviour of both is a behaviour of each: one behaviour of this module  *)
(* runs one of them.                                                       *)
(***************************************************************************)
EXTENDS FlyDeploy, DailyProcess

VARIABLE program   \* the program this behaviour runs

opsVars == <<program, deployVars, dailyVars>>

OpsInit ==
    /\ program \in {"deploy", "daily"}
    /\ DeployInit
    /\ DailyInit

Deploy(A) == program = "deploy" /\ A /\ UNCHANGED <<program, dailyVars>>

Daily(A) == program = "daily" /\ A /\ UNCHANGED <<program, deployVars>>

OpsNext == Deploy(DeployNext) \/ Daily(DailyNext)

(***************************************************************************)
(* A deploy promises nothing it must get done.  The batch is started every *)
(* day, each of its calls ends within a timeout, and UnitBase is not out   *)
(* of order for ever: again and again it lets the job log in and list all  *)
(* applicants.                                                             *)
(***************************************************************************)
OpsFairness ==
    /\ WF_opsVars(Daily(RunStep))
    /\ SF_opsVars(Daily(Begin(FALSE)))
    /\ SF_opsVars(Daily(LoginOk /\ ~run.dry))
    /\ SF_opsVars(Daily(ListPage /\ ~run.dry /\ run'.step = "sync"))

OpsSpec == OpsInit /\ [][OpsNext]_opsVars /\ OpsFairness

\* Both programs hold what their variables are for (see DeployTypeOK and
\* DailyTypeOK).
OpsTypeOK == DeployTypeOK /\ DailyTypeOK
===============================================================================
