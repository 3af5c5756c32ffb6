\* All built-in flows, driven by any agent.
SPECIFICATION Spec
CONSTANTS
    Flows = {"task", "command", "consult", "bug", "report", "idea"}
INVARIANTS
    OutcomesExclusive
    ClosedOnlyAfterExecution
    NeverStuck
