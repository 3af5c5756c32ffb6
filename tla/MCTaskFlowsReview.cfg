\* The standard flow, driven by an agent that follows it.
SPECIFICATION FollowSpec
CONSTANTS
    Flows = {"task"}
INVARIANT ReworkIsChecked
