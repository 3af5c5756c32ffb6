------------------------------- MODULE CostGuard -------------------------------
(***************************************************************************)
(* The plugin cost-guard (packages/cost-guard/src): before a turn of the   *)
(* agent it weighs what will be sent to the model and keeps a budget of    *)
(* tokens per session, before a tool call it looks for paths and commands  *)
(* that are denied, and it replaces large tool results by a sentinel.      *)
(*                                                                         *)
(* The host, modelled from how the hooks use it, keeps the histories: it   *)
(* calls the hooks in turn, may keep the messages a hook has rewritten or  *)
(* go on with its own, may shorten a history between two turns, and may    *)
(* restart, which empties the plugin's map.  Sizes are small numbers; what *)
(* a text holds is whether it mentions a denied path.                      *)
(***************************************************************************)
EXTENDS Integers, Sequences, SequencesExt, Sums

CONSTANTS
    Conversations,
    sessionId,       \* conversation -> what the hook takes for the id of its session
    blockMode,       \* "block" or "observe"
    sessionTokenBudget,
    perTurnPromptInputThreshold,
    rewriteThreshold,
    Sizes,           \* of prompts, answers and tool results, in tokens
    SentinelSize,
    MaxMessages,     \* bound: messages of a history
    MaxRefused       \* bound: tokens counted beyond the budget

ASSUME GuardAssumption ==
    /\ blockMode \in {"block", "observe"}
    /\ {sessionTokenBudget, perTurnPromptInputThreshold, rewriteThreshold,
        SentinelSize, MaxMessages, MaxRefused} \cup Sizes \subseteq Nat
    /\ sessionId \in [Conversations -> Range(sessionId)]

ASSUME FewConversations == IsFiniteSet(Conversations)

VARIABLES
    sessionState, \* session id -> what the plugin has counted
    history,      \* conversation -> the messages the host keeps
    turn,         \* conversation -> "idle", or what its turn waits for
    seen,         \* conversation -> tokens of the history that went to the model
    admitted,     \* conversation -> tokens that went to the model for the first time
    shortened     \* conversation -> tokens that went to the model and are gone

guardVars == <<sessionState, history, turn, seen, admitted, shortened>>

\* Conversations for which the host gives no id share one, "default".
SessionIds == Range(sessionId)

NoSession == [cumulativeTokens |-> 0, observedMessagesTokens |-> 0]

Atmost(a, b) == IF a < b THEN a ELSE b
Atleast(a, b) == IF a > b THEN a ELSE b

\* Messages: who wrote it, its size, and whether it mentions a denied path.
Text(size) == [role |-> "assistant", size |-> size, denied |-> FALSE]
ToolResult(size, denied) == [role |-> "tool", size |-> size, denied |-> denied]
Sentinel == ToolResult(SentinelSize, FALSE)

estimateMessagesTokenCount(messages) ==
    SumOver([i \in DOMAIN messages |-> messages[i].size], DOMAIN messages)

GuardInit ==
    /\ sessionState = [s \in SessionIds |-> NoSession]
    /\ history = [c \in Conversations |-> <<>>]
    /\ turn = [c \in Conversations |-> "idle"]
    /\ seen = [c \in Conversations |-> 0]
    /\ admitted = [c \in Conversations |-> 0]
    /\ shortened = [c \in Conversations |-> 0]

(***************************************************************************)
(* before_agent_run.                                                       *)
(***************************************************************************)
\* Mutant: only the history is counted.
updateSessionBudgetStateWithoutPrompt(state, prompt, messagesTokens) ==
    [state EXCEPT !.cumulativeTokens = @ + Atleast(0, messagesTokens - state.observedMessagesTokens),
                  !.observedMessagesTokens = Atleast(@, messagesTokens)]

updateSessionBudgetState(state, prompt, messagesTokens) ==
    [cumulativeTokens |->
        state.cumulativeTokens + prompt
            + Atleast(0, messagesTokens - state.observedMessagesTokens),
     observedMessagesTokens |->
        Atleast(state.observedMessagesTokens, messagesTokens)]

\* A tool result that mentions a denied path gives way to a sentinel.
cleanupSessionMessages(messages) ==
    [i \in DOMAIN messages |->
        IF messages[i].role = "tool" /\ messages[i].denied THEN Sentinel ELSE messages[i]]

\* The host takes the messages over, and keeps what it still has of the history.
KeepMessages(c, messages, fed) ==
    LET before == fed
        after == Atmost(before, estimateMessagesTokenCount(messages))
    IN /\ history' = [history EXCEPT ![c] = messages]
       /\ seen' = [seen EXCEPT ![c] = after]
       /\ shortened' = [shortened EXCEPT ![c] = @ + before - after]

PerTurnTooLarge(c, prompt) ==
    prompt + estimateMessagesTokenCount(history[c]) > perTurnPromptInputThreshold

\* The first gate refuses a turn and counts nothing.
BlockTurn(c) ==
    /\ turn[c] = "idle"
    /\ blockMode = "block"
    /\ \E prompt \in Sizes : PerTurnTooLarge(c, prompt)
    /\ UNCHANGED guardVars

\* The second gate counts the turn, whether it lets it pass or not.
BeforeAgentRun(c) ==
    /\ turn[c] = "idle"
    /\ sessionState[sessionId[c]].cumulativeTokens <= sessionTokenBudget + MaxRefused
    /\ \E prompt \in Sizes :
          /\ ~(blockMode = "block" /\ PerTurnTooLarge(c, prompt))
          /\ LET tokens == estimateMessagesTokenCount(history[c])
                 state == updateSessionBudgetState(sessionState[sessionId[c]],
                                                   prompt, tokens)
                 over == state.cumulativeTokens > sessionTokenBudget
             IN /\ sessionState' = [sessionState EXCEPT ![sessionId[c]] = state]
                /\ IF over /\ blockMode = "block"
                   THEN UNCHANGED <<history, turn, seen, admitted, shortened>>
                   ELSE /\ \/ KeepMessages(c, history[c], tokens)
                           \/ /\ blockMode = "block"
                              /\ KeepMessages(c, cleanupSessionMessages(history[c]), tokens)
                        /\ admitted' = [admitted EXCEPT ![c] = @ + prompt + tokens - seen[c]]
                        /\ turn' = [turn EXCEPT ![c] = "running"]

(***************************************************************************)
(* before_tool_call and tool_result_persist.  A tool call is the sequence  *)
(* of its strings, each with what it is: plain text, a denied command, or  *)
(* a path, which is denied as it is written, after links are resolved, or  *)
(* because it is another name of a denied file.                            *)
(***************************************************************************)
PathKinds == {"deny_path_match", "deny_path_match_symlink", "deny_path_match_inode"}
Strings == PathKinds \cup {"text", "command"}

FirstOf(strings, kinds) ==
    LET found == SelectSeq(strings, LAMBDA s : s \in kinds)
    IN IF found = <<>> THEN "none" ELSE found[1]

findCommandDenylistMatch(strings) == FirstOf(strings, {"command"}) # "none"

findDenyPathMatch(strings) == FirstOf(strings, PathKinds)

\* A denied command is refused whichever tool runs it, a denied path unless
\* the tool is one of those made for it.
blockReason(strings, allowlisted) ==
    IF findCommandDenylistMatch(strings)
    THEN "command_denylist_match"
    ELSE IF allowlisted THEN "none" ELSE findDenyPathMatch(strings)

Persisted(result) ==
    IF blockMode = "block" /\ result.size > rewriteThreshold THEN Sentinel ELSE result

Add(c, message) == history' = [history EXCEPT ![c] = Append(@, message)]

Calls == {<<"text">>, <<"command">>} \cup {<<"text", kind>> : kind \in PathKinds}

\* A call that is refused leaves a note of the host; any other leaves its
\* result, which mentions the path it was asked for.
ToolCall(c) ==
    /\ turn[c] = "running"
    /\ Len(history[c]) < MaxMessages
    /\ \E strings \in Calls, allowlisted \in BOOLEAN, size \in Sizes :
          LET refused == blockMode = "block" /\ blockReason(strings, allowlisted) # "none"
          IN Add(c, IF refused
                    THEN ToolResult(SentinelSize, FALSE)
                    ELSE Persisted(ToolResult(size, findDenyPathMatch(strings) # "none")))
    /\ UNCHANGED <<sessionState, turn, seen, admitted, shortened>>

EndTurn(c) ==
    /\ turn[c] = "running"
    /\ turn' = [turn EXCEPT ![c] = "idle"]
    /\ \/ UNCHANGED history
       \/ Len(history[c]) < MaxMessages /\ \E size \in Sizes : Add(c, Text(size))
    /\ UNCHANGED <<sessionState, seen, admitted, shortened>>

(***************************************************************************)
(* The host.                                                               *)
(***************************************************************************)
\* The oldest message goes, or gives way to a summary.
Shorten(c) ==
    /\ turn[c] = "idle"
    /\ history[c] # <<>>
    /\ \E summary \in {<<>>, <<Text(SentinelSize)>>} :
          KeepMessages(c, summary \o Tail(history[c]), seen[c])
    /\ UNCHANGED <<sessionState, turn, admitted>>

\* What went to the model before counts as new to the next process.
RestartGuard ==
    /\ sessionState' = [s \in SessionIds |-> NoSession]
    /\ turn' = [c \in Conversations |-> "idle"]
    /\ seen' = [c \in Conversations |-> 0]
    /\ admitted' = [c \in Conversations |-> 0]
    /\ shortened' = [c \in Conversations |-> 0]
    /\ UNCHANGED history

GuardNext ==
    \/ \E c \in Conversations :
          BlockTurn(c) \/ BeforeAgentRun(c) \/ ToolCall(c) \/ EndTurn(c) \/ Shorten(c)
    \/ RestartGuard

GuardSpec == GuardInit /\ [][GuardNext]_guardVars

(***************************************************************************)
(* Properties.                                                             *)
(***************************************************************************)
Message == [role : {"assistant", "tool"}, size : Sizes \cup {SentinelSize}, denied : BOOLEAN]

\* Histories, counters and turns; what has been seen of a history is part of it.
GuardTypeOK ==
    /\ \A s \in SessionIds : /\ sessionState[s].cumulativeTokens \in Nat
                             /\ sessionState[s].observedMessagesTokens \in Nat
    /\ \A c \in Conversations : /\ history[c] \in Seq(Message)
                                /\ seen[c] \in 0..estimateMessagesTokenCount(history[c])
                                /\ admitted[c] \in Nat
                                /\ shortened[c] \in Nat
    /\ turn \in [Conversations -> {"idle", "running"}]

\* In block mode the tokens that the conversations of a session send to the
\* model, counting a message once however often it is sent, exceed the budget
\* at most by what was taken out of their histories, and by all of what they
\* hold but the longest: the counter keeps the largest total it has seen
\* (observedMessagesTokens), so that growth after the host has shortened a
\* history, and the history of another conversation with the same id, are free
\* up to that total.
AdmittedWithinBudget ==
    blockMode = "block" =>
       \A s \in SessionIds :
          LET all == {c \in Conversations : sessionId[c] = s}
          IN \E longest \in all :
                SumOver(admitted, all) <=
                   sessionTokenBudget + SumOver(shortened, all) + SumOver(seen, all \ {longest})
===============================================================================
