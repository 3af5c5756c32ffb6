---------------------------- MODULE GatewayProofs ----------------------------
(***************************************************************************)
(* Theorems about the plugins of the gateway, one component after another, *)
(* for any number of conversations, sessions and messages.                 *)
(***************************************************************************)
EXTENDS GatewayPlugins, HostPluginProofs, DataTheorems

-----------------------------------------------------------------------------
(* cost-guard: sizes and counters.                                         *)

Counters == [cumulativeTokens : Nat, observedMessagesTokens : Nat]

\* GuardTypeOK, with the domains of the functions.
GuardTypes ==
    /\ sessionState \in [SessionIds -> Counters]
    /\ history \in [Conversations -> Seq(Message)]
    /\ turn \in [Conversations -> {"idle", "running"}]
    /\ seen \in [Conversations -> Nat]
    /\ admitted \in [Conversations -> Nat]
    /\ shortened \in [Conversations -> Nat]
    /\ \A c \in Conversations : seen[c] =< estimateMessagesTokenCount(history[c])

LEMMA GuardConstants ==
    /\ sessionTokenBudget \in Nat /\ SentinelSize \in Nat
    /\ \A n \in Sizes : n \in Nat
    /\ \A c \in Conversations : sessionId[c] \in SessionIds
  BY GuardAssumption DEF SessionIds

LEMMA MessageSize ==
    ASSUME NEW message \in Message
    PROVE  message.size \in Nat
  BY GuardConstants DEF Message

LEMMA DomainFinite ==
    ASSUME NEW S, NEW messages \in Seq(S)
    PROVE  /\ DOMAIN messages = 1 .. Len(messages) /\ Len(messages) \in Nat
           /\ IsFiniteSet(DOMAIN messages)
  <1>1. DOMAIN messages = 1 .. Len(messages) /\ Len(messages) \in Nat
    BY LenProperties
  <1>2. IsFiniteSet(1 .. Len(messages))
    BY <1>1, UpToFinite
  <1> QED  BY <1>1, <1>2

LEMMA EstimateIsNat ==
    ASSUME NEW messages \in Seq(Message)
    PROVE  estimateMessagesTokenCount(messages) \in Nat
  <1> DEFINE f == [i \in DOMAIN messages |-> messages[i].size]
  <1>1. \A i \in DOMAIN messages : messages[i] \in Message
    BY LenProperties, ElementOfSeq
  <1>2. Summable(f, DOMAIN messages)
    BY <1>1, DomainFinite, MessageSize DEF Summable
  <1> HIDE DEF f
  <1>3. SumOver(f, DOMAIN messages) \in Nat
    BY <1>2, SumIsNat
  <1> QED  BY <1>3 DEF f, estimateMessagesTokenCount

\* One message more makes a history larger by its size.
LEMMA EstimateAppend ==
    ASSUME NEW messages \in Seq(Message), NEW message \in Message
    PROVE  /\ Append(messages, message) \in Seq(Message)
           /\ estimateMessagesTokenCount(Append(messages, message)) =
                 estimateMessagesTokenCount(messages) + message.size
  <1> DEFINE n == Len(messages)
             more == Append(messages, message)
             f == [i \in DOMAIN messages |-> messages[i].size]
             g == [i \in DOMAIN more |-> more[i].size]
  <1>1. /\ more \in Seq(Message) /\ Len(more) = n + 1 /\ n \in Nat
        /\ \A i \in 1 .. n : more[i] = messages[i]
        /\ more[n + 1] = message
    BY AppendProperties, LenProperties
  <1>2. DOMAIN messages = 1 .. n /\ DOMAIN more = 1 .. n + 1
    BY <1>1, DomainFinite
  <1>3. \A i \in DOMAIN more : more[i] \in Message
    BY <1>1, LenProperties, ElementOfSeq
  <1>4. Summable(g, DOMAIN more)
    BY <1>1, <1>3, DomainFinite, MessageSize DEF Summable
  <1>5. /\ n + 1 \in DOMAIN more
        /\ DOMAIN more \ {n + 1} = DOMAIN messages
        /\ g[n + 1] = message.size
        /\ \A i \in DOMAIN messages : g[i] = f[i]
    BY <1>1, <1>2
  <1> HIDE DEF f, g, more, n
  <1>6. SumOver(g, DOMAIN more) = SumOver(g, DOMAIN messages) + message.size
    BY <1>4, <1>5, SumRemove
  <1>7. SumOver(g, DOMAIN messages) = SumOver(f, DOMAIN messages)
    BY <1>5, SumAgrees
  <1> QED  BY <1>1, <1>6, <1>7 DEF f, g, more, estimateMessagesTokenCount

LEMMA MessagesTyped ==
    ASSUME NEW n \in Sizes \cup {SentinelSize}, NEW b \in BOOLEAN
    PROVE  /\ ToolResult(n, b) \in Message
           /\ Text(n) \in Message
           /\ Sentinel \in Message
  BY DEF ToolResult, Text, Sentinel, Message

LEMMA CleanupTyped ==
    ASSUME NEW messages \in Seq(Message)
    PROVE  cleanupSessionMessages(messages) \in Seq(Message)
  <1>1. DOMAIN messages = 1 .. Len(messages) /\ Len(messages) \in Nat
    BY DomainFinite
  <1>2. \A i \in DOMAIN messages : messages[i] \in Message
    BY LenProperties, ElementOfSeq
  <1>3. Sentinel \in Message
    BY MessagesTyped
  <1>4. cleanupSessionMessages(messages) \in [1 .. Len(messages) -> Message]
    BY <1>1, <1>2, <1>3 DEF cleanupSessionMessages
  <1> HIDE DEF cleanupSessionMessages
  <1> QED  BY <1>1, <1>4, IsASeq

\* Where the host keeps a history, what it still has of it, and what is lost.
LEMMA KeepTyped ==
    ASSUME GuardTypes, NEW c \in Conversations, NEW messages \in Seq(Message),
           NEW fed \in Nat, KeepMessages(c, messages, fed)
    PROVE  \E after \in Nat, lost \in Nat :
              /\ history' = [history EXCEPT ![c] = messages]
              /\ seen' = [seen EXCEPT ![c] = after]
              /\ shortened' = [shortened EXCEPT ![c] = @ + lost]
              /\ after + lost = fed
              /\ after =< estimateMessagesTokenCount(messages)
  <1> DEFINE t == estimateMessagesTokenCount(messages)
             after == Atmost(fed, t)
  <1>1. t \in Nat
    BY EstimateIsNat
  <1>2. after \in Nat /\ fed - after \in Nat /\ after =< t
    <2> HIDE DEF t
    <2> QED  BY <1>1 DEF Atmost
  <1>3. /\ history' = [history EXCEPT ![c] = messages]
        /\ seen' = [seen EXCEPT ![c] = after]
        /\ shortened' = [shortened EXCEPT ![c] = @ + fed - after]
    BY DEF KeepMessages
  <1> HIDE DEF after, t
  <1>4. shortened[c] \in Nat /\ shortened[c] + fed - after = shortened[c] + (fed - after)
    BY <1>2 DEF GuardTypes
  <1>5. shortened' = [shortened EXCEPT ![c] = @ + (fed - after)]
    BY <1>3, <1>4
  <1>6. after + (fed - after) = fed
    BY <1>2
  <1> QED  BY <1>2, <1>3, <1>5, <1>6 DEF t

-----------------------------------------------------------------------------
(* cost-guard: the budget of a session.                                    *)

Sharing(s) == {c \in Conversations : sessionId[c] = s}

\* When a session was last admitted its counters had the values "counted",
\* within the budget, and "observed", which no history seen since exceeds.
\* What has been admitted was counted then; refused turns count on.
AccountOf(s) ==
    \E counted \in Nat, observed \in Nat :
       /\ counted =< sessionTokenBudget
       /\ SumOver(admitted, Sharing(s)) + observed =<
             SumOver(seen, Sharing(s)) + SumOver(shortened, Sharing(s)) + counted
       /\ \A c \in Sharing(s) : seen[c] =< observed
       /\ observed =< sessionState[s].observedMessagesTokens
       /\ counted + sessionState[s].observedMessagesTokens =<
             observed + sessionState[s].cumulativeTokens

GuardInv ==
    /\ GuardTypes
    /\ blockMode = "block" => \A s \in SessionIds : AccountOf(s)

LEMMA SharingFinite ==
    ASSUME NEW s
    PROVE  IsFiniteSet(Sharing(s))
  BY FewConversations, FS_Subset DEF Sharing

LEMMA SharedSums ==
    ASSUME GuardTypes, NEW s
    PROVE  /\ Summable(admitted, Sharing(s)) /\ SumOver(admitted, Sharing(s)) \in Nat
           /\ Summable(seen, Sharing(s)) /\ SumOver(seen, Sharing(s)) \in Nat
           /\ Summable(shortened, Sharing(s)) /\ SumOver(shortened, Sharing(s)) \in Nat
  <1>1. /\ Summable(admitted, Sharing(s))
        /\ Summable(seen, Sharing(s))
        /\ Summable(shortened, Sharing(s))
    BY SharingFinite DEF GuardTypes, Summable, Sharing
  <1> QED  BY <1>1, SumIsNat

\* The number of conversation c, and no other, becomes n.
Renumbers(f, g, c, n) ==
    /\ c \in Conversations /\ n \in Nat
    /\ \A d \in Conversations : /\ f[d] \in Nat
                                /\ g[d] = IF d = c THEN n ELSE f[d]

\* Only the sum of its session changes.
LEMMA OneSum ==
    ASSUME NEW f, NEW g, NEW c, NEW n, NEW s, Renumbers(f, g, c, n), s = sessionId[c]
    PROVE  SumOver(g, Sharing(s)) + f[c] = SumOver(f, Sharing(s)) + n
  <1>0. PICK S : S = Sharing(s)
    OBVIOUS
  <1>1. S \subseteq Conversations /\ c \in S
    BY <1>0 DEF Sharing, Renumbers
  <1>2. Summable(f, S)
    BY <1>0, <1>1, SharingFinite DEF Summable, Renumbers
  <1>3. DifferAt(f, g, S, c) /\ g[c] = n
    BY <1>1 DEF DifferAt, Renumbers
  <1>4. SumOver(g, S) + f[c] = SumOver(f, S) + g[c]
    BY <1>2, <1>3, SumChanges
  <1> QED  BY <1>0, <1>3, <1>4

LEMMA OtherSums ==
    ASSUME NEW f, NEW g, NEW c, NEW n, NEW s, Renumbers(f, g, c, n), s # sessionId[c]
    PROVE  SumOver(g, Sharing(s)) = SumOver(f, Sharing(s))
  <1>0. PICK S : S = Sharing(s)
    OBVIOUS
  <1>1. \A d \in S : f[d] = g[d]
    BY <1>0 DEF Sharing, Renumbers
  <1>2. SumOver(f, S) = SumOver(g, S)
    BY <1>1, SumAgrees
  <1> QED  BY <1>0, <1>2

\* The conclusion: the account is within the budget of the property.
LEMMA AccountWithinBudget == GuardInv => AdmittedWithinBudget
  <1> SUFFICES ASSUME GuardInv, blockMode = "block", NEW s \in SessionIds
               PROVE  \E longest \in Sharing(s) :
                         SumOver(admitted, Sharing(s)) =<
                            sessionTokenBudget + SumOver(shortened, Sharing(s))
                               + SumOver(seen, Sharing(s) \ {longest})
    BY DEF AdmittedWithinBudget, Sharing
  <1>1. PICK counted \in Nat, observed \in Nat :
            /\ counted =< sessionTokenBudget
            /\ SumOver(admitted, Sharing(s)) + observed =<
                  SumOver(seen, Sharing(s)) + SumOver(shortened, Sharing(s)) + counted
            /\ \A c \in Sharing(s) : seen[c] =< observed
    BY DEF GuardInv, AccountOf
  <1>2. PICK longest \in Sharing(s) : TRUE
    BY GuardAssumption DEF SessionIds, Range, Sharing
  <1> DEFINE S == Sharing(s)
             x == SumOver(admitted, S)
             y == SumOver(seen, S)
             z == SumOver(shortened, S)
             w == SumOver(seen, S \ {longest})
  <1>3. x \in Nat /\ y \in Nat /\ z \in Nat /\ sessionTokenBudget \in Nat
    BY SharedSums, GuardConstants DEF GuardInv
  <1>4. Summable(seen, S)
    BY SharedSums DEF GuardInv
  <1>5. Summable(seen, S \ {longest}) /\ y = w + seen[longest]
    BY <1>2, <1>4, SumRemove
  <1>6. w \in Nat
    BY <1>5, SumIsNat
  <1>7. seen[longest] \in Nat /\ seen[longest] =< observed
    BY <1>1, <1>2 DEF GuardInv, GuardTypes, Sharing
  <1>8. x + observed =< y + z + counted
    BY <1>1
  <1> HIDE DEF x, y, z, w
  <1>9. x =< sessionTokenBudget + z + w
    BY <1>1, <1>3, <1>5, <1>6, <1>7, <1>8
  <1> QED  BY <1>2, <1>9 DEF x, z, w

\* A turn that is weighed adds its added to what the counters are apart.
LEMMA StateGrows ==
    ASSUME NEW state \in Counters, NEW added \in Nat, NEW tokens \in Nat
    PROVE  LET more == updateSessionBudgetState(state, added, tokens)
           IN  /\ more \in Counters
               /\ more.observedMessagesTokens >= state.observedMessagesTokens
               /\ more.observedMessagesTokens >= tokens
               /\ more.cumulativeTokens + state.observedMessagesTokens =
                     state.cumulativeTokens + more.observedMessagesTokens + added
  <1> DEFINE a == state.cumulativeTokens
             b == state.observedMessagesTokens
             x == a + added + Atleast(0, tokens - b)
             y == Atleast(b, tokens)
  <1>1. a \in Nat /\ b \in Nat
    BY DEF Counters
  <1>2. x \in Nat /\ y \in Nat /\ y >= b /\ y >= tokens /\ x + b = a + y + added
    BY <1>1 DEF Atleast
  <1>3. updateSessionBudgetState(state, added, tokens) =
            [cumulativeTokens |-> x, observedMessagesTokens |-> y]
    BY DEF updateSessionBudgetState
  <1> HIDE DEF x, y
  <1>4. [cumulativeTokens |-> x, observedMessagesTokens |-> y] \in Counters
    BY <1>2 DEF Counters
  <1> QED  BY <1>2, <1>3, <1>4

\* Where sums, sights and counters stay, or the counters grow apart, the
\* account of a session stays good.
LEMMA AccountKept ==
    ASSUME GuardTypes, NEW s \in SessionIds, AccountOf(s),
           sessionState'[s] \in Counters,
           sessionState'[s].observedMessagesTokens >= sessionState[s].observedMessagesTokens,
           sessionState'[s].cumulativeTokens + sessionState[s].observedMessagesTokens >=
              sessionState[s].cumulativeTokens + sessionState'[s].observedMessagesTokens,
           SumOver(admitted', Sharing(s)) = SumOver(admitted, Sharing(s)),
           SumOver(seen', Sharing(s)) + SumOver(shortened', Sharing(s)) =
              SumOver(seen, Sharing(s)) + SumOver(shortened, Sharing(s)),
           \A c \in Sharing(s) : seen'[c] \in Nat /\ seen'[c] =< seen[c]
    PROVE  AccountOf(s)'
  <1>1. PICK counted \in Nat, observed \in Nat :
            /\ counted =< sessionTokenBudget
            /\ SumOver(admitted, Sharing(s)) + observed =<
                  SumOver(seen, Sharing(s)) + SumOver(shortened, Sharing(s)) + counted
            /\ \A c \in Sharing(s) : seen[c] =< observed
            /\ observed =< sessionState[s].observedMessagesTokens
            /\ counted + sessionState[s].observedMessagesTokens =<
                  observed + sessionState[s].cumulativeTokens
    BY DEF AccountOf
  <1>2. Sharing(s)' = Sharing(s)
    BY DEF Sharing
  <1>3. \A c \in Sharing(s) : seen'[c] =< observed
    BY <1>1 DEF GuardTypes, Sharing
  <1> DEFINE a == sessionState[s].cumulativeTokens
             b == sessionState[s].observedMessagesTokens
             x == sessionState'[s].cumulativeTokens
             y == sessionState'[s].observedMessagesTokens
  <1>4. a \in Nat /\ b \in Nat /\ x \in Nat /\ y \in Nat
    BY DEF GuardTypes, Counters
  <1>5. y >= b /\ x + b >= a + y /\ observed =< b /\ counted + b =< observed + a
    BY <1>1
  <1> HIDE DEF a, b, x, y
  <1>6. observed =< y /\ counted + y =< observed + x
    BY <1>1, <1>4, <1>5
  <1>7. SumOver(admitted', Sharing(s)) + observed =<
            SumOver(seen', Sharing(s)) + SumOver(shortened', Sharing(s)) + counted
    BY <1>1
  <1> QED  BY <1>1, <1>2, <1>3, <1>6, <1>7 DEF AccountOf, x, y

\* A history is kept with what the model has seen of it.
LEMMA KeepStep ==
    ASSUME GuardTypes, NEW c \in Conversations, NEW messages \in Seq(Message),
           NEW fed \in Nat, KeepMessages(c, messages, fed)
    PROVE  \E after \in Nat, lost \in Nat :
              /\ after + lost = fed
              /\ Renumbers(seen, seen', c, after)
              /\ Renumbers(shortened, shortened', c, shortened[c] + lost)
              /\ seen' \in [Conversations -> Nat]
              /\ shortened' \in [Conversations -> Nat]
              /\ history' \in [Conversations -> Seq(Message)]
              /\ \A d \in Conversations : seen'[d] =< estimateMessagesTokenCount(history'[d])
  <1>1. PICK after \in Nat, lost \in Nat :
            /\ history' = [history EXCEPT ![c] = messages]
            /\ seen' = [seen EXCEPT ![c] = after]
            /\ shortened' = [shortened EXCEPT ![c] = @ + lost]
            /\ after + lost = fed
            /\ after =< estimateMessagesTokenCount(messages)
    BY KeepTyped
  <1>2. shortened[c] + lost \in Nat
    BY DEF GuardTypes
  <1>3. /\ Renumbers(seen, seen', c, after)
        /\ Renumbers(shortened, shortened', c, shortened[c] + lost)
    BY <1>1, <1>2 DEF GuardTypes, Renumbers
  <1>4. /\ seen' \in [Conversations -> Nat]
        /\ shortened' \in [Conversations -> Nat]
        /\ history' \in [Conversations -> Seq(Message)]
    BY <1>1, <1>2 DEF GuardTypes
  <1>5. \A d \in Conversations : /\ seen'[d] = IF d = c THEN after ELSE seen[d]
                                 /\ history'[d] = IF d = c THEN messages ELSE history[d]
    BY <1>1 DEF GuardTypes
  <1>6. \A d \in Conversations : seen'[d] =< estimateMessagesTokenCount(history'[d])
    BY <1>1, <1>5 DEF GuardTypes
  <1> QED  BY <1>1, <1>3, <1>4, <1>6

\* The host shortens a history: what it loses of what was seen is shortened.
LEMMA ShortenedSums ==
    ASSUME GuardTypes, NEW c, NEW after \in Nat, NEW n \in Nat, NEW lost \in Nat, NEW s,
           Renumbers(seen, seen', c, after), Renumbers(shortened, shortened', c, n),
           n = shortened[c] + lost, after + lost = seen[c],
           seen' \in [Conversations -> Nat], shortened' \in [Conversations -> Nat]
    PROVE  SumOver(seen', Sharing(s)) + SumOver(shortened', Sharing(s)) =
              SumOver(seen, Sharing(s)) + SumOver(shortened, Sharing(s))
  <1>1. CASE s # sessionId[c]
    BY <1>1, OtherSums
  <1>2. CASE s = sessionId[c]
    <2>1. SumOver(seen', Sharing(s)) + seen[c] = SumOver(seen, Sharing(s)) + after
      BY <1>2, OneSum
    <2>2. SumOver(shortened', Sharing(s)) + shortened[c] = SumOver(shortened, Sharing(s)) + n
      BY <1>2, OneSum
    <2>3. seen[c] \in Nat /\ shortened[c] \in Nat
      BY DEF GuardTypes, Renumbers
    <2>4. /\ SumOver(seen, Sharing(s)) \in Nat /\ SumOver(shortened, Sharing(s)) \in Nat
          /\ SumOver(seen', Sharing(s)) \in Nat /\ SumOver(shortened', Sharing(s)) \in Nat
      <3>1. Summable(seen', Sharing(s)) /\ Summable(shortened', Sharing(s))
        BY SharingFinite DEF Summable, Sharing
      <3> QED  BY <3>1, SharedSums, SumIsNat
    <2> DEFINE x == SumOver(seen, Sharing(s))
               y == SumOver(seen', Sharing(s))
               z == SumOver(shortened, Sharing(s))
               w == SumOver(shortened', Sharing(s))
    <2>5. /\ x \in Nat /\ y \in Nat /\ z \in Nat /\ w \in Nat
          /\ y + seen[c] = x + after /\ w + shortened[c] = z + n
      BY <2>1, <2>2, <2>4
    <2> HIDE DEF x, y, z, w
    <2>6. y + w = x + z
      BY <2>3, <2>5
    <2> QED  BY <2>6 DEF x, y, z, w
  <1> QED  BY <1>1, <1>2

LEMMA AccountsKept ==
    ASSUME GuardInv, GuardTypes',
           \A s \in SessionIds :
              /\ sessionState'[s].observedMessagesTokens >=
                    sessionState[s].observedMessagesTokens
              /\ sessionState'[s].cumulativeTokens + sessionState[s].observedMessagesTokens >=
                    sessionState[s].cumulativeTokens + sessionState'[s].observedMessagesTokens
              /\ SumOver(seen', Sharing(s)) + SumOver(shortened', Sharing(s)) =
                    SumOver(seen, Sharing(s)) + SumOver(shortened, Sharing(s)),
           admitted' = admitted,
           \A c \in Conversations : seen'[c] =< seen[c]
    PROVE  GuardInv'
  <1>1. ASSUME blockMode = "block", NEW s \in SessionIds
        PROVE  AccountOf(s)'
    <2>1. AccountOf(s) /\ GuardTypes
      BY <1>1 DEF GuardInv
    <2>2. sessionState'[s] \in Counters
      BY DEF GuardTypes
    <2>3. SumOver(admitted', Sharing(s)) = SumOver(admitted, Sharing(s))
      OBVIOUS
    <2>4. \A c \in Sharing(s) : seen'[c] \in Nat /\ seen'[c] =< seen[c]
      BY DEF GuardTypes, Sharing
    <2> QED  BY <2>1, <2>2, <2>3, <2>4, AccountKept
  <1> QED  BY <1>1 DEF GuardInv

\* A turn is weighed, and refused or admitted.
LEMMA AddedTurn ==
    ASSUME GuardInv, NEW c \in Conversations, BeforeAgentRun(c)
    PROVE  GuardInv'
  <1> DEFINE s0 == sessionId[c]
             tokens == estimateMessagesTokenCount(history[c])
  <1>1. PICK added \in Sizes :
            LET state == updateSessionBudgetState(sessionState[s0], added, tokens)
                over == state.cumulativeTokens > sessionTokenBudget
            IN /\ sessionState' = [sessionState EXCEPT ![s0] = state]
               /\ IF over /\ blockMode = "block"
                  THEN UNCHANGED <<history, turn, seen, admitted, shortened>>
                  ELSE /\ \/ KeepMessages(c, history[c], tokens)
                          \/ /\ blockMode = "block"
                             /\ KeepMessages(c, cleanupSessionMessages(history[c]), tokens)
                       /\ admitted' = [admitted EXCEPT ![c] = @ + added + tokens - seen[c]]
                       /\ turn' = [turn EXCEPT ![c] = "running"]
    BY DEF BeforeAgentRun
  <1>2. /\ s0 \in SessionIds /\ sessionState[s0] \in Counters /\ added \in Nat
        /\ history[c] \in Seq(Message) /\ seen[c] \in Nat /\ admitted[c] \in Nat
        /\ seen[c] =< tokens
    BY GuardConstants DEF GuardInv, GuardTypes
  <1>3. tokens \in Nat
    BY <1>2, EstimateIsNat
  <1> HIDE DEF tokens
  <1>4. PICK state \in Counters :
            /\ state = updateSessionBudgetState(sessionState[s0], added, tokens)
            /\ state.observedMessagesTokens >= sessionState[s0].observedMessagesTokens
            /\ state.observedMessagesTokens >= tokens
            /\ state.cumulativeTokens + sessionState[s0].observedMessagesTokens =
                  sessionState[s0].cumulativeTokens + state.observedMessagesTokens + added
    BY <1>2, <1>3, StateGrows
  <1>5. sessionState' = [sessionState EXCEPT ![s0] = state]
    BY <1>1, <1>4
  <1>6. sessionState' \in [SessionIds -> Counters]
    BY <1>4, <1>5 DEF GuardInv, GuardTypes
  <1>7. \A s \in SessionIds :
            /\ sessionState'[s].observedMessagesTokens >= sessionState[s].observedMessagesTokens
            /\ sessionState'[s].cumulativeTokens + sessionState[s].observedMessagesTokens >=
                  sessionState[s].cumulativeTokens + sessionState'[s].observedMessagesTokens
    <2>1. ASSUME NEW s \in SessionIds
          PROVE  /\ sessionState'[s] = IF s = s0 THEN state ELSE sessionState[s]
                 /\ sessionState[s].cumulativeTokens \in Nat
                 /\ sessionState[s].observedMessagesTokens \in Nat
      BY <1>5 DEF GuardInv, GuardTypes, Counters
    <2>2. state.cumulativeTokens \in Nat /\ state.observedMessagesTokens \in Nat
      BY DEF Counters
    <2>3. ASSUME NEW s \in SessionIds, s = s0
          PROVE  /\ sessionState'[s].observedMessagesTokens >=
                       sessionState[s].observedMessagesTokens
                 /\ sessionState'[s].cumulativeTokens + sessionState[s].observedMessagesTokens >=
                       sessionState[s].cumulativeTokens + sessionState'[s].observedMessagesTokens
      <3> DEFINE a == sessionState[s].cumulativeTokens
                 b == sessionState[s].observedMessagesTokens
                 x == state.cumulativeTokens
                 y == state.observedMessagesTokens
      <3>1. a \in Nat /\ b \in Nat /\ x \in Nat /\ y \in Nat /\ sessionState'[s] = state
        BY <2>1, <2>2, <2>3
      <3>2. y >= b /\ x + b = a + y + added
        BY <1>4, <2>3
      <3> HIDE DEF a, b, x, y
      <3>3. y >= b /\ x + b >= a + y
        BY <1>2, <3>1, <3>2
      <3> QED  BY <3>1, <3>3 DEF a, b, x, y
    <2>4. ASSUME NEW s \in SessionIds, s # s0
          PROVE  /\ sessionState'[s].observedMessagesTokens >=
                       sessionState[s].observedMessagesTokens
                 /\ sessionState'[s].cumulativeTokens + sessionState[s].observedMessagesTokens >=
                       sessionState[s].cumulativeTokens + sessionState'[s].observedMessagesTokens
      BY <2>1, <2>4
    <2> QED  BY <2>3, <2>4
  <1>8. CASE UNCHANGED <<history, turn, seen, admitted, shortened>>
    <2>1. GuardTypes'
      BY <1>6, <1>8 DEF GuardInv, GuardTypes
    <2>2. \A d \in Conversations : seen'[d] =< seen[d]
      BY <1>8 DEF GuardInv, GuardTypes
    <2> QED  BY <1>7, <1>8, <2>1, <2>2, AccountsKept
  <1>9. CASE /\ \/ KeepMessages(c, history[c], tokens)
                \/ KeepMessages(c, cleanupSessionMessages(history[c]), tokens)
             /\ admitted' = [admitted EXCEPT ![c] = @ + added + tokens - seen[c]]
             /\ turn' = [turn EXCEPT ![c] = "running"]
             /\ blockMode = "block" => state.cumulativeTokens =< sessionTokenBudget
    <2>1. PICK messages \in Seq(Message) : KeepMessages(c, messages, tokens)
      BY <1>2, <1>9, CleanupTyped
    <2>2. PICK after \in Nat, lost \in Nat :
              /\ after + lost = tokens
              /\ Renumbers(seen, seen', c, after)
              /\ Renumbers(shortened, shortened', c, shortened[c] + lost)
              /\ seen' \in [Conversations -> Nat]
              /\ shortened' \in [Conversations -> Nat]
              /\ history' \in [Conversations -> Seq(Message)]
              /\ \A d \in Conversations :
                    seen'[d] =< estimateMessagesTokenCount(history'[d])
      BY <1>3, <2>1, KeepStep DEF GuardInv
    <2>3. PICK sent \in Nat : sent + seen[c] = admitted[c] + added + tokens
                              /\ admitted' = [admitted EXCEPT ![c] = sent]
      <3>1. admitted[c] + added + tokens - seen[c] \in Nat
        BY <1>2, <1>3
      <3>2. (admitted[c] + added + tokens - seen[c]) + seen[c] = admitted[c] + added + tokens
        BY <1>2, <1>3
      <3> QED  BY <1>9, <3>1, <3>2
    <2>4. admitted' \in [Conversations -> Nat] /\ Renumbers(admitted, admitted', c, sent)
      BY <2>3 DEF GuardInv, GuardTypes, Renumbers
    <2>5. GuardTypes'
      BY <1>6, <1>9, <2>2, <2>4 DEF GuardInv, GuardTypes
    <2>6. ASSUME blockMode = "block", NEW s \in SessionIds
          PROVE  AccountOf(s)'
      <3>1. AccountOf(s) /\ GuardTypes
        BY <2>6 DEF GuardInv
      <3>2. CASE s # s0
        <4>1. /\ SumOver(admitted', Sharing(s)) = SumOver(admitted, Sharing(s))
              /\ SumOver(seen', Sharing(s)) = SumOver(seen, Sharing(s))
              /\ SumOver(shortened', Sharing(s)) = SumOver(shortened, Sharing(s))
          BY <2>2, <2>4, <3>2, OtherSums
        <4>2. \A d \in Sharing(s) : seen'[d] \in Nat /\ seen'[d] =< seen[d]
          BY <2>2, <3>2 DEF Sharing, Renumbers
        <4>3. sessionState'[s] \in Counters
          BY <1>6
        <4> QED  BY <1>7, <3>1, <4>1, <4>2, <4>3, AccountKept
      <3>3. CASE s = s0
        <4>1. PICK counted \in Nat, observed \in Nat :
                  /\ counted =< sessionTokenBudget
                  /\ SumOver(admitted, Sharing(s)) + observed =<
                        SumOver(seen, Sharing(s)) + SumOver(shortened, Sharing(s)) + counted
                  /\ \A d \in Sharing(s) : seen[d] =< observed
                  /\ observed =< sessionState[s].observedMessagesTokens
                  /\ counted + sessionState[s].observedMessagesTokens =<
                        observed + sessionState[s].cumulativeTokens
          BY <3>1 DEF AccountOf
        <4>2. Sharing(s)' = Sharing(s) /\ sessionState'[s] = state
          BY <1>5, <3>3 DEF Sharing, GuardInv, GuardTypes
        <4>3. SumOver(admitted', Sharing(s)) + admitted[c] = SumOver(admitted, Sharing(s)) + sent
          BY <2>4, <3>3, OneSum
        <4>4. SumOver(seen', Sharing(s)) + seen[c] = SumOver(seen, Sharing(s)) + after
          BY <2>2, <3>3, OneSum
        <4>5. SumOver(shortened', Sharing(s)) + shortened[c] =
                  SumOver(shortened, Sharing(s)) + (shortened[c] + lost)
          BY <2>2, <3>3, OneSum
        <4>6. /\ SumOver(admitted, Sharing(s)) \in Nat /\ SumOver(admitted', Sharing(s)) \in Nat
              /\ SumOver(seen, Sharing(s)) \in Nat /\ SumOver(seen', Sharing(s)) \in Nat
              /\ SumOver(shortened, Sharing(s)) \in Nat /\ SumOver(shortened', Sharing(s)) \in Nat
          <5>1. /\ Summable(admitted', Sharing(s)) /\ Summable(seen', Sharing(s))
                /\ Summable(shortened', Sharing(s))
            BY <2>2, <2>4, SharingFinite DEF Summable, Sharing
          <5> QED  BY <3>1, <5>1, SharedSums, SumIsNat
        <4>7. /\ sessionState[s].cumulativeTokens \in Nat
              /\ sessionState[s].observedMessagesTokens \in Nat
              /\ state.cumulativeTokens \in Nat /\ state.observedMessagesTokens \in Nat
              /\ shortened[c] \in Nat
          BY <3>1 DEF GuardTypes, Counters
        <4>8. SumOver(admitted', Sharing(s)) + state.observedMessagesTokens =<
                  SumOver(seen', Sharing(s)) + SumOver(shortened', Sharing(s)) + state.cumulativeTokens
          <5> DEFINE x == SumOver(admitted, Sharing(s))
                     x1 == SumOver(admitted', Sharing(s))
                     y == SumOver(seen, Sharing(s))
                     y1 == SumOver(seen', Sharing(s))
                     z == SumOver(shortened, Sharing(s))
                     z1 == SumOver(shortened', Sharing(s))
                     a == sessionState[s].cumulativeTokens
                     b == sessionState[s].observedMessagesTokens
                     a1 == state.cumulativeTokens
                     b1 == state.observedMessagesTokens
                     adm == admitted[c]
                     fed == seen[c]
                     cut == shortened[c]
          <5>0. adm \in Nat /\ fed \in Nat /\ cut \in Nat /\ tokens \in Nat /\ added \in Nat
            BY <1>2, <1>3, <4>7
          <5>1. /\ x \in Nat /\ x1 \in Nat /\ y \in Nat /\ y1 \in Nat /\ z \in Nat /\ z1 \in Nat
                /\ a \in Nat /\ b \in Nat /\ a1 \in Nat /\ b1 \in Nat
            BY <4>6, <4>7
          <5>2. /\ x1 + adm = x + sent
                /\ y1 + fed = y + after
                /\ z1 + cut = z + (cut + lost)
                /\ sent + fed = adm + added + tokens
                /\ after + lost = tokens
            BY <2>2, <2>3, <4>3, <4>4, <4>5
          <5>3. /\ x + observed =< y + z + counted
                /\ counted + b =< observed + a
                /\ a1 + b = a + b1 + added
            BY <1>4, <3>3, <4>1
          <5> HIDE DEF x, x1, y, y1, z, z1, a, b, a1, b1, adm, fed, cut
          <5>4. x1 + b1 =< y1 + z1 + a1
            <6>1. z1 = z + lost
              BY <5>0, <5>1, <5>2
            <6>2. x1 + fed = x + added + tokens
              BY <5>0, <5>1, <5>2
            <6>3. y1 + z1 + fed = y + z + tokens
              BY <5>0, <5>1, <5>2, <6>1
            <6>4. x1 + y + z = x + y1 + z1 + added
              BY <5>0, <5>1, <6>2, <6>3
            <6> QED  BY <5>0, <5>1, <5>3, <6>4
          <5> QED  BY <5>4 DEF x1, y1, z1, a1, b1
        <4>9. ASSUME NEW d \in Sharing(s)
              PROVE  seen'[d] =< state.observedMessagesTokens
          <5> DEFINE b == sessionState[s].observedMessagesTokens
                     b1 == state.observedMessagesTokens
          <5>1. /\ b \in Nat /\ b1 \in Nat /\ b1 >= b /\ b1 >= tokens /\ observed =< b
            BY <1>4, <3>3, <4>1, <4>7
          <5>2. seen'[d] = IF d = c THEN after ELSE seen[d]
            BY <2>2 DEF Sharing, Renumbers
          <5>3. seen[d] \in Nat /\ seen[d] =< observed /\ after =< tokens
            BY <2>2, <3>1, <4>1 DEF GuardTypes, Sharing
          <5> HIDE DEF b, b1
          <5>4. seen'[d] =< b1
            BY <1>3, <5>1, <5>2, <5>3
          <5> QED  BY <5>4 DEF b1
        <4>10. \E counted1 \in Nat, observed1 \in Nat :
                  /\ counted1 =< sessionTokenBudget
                  /\ SumOver(admitted', Sharing(s)) + observed1 =<
                        SumOver(seen', Sharing(s)) + SumOver(shortened', Sharing(s)) + counted1
                  /\ \A d \in Sharing(s) : seen'[d] =< observed1
                  /\ observed1 =< sessionState'[s].observedMessagesTokens
                  /\ counted1 + sessionState'[s].observedMessagesTokens =<
                        observed1 + sessionState'[s].cumulativeTokens
          <5>1. /\ state.observedMessagesTokens =< state.observedMessagesTokens
                /\ state.cumulativeTokens + state.observedMessagesTokens =<
                       state.observedMessagesTokens + state.cumulativeTokens
            BY <4>7
          <5>2. state.cumulativeTokens =< sessionTokenBudget
            BY <1>9, <2>6
          <5> USE <4>7
          <5> WITNESS state.cumulativeTokens \in Nat, state.observedMessagesTokens \in Nat
          <5> QED  BY <4>2, <4>8, <4>9, <5>1, <5>2
        <4> QED  BY <4>2, <4>10 DEF AccountOf
      <3> QED  BY <3>2, <3>3
    <2> QED  BY <2>5, <2>6 DEF GuardInv
  <1>10. blockMode = "block" /\ ~ (state.cumulativeTokens > sessionTokenBudget)
             => state.cumulativeTokens =< sessionTokenBudget
    BY GuardConstants DEF Counters
  <1> QED  BY <1>1, <1>4, <1>8, <1>9, <1>10

\* Where only histories, by one message, and turns change.
LEMMA HistoryGrows ==
    ASSUME GuardInv, NEW c \in Conversations, NEW message \in Message,
           \/ history' = history
           \/ history' = [history EXCEPT ![c] = Append(@, message)],
           turn' \in [Conversations -> {"idle", "running"}],
           UNCHANGED <<sessionState, seen, admitted, shortened>>
    PROVE  GuardInv'
  <1>1. /\ Append(history[c], message) \in Seq(Message)
        /\ estimateMessagesTokenCount(Append(history[c], message)) =
              estimateMessagesTokenCount(history[c]) + message.size
    BY EstimateAppend DEF GuardInv, GuardTypes
  <1>2. history' \in [Conversations -> Seq(Message)]
    BY <1>1 DEF GuardInv, GuardTypes
  <1>3. ASSUME NEW d \in Conversations
        PROVE  seen'[d] =< estimateMessagesTokenCount(history'[d])
    <2>1. history'[d] = history[d] \/ (d = c /\ history'[d] = Append(history[c], message))
      BY DEF GuardInv, GuardTypes
    <2>2. estimateMessagesTokenCount(history[d]) \in Nat /\ message.size \in Nat
          /\ seen[d] \in Nat /\ seen[d] =< estimateMessagesTokenCount(history[d])
      BY EstimateIsNat, MessageSize DEF GuardInv, GuardTypes
    <2> DEFINE e == estimateMessagesTokenCount(history[d])
               e1 == estimateMessagesTokenCount(history'[d])
    <2>3. e1 = e \/ e1 = e + message.size
      BY <1>1, <2>1
    <2>4. e \in Nat /\ message.size \in Nat /\ seen[d] \in Nat /\ seen[d] =< e
      BY <2>2
    <2>5. seen'[d] = seen[d]
      OBVIOUS
    <2> HIDE DEF e, e1
    <2>6. seen'[d] =< e1
      BY <2>3, <2>4, <2>5
    <2> QED  BY <2>6 DEF e1
  <1>4. GuardTypes'
    BY <1>2, <1>3 DEF GuardInv, GuardTypes
  <1>5. /\ \A d \in Conversations : seen'[d] =< seen[d]
        /\ \A s \in SessionIds : /\ sessionState[s].cumulativeTokens \in Nat
                                 /\ sessionState[s].observedMessagesTokens \in Nat
    BY DEF GuardInv, GuardTypes, Counters
  <1> QED  BY <1>4, <1>5, AccountsKept

LEMMA ToolCallStep ==
    ASSUME GuardInv, NEW c \in Conversations, ToolCall(c)
    PROVE  GuardInv'
  <1>1. PICK strings \in Calls, allowlisted \in BOOLEAN, size \in Sizes :
            LET refused == blockMode = "block" /\ blockReason(strings, allowlisted) # "none"
            IN Add(c, IF refused
                      THEN ToolResult(SentinelSize, FALSE)
                      ELSE Persisted(ToolResult(size, findDenyPathMatch(strings) # "none")))
    BY DEF ToolCall
  <1> DEFINE denied == findDenyPathMatch(strings) # "none"
  <1>2. denied \in BOOLEAN
    OBVIOUS
  <1>3. \/ Add(c, ToolResult(SentinelSize, FALSE))
        \/ Add(c, Persisted(ToolResult(size, denied)))
    BY <1>1
  <1> HIDE DEF denied
  <1>4. ToolResult(SentinelSize, FALSE) \in Message /\ Sentinel \in Message
    BY MessagesTyped
  <1>5. ToolResult(size, denied) \in Message
    BY <1>2, MessagesTyped
  <1>6. Persisted(ToolResult(size, denied)) \in Message
    BY <1>4, <1>5 DEF Persisted
  <1>7. \E message \in Message : history' = [history EXCEPT ![c] = Append(@, message)]
    BY <1>3, <1>4, <1>6 DEF Add
  <1>8. UNCHANGED <<sessionState, turn, seen, admitted, shortened>>
    BY DEF ToolCall
  <1> QED  BY <1>7, <1>8, HistoryGrows DEF GuardInv, GuardTypes

LEMMA EndTurnStep ==
    ASSUME GuardInv, NEW c \in Conversations, EndTurn(c)
    PROVE  GuardInv'
  <1>1. \E message \in Message :
            history' = history \/ history' = [history EXCEPT ![c] = Append(@, message)]
    BY MessagesTyped DEF EndTurn, Add
  <1>2. turn' \in [Conversations -> {"idle", "running"}]
        /\ UNCHANGED <<sessionState, seen, admitted, shortened>>
    BY DEF EndTurn, GuardInv, GuardTypes
  <1> QED  BY <1>1, <1>2, HistoryGrows

LEMMA ShortenStep ==
    ASSUME GuardInv, NEW c \in Conversations, Shorten(c)
    PROVE  GuardInv'
  <1>1. PICK summary \in {<<>>, <<Text(SentinelSize)>>} :
            KeepMessages(c, summary \o Tail(history[c]), seen[c])
    BY DEF Shorten
  <1>2. Text(SentinelSize) \in Message
    BY MessagesTyped
  <1>3. summary \in Seq(Message)
    <2> DEFINE m == Text(SentinelSize)
    <2>1. m \in Message
      BY <1>2
    <2> HIDE DEF m
    <2>2. <<m>> \in Seq(Message) /\ <<>> \in Seq(Message)
      BY <2>1
    <2> QED  BY <2>2 DEF m
  <1>4. history[c] \in Seq(Message) /\ history[c] # <<>> /\ seen[c] \in Nat
    BY DEF Shorten, GuardInv, GuardTypes
  <1>5. Tail(history[c]) \in Seq(Message)
    BY <1>4, HeadTailProperties
  <1> DEFINE messages == summary \o Tail(history[c])
  <1>6. messages \in Seq(Message)
    BY <1>3, <1>5, ConcatProperties
  <1> HIDE DEF messages
  <1>7. PICK after \in Nat, lost \in Nat :
            /\ after + lost = seen[c]
            /\ Renumbers(seen, seen', c, after)
            /\ Renumbers(shortened, shortened', c, shortened[c] + lost)
            /\ seen' \in [Conversations -> Nat]
            /\ shortened' \in [Conversations -> Nat]
            /\ history' \in [Conversations -> Seq(Message)]
            /\ \A d \in Conversations : seen'[d] =< estimateMessagesTokenCount(history'[d])
    BY <1>1, <1>4, <1>6, KeepStep DEF GuardInv, messages
  <1>8. PICK n \in Nat : n = shortened[c] + lost /\ Renumbers(shortened, shortened', c, n)
    BY <1>7 DEF GuardInv, GuardTypes
  <1>9. UNCHANGED <<sessionState, turn, admitted>>
    BY DEF Shorten
  <1>10. GuardTypes'
    BY <1>7, <1>9 DEF GuardInv, GuardTypes
  <1>11. ASSUME NEW s \in SessionIds
         PROVE  SumOver(seen', Sharing(s)) + SumOver(shortened', Sharing(s)) =
                   SumOver(seen, Sharing(s)) + SumOver(shortened, Sharing(s))
    <2>1. /\ Renumbers(seen, seen', c, after) /\ Renumbers(shortened, shortened', c, n)
          /\ n = shortened[c] + lost /\ after + lost = seen[c]
          /\ seen' \in [Conversations -> Nat] /\ shortened' \in [Conversations -> Nat]
          /\ GuardTypes
      BY <1>7, <1>8 DEF GuardInv
    <2> QED  BY <2>1, ShortenedSums
  <1>12. \A d \in Conversations : seen'[d] =< seen[d]
    <2>1. after =< seen[c]
      BY <1>4, <1>7
    <2>2. \A d \in Conversations : seen[d] \in Nat /\ seen'[d] = IF d = c THEN after ELSE seen[d]
      BY <1>7 DEF Renumbers
    <2> QED  BY <2>1, <2>2
  <1>13. \A s \in SessionIds : /\ sessionState[s].cumulativeTokens \in Nat
                               /\ sessionState[s].observedMessagesTokens \in Nat
    BY DEF GuardInv, GuardTypes, Counters
  <1> QED  BY <1>9, <1>10, <1>11, <1>12, <1>13, AccountsKept

\* Where nothing has been admitted, nothing is to be accounted for.
Fresh ==
    /\ GuardTypes
    /\ \A s \in SessionIds : sessionState[s] = NoSession
    /\ \A c \in Conversations : seen[c] = 0 /\ admitted[c] = 0 /\ shortened[c] = 0

LEMMA FreshAccounts == Fresh => GuardInv
  <1> SUFFICES ASSUME Fresh PROVE GuardInv
    OBVIOUS
  <1> USE DEF Fresh
  <1>1. ASSUME NEW s \in SessionIds
        PROVE  AccountOf(s)
    <2>1. Units(admitted, Sharing(s)) = {}
      BY DEF Units, Sharing
    <2>2. SumOver(admitted, Sharing(s)) = 0
      BY <2>1, FS_EmptySet DEF SumOver
    <2>3. SumOver(seen, Sharing(s)) \in Nat /\ SumOver(shortened, Sharing(s)) \in Nat
      BY SharedSums
    <2>4. /\ sessionState[s].cumulativeTokens = 0
          /\ sessionState[s].observedMessagesTokens = 0
      BY DEF NoSession
    <2>5. \A c \in Sharing(s) : seen[c] =< 0
      BY DEF Sharing
    <2>6. SumOver(admitted, Sharing(s)) + 0 =<
              SumOver(seen, Sharing(s)) + SumOver(shortened, Sharing(s)) + 0
      BY <2>2, <2>3
    <2>7. 0 =< sessionTokenBudget
      BY GuardConstants
    <2>8. 0 + sessionState[s].observedMessagesTokens =< 0 + sessionState[s].cumulativeTokens
          /\ 0 =< sessionState[s].observedMessagesTokens
      BY <2>4
    <2> QED  BY <2>5, <2>6, <2>7, <2>8 DEF AccountOf
  <1> QED  BY <1>1 DEF GuardInv

LEMMA FreshTypes ==
    /\ NoSession \in Counters
    /\ <<>> \in Seq(Message)
    /\ estimateMessagesTokenCount(<<>>) \in Nat
  <1>1. <<>> \in Seq(Message)
    OBVIOUS
  <1> QED  BY <1>1, EstimateIsNat DEF NoSession, Counters

LEMMA GuardInitInv == GuardInit => GuardInv
  <1> SUFFICES ASSUME GuardInit PROVE GuardInv
    OBVIOUS
  <1>1. GuardTypes
    BY FreshTypes DEF GuardInit, GuardTypes
  <1> QED  BY <1>1, FreshAccounts DEF GuardInit, Fresh

LEMMA FreshAfterwards == Fresh' => GuardInv'
  BY FreshAccounts, PTL

LEMMA RestartGuardStep ==
    ASSUME GuardInv, RestartGuard
    PROVE  GuardInv'
  <1>1. GuardTypes'
    <2>1. \A c \in Conversations : estimateMessagesTokenCount(history[c]) \in Nat
      BY EstimateIsNat DEF GuardInv, GuardTypes
    <2> QED  BY <2>1, FreshTypes DEF RestartGuard, GuardInv, GuardTypes
  <1>2. /\ \A s \in SessionIds : sessionState'[s] = NoSession
        /\ \A c \in Conversations : seen'[c] = 0 /\ admitted'[c] = 0 /\ shortened'[c] = 0
    BY DEF RestartGuard
  <1> QED  BY <1>1, <1>2, FreshAfterwards DEF Fresh

LEMMA GuardStep == GuardInv /\ [GuardNext]_guardVars => GuardInv'
  <1> SUFFICES ASSUME GuardInv, [GuardNext]_guardVars PROVE GuardInv'
    OBVIOUS
  <1>1. ASSUME NEW c \in Conversations, BeforeAgentRun(c)
        PROVE  GuardInv'
    BY <1>1, AddedTurn
  <1>2. ASSUME NEW c \in Conversations, ToolCall(c)
        PROVE  GuardInv'
    BY <1>2, ToolCallStep
  <1>3. ASSUME NEW c \in Conversations, EndTurn(c)
        PROVE  GuardInv'
    BY <1>3, EndTurnStep
  <1>4. ASSUME NEW c \in Conversations, Shorten(c)
        PROVE  GuardInv'
    BY <1>4, ShortenStep
  <1>5. CASE RestartGuard
    BY <1>5, RestartGuardStep
  <1>6. CASE UNCHANGED guardVars
    <2>1. GuardTypes'
      BY <1>6 DEF guardVars, GuardInv, GuardTypes
    <2>2. /\ \A d \in Conversations : seen'[d] =< seen[d]
          /\ \A s \in SessionIds : /\ sessionState[s].cumulativeTokens \in Nat
                                   /\ sessionState[s].observedMessagesTokens \in Nat
      BY <1>6 DEF guardVars, GuardInv, GuardTypes, Counters
    <2> QED  BY <1>6, <2>1, <2>2, AccountsKept DEF guardVars
  <1> QED  BY <1>1, <1>2, <1>3, <1>4, <1>5, <1>6 DEF GuardNext, BlockTurn

\* Counters, histories and what has been seen of them keep their types: in
\* particular the host never has seen more of a history than it holds.
THEOREM GuardTypeCorrect == GuardSpec => []GuardTypeOK
  <1>1. GuardInv => GuardTypeOK
    <2> SUFFICES ASSUME GuardInv PROVE GuardTypeOK
      OBVIOUS
    <2>1. \A c \in Conversations : estimateMessagesTokenCount(history[c]) \in Nat
      BY EstimateIsNat DEF GuardInv, GuardTypes
    <2>2. \A c \in Conversations : seen[c] \in 0 .. estimateMessagesTokenCount(history[c])
      BY <2>1 DEF GuardInv, GuardTypes
    <2> QED  BY <2>2 DEF GuardInv, GuardTypes, GuardTypeOK, Counters
  <1> QED  BY <1>1, GuardInitInv, GuardStep, PTL DEF GuardSpec

\* What a session sends to the model stays within its budget, but for what
\* its histories lost and all they hold but the longest, for any number of
\* conversations, sizes and limits.
THEOREM BudgetKept == GuardSpec => []AdmittedWithinBudget
  BY AccountWithinBudget, GuardInitInv, GuardStep, PTL DEF GuardSpec

-----------------------------------------------------------------------------
(* bulk-migrate and bulk-update: what a command is.                        *)

MigrateSteps == {"key", "configure", "probe", "clone", "packages", "migrate", "smoke"}

UpdateSteps == {"pull", "install", "build", "building", "restart"}

BulkState ==
    [kind : {"none", "migrate", "update"}, left : Seq(Instances),
     at : {"idle", "ended"} \cup MigrateSteps \cup UpdateSteps, source : Nat,
     seen : [Instances -> Nat], done : SUBSET Instances, failed : SUBSET Instances]

MachineState ==
    [key : BOOLEAN, configured : BOOLEAN, repo : Nat, packages : BOOLEAN,
     built : Nat, running : Nat, memory : BOOLEAN]

\* The instances left are different ones, and none of them is done; a command
\* under way has one to work on, with the steps of its kind.
WellFormed(b) ==
    /\ b \in BulkState
    /\ IsInjective(b.left)
    /\ b.done \cap Range(b.left) = {}
    /\ b.at \notin {"idle", "ended"} => b.left # <<>>
    /\ b.at \in MigrateSteps => b.kind = "migrate"
    /\ b.at \in UpdateSteps => b.kind = "update"

\* The plugin is configured and the memory migrated as far as b has come.
Migrated(b, m) ==
    /\ b.at \in MigrateSteps \ {"key", "configure"} => m[Head(b.left)].configured
    /\ b.at = "smoke" => m[Head(b.left)].memory
    /\ b.kind = "migrate" => \A i \in b.done : m[i].configured /\ m[i].memory

Building(b, i) == b.at = "building" /\ Head(b.left) = i

\* What p has built or is building on i is not older than what it has seen,
\* and nothing older is being built.
Updated(p, i) ==
    LET b == bulk[p]
    IN  /\ Building(b, i) => /\ b.source >= b.seen[i]
                             /\ \A q \in Operators \ {p} : ~ Building(bulk[q], i)
        /\ (b.at = "restart" /\ Head(b.left) = i) \/ i \in b.done =>
              /\ machine[i].built >= b.seen[i]
              /\ \A q \in Operators : Building(bulk[q], i) => bulk[q].source >= b.seen[i]
        /\ i \in b.done => machine[i].running >= b.seen[i]

BulkInv ==
    /\ machine \in [Instances -> MachineState]
    /\ main \in Nat
    /\ bulk \in [Operators -> BulkState]
    /\ \A i \in Instances : machine[i].repo =< main
    /\ \A p \in Operators : WellFormed(bulk[p]) /\ Migrated(bulk[p], machine)
    /\ \A p \in Operators, i \in Instances :
          /\ bulk[p].seen[i] =< machine[i].repo
          /\ bulk[p].kind = "update" /\ <<p, i>> \notin mixed => Updated(p, i)

LEMMA InjectiveTail ==
    ASSUME NEW S, NEW s \in Seq(S), s # <<>>, IsInjective(s)
    PROVE  /\ Head(s) \in S /\ Tail(s) \in Seq(S) /\ IsInjective(Tail(s))
           /\ Head(s) \in Range(s)
           /\ Range(Tail(s)) = Range(s) \ {Head(s)}
           /\ Len(s) # 1 => Tail(s) # <<>>
  <1>1. /\ Head(s) \in S /\ Tail(s) \in Seq(S) /\ Len(s) \in Nat /\ Len(s) >= 1
        /\ Len(Tail(s)) = Len(s) - 1 /\ Head(s) = s[1]
        /\ \A j \in 1 .. Len(Tail(s)) : Tail(s)[j] = s[j + 1]
    BY HeadTailProperties, EmptySeq, LenProperties
  <1>2. DOMAIN s = 1 .. Len(s) /\ DOMAIN Tail(s) = 1 .. (Len(s) - 1)
    BY <1>1, LenProperties
  <1>3. \A j, k \in 1 .. Len(s) : s[j] = s[k] => j = k
    BY <1>2 DEF IsInjective
  <1>4. IsInjective(Tail(s))
    BY <1>1, <1>2, <1>3 DEF IsInjective
  <1>5. Head(s) \in Range(s)
    BY <1>1, <1>2 DEF Range
  <1>6. ASSUME NEW j \in DOMAIN Tail(s)
        PROVE  Tail(s)[j] \in Range(s) \ {Head(s)}
    BY <1>1, <1>2, <1>3 DEF Range
  <1>7. ASSUME NEW j \in DOMAIN s, s[j] # Head(s)
        PROVE  s[j] \in Range(Tail(s))
    <2>1. j - 1 \in DOMAIN Tail(s) /\ Tail(s)[j - 1] = s[j]
      BY <1>1, <1>2, <1>7
    <2> QED  BY <2>1 DEF Range
  <1>8. Range(Tail(s)) = Range(s) \ {Head(s)}
    BY <1>6, <1>7 DEF Range
  <1>9. Len(s) # 1 => Tail(s) # <<>>
    <2>1. Len(<<>>) = 0
      BY EmptySeq
    <2>2. Len(s) # 1 => Len(Tail(s)) # 0
      BY <1>1
    <2> QED  BY <2>1, <2>2
  <1> QED  BY <1>1, <1>4, <1>5, <1>8, <1>9

UnderWay(b) == WellFormed(b) /\ b.at \notin {"idle", "ended"}

LEMMA AtWork ==
    ASSUME NEW b, UnderWay(b)
    PROVE  /\ b.kind \in {"migrate", "update"} /\ Head(b.left) \in Instances
           /\ Head(b.left) \notin b.done
  <1>1. b \in BulkState /\ b.left # <<>> /\ IsInjective(b.left) /\ b.left \in Seq(Instances)
    BY DEF UnderWay, WellFormed, BulkState
  <1>2. Head(b.left) \in Range(b.left) /\ Head(b.left) \in Instances
    BY <1>1, InjectiveTail
  <1> QED  BY <1>1, <1>2 DEF UnderWay, WellFormed, BulkState

\* An instance is left behind, counted or not.
LEMMA LeavingWellFormed ==
    ASSUME NEW b, UnderWay(b), NEW l, l = Leaving(b)
    PROVE  /\ l \in BulkState /\ IsInjective(l.left)
           /\ l.kind = b.kind /\ l.seen = b.seen /\ l.done = b.done /\ l.failed = b.failed
           /\ l.at \in {"ended", "key", "pull"}
           /\ Range(l.left) = Range(b.left) \ {Head(b.left)}
           /\ WellFormed(l)
           /\ b.kind \in {"migrate", "update"} /\ Head(b.left) \in Instances
  <1>1. b \in BulkState /\ b.left # <<>> /\ IsInjective(b.left) /\ b.left \in Seq(Instances)
    BY DEF UnderWay, WellFormed, BulkState
  <1>2. /\ Tail(b.left) \in Seq(Instances) /\ IsInjective(Tail(b.left))
        /\ Range(Tail(b.left)) = Range(b.left) \ {Head(b.left)}
        /\ Len(b.left) # 1 => Tail(b.left) # <<>>
        /\ Head(b.left) \in Instances
    BY <1>1, InjectiveTail
  <1>3. b.kind \in {"migrate", "update"}
    BY AtWork
  <1>4. /\ l.left = Tail(b.left) /\ l.source = 0
        /\ l.at = IF Len(b.left) = 1 THEN "ended" ELSE FirstStep(b.kind)
        /\ l.kind = b.kind /\ l.seen = b.seen /\ l.done = b.done /\ l.failed = b.failed
    BY <1>1 DEF Leaving, BulkState
  <1>5. l.at \in {"ended", "key", "pull"}
    BY <1>4 DEF FirstStep
  <1>6. l \in BulkState
    BY <1>1, <1>2, <1>4, <1>5 DEF Leaving, BulkState, MigrateSteps, UpdateSteps
  <1>7. /\ l.at # "ended" => l.left # <<>>
        /\ l.at \in MigrateSteps => l.kind = "migrate"
        /\ l.at \in UpdateSteps => l.kind = "update"
    BY <1>2, <1>3, <1>4 DEF FirstStep, MigrateSteps, UpdateSteps
  <1>8. WellFormed(l)
    BY <1>1, <1>2, <1>4, <1>6, <1>7 DEF WellFormed, UnderWay
  <1> QED  BY <1>2, <1>3, <1>4, <1>5, <1>6, <1>8

LEMMA FailedWellFormed ==
    ASSUME NEW b, UnderWay(b), NEW f, f = Failed(b)
    PROVE  /\ WellFormed(f) /\ f.at \in {"ended", "key", "pull"}
           /\ f.kind = b.kind /\ f.seen = b.seen /\ f.done = b.done
  <1> DEFINE l == Leaving(b)
  <1>1. /\ l \in BulkState /\ IsInjective(l.left) /\ WellFormed(l)
        /\ l.kind = b.kind /\ l.seen = b.seen /\ l.done = b.done /\ l.failed = b.failed
        /\ l.at \in {"ended", "key", "pull"} /\ Head(b.left) \in Instances
    BY LeavingWellFormed
  <1> HIDE DEF l
  <1>2. f = [l EXCEPT !.failed = @ \cup {Head(b.left)}]
    BY DEF Failed, l
  <1> QED  BY <1>1, <1>2 DEF WellFormed, BulkState

LEMMA CountedWellFormed ==
    ASSUME NEW b, UnderWay(b), NEW c, c = Counted(b)
    PROVE  /\ WellFormed(c) /\ c.at \in {"ended", "key", "pull"}
           /\ c.kind = b.kind /\ c.seen = b.seen /\ c.done = b.done \cup {Head(b.left)}
  <1> DEFINE l == Leaving(b)
  <1>1. /\ l \in BulkState /\ IsInjective(l.left) /\ WellFormed(l)
        /\ Range(l.left) = Range(b.left) \ {Head(b.left)}
        /\ l.kind = b.kind /\ l.seen = b.seen /\ l.done = b.done /\ l.failed = b.failed
        /\ l.at \in {"ended", "key", "pull"} /\ Head(b.left) \in Instances
    BY LeavingWellFormed
  <1> HIDE DEF l
  <1>2. c = [l EXCEPT !.done = @ \cup {Head(b.left)}]
    BY DEF Counted, l
  <1> QED  BY <1>1, <1>2 DEF WellFormed, BulkState

(* How a step that builds and restarts nothing leaves the machines.        *)
MachinesGrow ==
    /\ machine' \in [Instances -> MachineState]
    /\ main' \in Nat /\ mixed \subseteq mixed'
    /\ \A i \in Instances :
          /\ machine[i].configured => machine'[i].configured
          /\ machine[i].memory => machine'[i].memory
          /\ machine[i].repo =< machine'[i].repo /\ machine'[i].repo =< main'
          /\ machine'[i].built = machine[i].built /\ machine'[i].running = machine[i].running

\* An operator whose command is b next: it counts nothing as updated that it
\* had not, and builds nothing.
QuietNext(p, b) ==
    /\ WellFormed(b) /\ Migrated(b, machine')
    /\ b.at \notin {"building", "restart"}
    /\ \A i \in Instances : b.seen[i] =< machine'[i].repo
    /\ b.kind = "update" => \A i \in b.done :
          bulk[p].kind = "update" /\ i \in bulk[p].done /\ b.seen[i] = bulk[p].seen[i]

LEMMA MigratedGrows ==
    ASSUME NEW b, WellFormed(b), NEW m, NEW n, Migrated(b, m),
           \A i \in Instances : /\ m[i].configured => n[i].configured
                                /\ m[i].memory => n[i].memory
    PROVE  Migrated(b, n)
  <1>1. b.at \in MigrateSteps => Head(b.left) \in Instances
    BY AtWork DEF UnderWay, MigrateSteps
  <1>2. b.done \subseteq Instances
    BY DEF WellFormed, BulkState
  <1>3. b.at = "smoke" => b.at \in MigrateSteps
    BY DEF MigrateSteps
  <1> QED  BY <1>1, <1>2, <1>3 DEF Migrated

LEMMA QuietStep ==
    ASSUME BulkInv, MachinesGrow, NEW p \in Operators, NEW b, QuietNext(p, b),
           bulk' = [bulk EXCEPT ![p] = b]
    PROVE  BulkInv'
  <1>1. /\ bulk \in [Operators -> BulkState] /\ b \in BulkState
        /\ \A q \in Operators : WellFormed(bulk[q]) /\ Migrated(bulk[q], machine)
    BY DEF BulkInv, QuietNext, WellFormed
  <1>2. /\ bulk' \in [Operators -> BulkState]
        /\ bulk'[p] = b /\ \A q \in Operators \ {p} : bulk'[q] = bulk[q]
    BY <1>1
  <1>3. ASSUME NEW q \in Operators
        PROVE  WellFormed(bulk'[q]) /\ Migrated(bulk'[q], machine')
    <2>1. CASE q = p
      BY <1>2, <2>1 DEF QuietNext
    <2>2. CASE q # p
      BY <1>1, <1>2, <2>2, MigratedGrows DEF MachinesGrow
    <2> QED  BY <2>1, <2>2
  <1>4. ASSUME NEW q \in Operators, NEW i \in Instances
        PROVE  bulk'[q].seen[i] =< machine'[i].repo
    <2>1. /\ bulk[q].seen[i] \in Nat /\ machine[i].repo \in Nat /\ machine'[i].repo \in Nat
          /\ bulk[q].seen[i] =< machine[i].repo
      BY DEF BulkInv, BulkState, MachineState, MachinesGrow
    <2>2. CASE q = p
      BY <1>2, <2>2 DEF QuietNext
    <2>3. CASE q # p
      BY <1>2, <2>1, <2>3 DEF MachinesGrow
    <2> QED  BY <2>2, <2>3
  <1>5. ASSUME NEW q \in Operators, NEW i \in Instances,
               bulk'[q].kind = "update", <<q, i>> \notin mixed'
        PROVE  Updated(q, i)'
    <2>1. \A r \in Operators, j \in Instances :
             Building(bulk'[r], j) => r # p /\ Building(bulk[r], j) /\ bulk'[r] = bulk[r]
      BY <1>2 DEF Building, QuietNext
    <2>2. /\ <<q, i>> \notin mixed
          /\ machine'[i].built = machine[i].built /\ machine'[i].running = machine[i].running
      BY <1>5 DEF MachinesGrow
    <2>3. CASE q # p
      <3>1. bulk'[q] = bulk[q] /\ Updated(q, i)
        BY <1>2, <1>5, <2>2, <2>3 DEF BulkInv
      <3> QED  BY <2>1, <2>2, <3>1 DEF Updated
    <2>4. CASE q = p
      <3>1. /\ ~ Building(b, i) /\ b.at # "restart" /\ bulk'[q] = b
            /\ i \in b.done => /\ bulk[p].kind = "update" /\ i \in bulk[p].done
                               /\ b.seen[i] = bulk[p].seen[i]
        BY <1>2, <1>5, <2>4 DEF Building, QuietNext
      <3>2. i \in b.done => Updated(p, i)
        BY <2>2, <2>4, <3>1 DEF BulkInv
      <3> QED  BY <2>1, <2>2, <2>4, <3>1, <3>2 DEF Updated
    <2> QED  BY <2>3, <2>4
  <1> QED  BY <1>2, <1>3, <1>4, <1>5 DEF BulkInv, MachinesGrow

LEMMA SeenBelow ==
    ASSUME BulkInv, MachinesGrow, NEW p \in Operators, NEW i \in Instances
    PROVE  bulk[p].seen[i] =< machine'[i].repo
  <1>1. bulk[p].seen[i] \in Nat /\ bulk[p].seen[i] =< machine[i].repo
    BY DEF BulkInv, BulkState
  <1>2. machine[i].repo \in Nat /\ machine'[i].repo \in Nat
    BY DEF BulkInv, MachineState, MachinesGrow
  <1>3. machine[i].repo =< machine'[i].repo
    BY DEF MachinesGrow
  <1> QED  BY <1>1, <1>2, <1>3

\* A command that fails on an instance, or is killed, goes on quietly.
LEMMA FailedQuiet ==
    ASSUME BulkInv, MachinesGrow, NEW p \in Operators, UnderWay(bulk[p])
    PROVE  QuietNext(p, Failed(bulk[p]))
  <1> DEFINE f == Failed(bulk[p])
  <1>1. /\ WellFormed(f) /\ f.at \in {"ended", "key", "pull"}
        /\ f.kind = bulk[p].kind /\ f.seen = bulk[p].seen /\ f.done = bulk[p].done
    BY FailedWellFormed
  <1> HIDE DEF f
  <1>2. WellFormed(bulk[p]) /\ Migrated(bulk[p], machine)
    BY DEF BulkInv
  <1>3. Migrated(bulk[p], machine')
    BY <1>2, MigratedGrows DEF MachinesGrow
  <1>4. Migrated(f, machine')
    BY <1>1, <1>3 DEF Migrated, MigrateSteps
  <1>5. ASSUME NEW i \in Instances
        PROVE  f.seen[i] =< machine'[i].repo
    BY <1>1, SeenBelow
  <1> QED  BY <1>1, <1>4, <1>5 DEF QuietNext, f

\* So does one that comes to a step whose instance is ready for it.
Ready(p, step) ==
    \/ step = "ended"
    \/ bulk[p].kind = "update" /\ step \in {"install", "build"}
    \/ bulk[p].kind = "migrate" /\ step = "configure"
    \/ /\ bulk[p].kind = "migrate"
       /\ step \in {"probe", "clone", "packages", "migrate", "smoke"}
       /\ machine'[Instance(p)].configured
       /\ step = "smoke" => machine'[Instance(p)].memory

LEMMA StepQuiet ==
    ASSUME BulkInv, MachinesGrow, NEW p \in Operators, UnderWay(bulk[p]),
           NEW step, Ready(p, step), NEW b, b = [bulk[p] EXCEPT !.at = step]
    PROVE  QuietNext(p, b)
  <1>1. bulk[p] \in BulkState /\ WellFormed(bulk[p]) /\ Migrated(bulk[p], machine)
    BY DEF BulkInv, WellFormed
  <1>2. /\ b.at = step /\ b.kind = bulk[p].kind /\ b.left = bulk[p].left
        /\ b.seen = bulk[p].seen /\ b.done = bulk[p].done
    BY <1>1 DEF BulkState
  <1>3. step \in {"ended"} \cup MigrateSteps \cup UpdateSteps
    BY DEF Ready, MigrateSteps, UpdateSteps
  <1>4. b \in BulkState
    BY <1>1, <1>3 DEF BulkState
  <1>5. WellFormed(b)
    BY <1>1, <1>2, <1>4 DEF WellFormed, UnderWay, Ready, MigrateSteps, UpdateSteps
  <1>6. Migrated(bulk[p], machine')
    BY <1>1, MigratedGrows DEF MachinesGrow
  <1>7. Migrated(b, machine')
    BY <1>2, <1>6 DEF Migrated, MigrateSteps, Ready, Instance
  <1>8. ASSUME NEW i \in Instances
        PROVE  b.seen[i] =< machine'[i].repo
    BY <1>2, SeenBelow
  <1> QED  BY <1>2, <1>5, <1>7, <1>8 DEF QuietNext, Ready

\* A step of p that changes what is on the machine of its instance.
LEMMA OneMachineGrows ==
    ASSUME BulkInv, NEW p \in Operators, UnderWay(bulk[p]),
           NEW changed \in MachineState, OnMachine(p, changed), UNCHANGED <<main, mixed>>,
           Machine(p).configured => changed.configured,
           Machine(p).memory => changed.memory,
           Machine(p).repo =< changed.repo, changed.repo =< main,
           changed.built = Machine(p).built, changed.running = Machine(p).running
    PROVE  MachinesGrow /\ machine'[Instance(p)] = changed
  <1>1. machine \in [Instances -> MachineState] /\ Instance(p) \in Instances
    BY AtWork DEF BulkInv, Instance
  <1>2. /\ machine' \in [Instances -> MachineState] /\ machine'[Instance(p)] = changed
        /\ \A i \in Instances \ {Instance(p)} : machine'[i] = machine[i]
    BY <1>1 DEF OnMachine
  <1>3. ASSUME NEW i \in Instances
        PROVE  /\ machine[i].repo =< machine[i].repo
               /\ machine[i].repo =< main
    BY <1>1 DEF BulkInv, MachineState
  <1> QED  BY <1>1, <1>2, <1>3 DEF MachinesGrow, Machine, BulkInv

LEMMA NoMachineChanges ==
    ASSUME BulkInv, UNCHANGED <<machine, main, mixed>>
    PROVE  MachinesGrow
  BY DEF BulkInv, MachinesGrow, MachineState

\* A step that comes to the next one, or breaks off.
LEMMA GoesKeeps ==
    ASSUME BulkInv, MachinesGrow, NEW p \in Operators, UnderWay(bulk[p]),
           NEW step, Ready(p, step), Goes(p, step)
    PROVE  BulkInv'
  <1>1. QuietNext(p, [bulk[p] EXCEPT !.at = step]) /\ QuietNext(p, Failed(bulk[p]))
    BY StepQuiet, FailedQuiet
  <1> DEFINE n == [bulk[p] EXCEPT !.at = step]
             f == Failed(bulk[p])
  <1>2. bulk' = [bulk EXCEPT ![p] = n] \/ bulk' = [bulk EXCEPT ![p] = f]
    BY DEF Goes, Becomes
  <1> HIDE DEF n, f
  <1>3. QuietNext(p, n) /\ QuietNext(p, f)
    BY <1>1 DEF n, f
  <1> QED  BY <1>2, <1>3, QuietStep

LEMMA AtStep ==
    ASSUME BulkInv, NEW p \in Operators
    PROVE  /\ bulk[p] \in BulkState /\ WellFormed(bulk[p]) /\ Migrated(bulk[p], machine)
           /\ bulk[p].at \notin {"idle", "ended"} =>
                 /\ UnderWay(bulk[p]) /\ Instance(p) \in Instances
                 /\ Machine(p) \in MachineState /\ Machine(p) = machine[Instance(p)]
                 /\ Machine(p).repo =< main /\ main \in Nat
                 /\ Machine(p).repo =< Machine(p).repo
  <1>1. bulk[p] \in BulkState /\ WellFormed(bulk[p]) /\ Migrated(bulk[p], machine)
    BY DEF BulkInv
  <1>2. SUFFICES ASSUME bulk[p].at \notin {"idle", "ended"}
                 PROVE  /\ UnderWay(bulk[p]) /\ Instance(p) \in Instances
                        /\ Machine(p) \in MachineState /\ Machine(p) = machine[Instance(p)]
                        /\ Machine(p).repo =< main /\ main \in Nat
                        /\ Machine(p).repo =< Machine(p).repo
    BY <1>1
  <1>3. UnderWay(bulk[p])
    BY <1>1, <1>2 DEF UnderWay
  <1>4. Instance(p) \in Instances
    BY <1>3, AtWork DEF Instance
  <1> QED  BY <1>3, <1>4 DEF BulkInv, Machine, MachineState

LEMMA MigrateKeeps ==
    ASSUME BulkInv, NEW p \in Operators,
           \/ getApiKeyFromFly(p) \/ configurePineconePlugin(p) \/ Probe(p) \/ Clone(p)
           \/ NpmInstall(p) \/ runMigrateMemory(p) \/ runSmokeTest(p)
    PROVE  BulkInv'
  <1> USE DEF BulkAt
  <1>1. bulk[p].at \in MigrateSteps /\ bulk[p].at \notin {"idle", "ended"}
    BY DEF getApiKeyFromFly, configurePineconePlugin, Probe, Clone, NpmInstall,
           runMigrateMemory, runSmokeTest, MigrateSteps
  <1>2. /\ bulk[p] \in BulkState /\ WellFormed(bulk[p]) /\ Migrated(bulk[p], machine)
        /\ UnderWay(bulk[p]) /\ Instance(p) \in Instances
        /\ Machine(p) \in MachineState /\ Machine(p) = machine[Instance(p)]
        /\ Machine(p).repo =< main /\ main \in Nat /\ Machine(p).repo =< Machine(p).repo
    BY <1>1, AtStep
  <1>3. /\ bulk[p].kind = "migrate"
        /\ bulk[p].at \notin {"key", "configure"} => Machine(p).configured
        /\ bulk[p].at = "smoke" => Machine(p).memory
    BY <1>1, <1>2 DEF WellFormed, Migrated, Instance
  <1>4. CASE getApiKeyFromFly(p)
    <2>1. MachinesGrow /\ Ready(p, "configure")
      BY <1>3, <1>4, NoMachineChanges DEF Ready, getApiKeyFromFly
    <2> QED  BY <1>2, <1>4, <2>1, GoesKeeps DEF getApiKeyFromFly
  <1>5. CASE configurePineconePlugin(p)
    <2> DEFINE changed == [Machine(p) EXCEPT !.configured = TRUE]
    <2>1. /\ changed \in MachineState /\ OnMachine(p, changed)
          /\ changed.configured /\ changed.memory = Machine(p).memory
          /\ changed.repo = Machine(p).repo /\ changed.built = Machine(p).built
          /\ changed.running = Machine(p).running
      BY <1>2, <1>5 DEF configurePineconePlugin, MachineState
    <2> HIDE DEF changed
    <2>2. MachinesGrow /\ machine'[Instance(p)] = changed
      BY <1>2, <1>5, <2>1, OneMachineGrows DEF configurePineconePlugin
    <2>3. Ready(p, "probe")
      BY <1>3, <2>1, <2>2 DEF Ready
    <2> QED  BY <1>2, <1>5, <2>2, <2>3, GoesKeeps DEF configurePineconePlugin
  <1>6. CASE Probe(p)
    <2>1. PICK step \in {"clone", "migrate"} : bulk' = [bulk EXCEPT ![p].at = step]
      BY <1>6 DEF Probe
    <2>2. MachinesGrow /\ Ready(p, step)
      BY <1>2, <1>3, <1>6, NoMachineChanges DEF Ready, Probe
    <2> DEFINE n == [bulk[p] EXCEPT !.at = step]
    <2>3. QuietNext(p, n) /\ bulk' = [bulk EXCEPT ![p] = n]
      BY <1>2, <2>1, <2>2, StepQuiet
    <2> HIDE DEF n
    <2> QED  BY <2>2, <2>3, QuietStep
  <1>7. CASE Clone(p)
    <2> DEFINE changed == [Machine(p) EXCEPT !.repo = main]
    <2>1. /\ changed \in MachineState /\ OnMachine(p, changed)
          /\ changed.configured = Machine(p).configured /\ changed.memory = Machine(p).memory
          /\ changed.repo = main /\ changed.built = Machine(p).built
          /\ changed.running = Machine(p).running
      BY <1>2, <1>7 DEF Clone, MachineState
    <2> HIDE DEF changed
    <2>2. main =< main
      BY <1>2
    <2>3. MachinesGrow /\ machine'[Instance(p)] = changed
      BY <1>2, <1>7, <2>1, <2>2, OneMachineGrows DEF Clone
    <2>4. Ready(p, "packages")
      BY <1>3, <1>7, <2>1, <2>3 DEF Ready, Clone
    <2> QED  BY <1>2, <1>7, <2>3, <2>4, GoesKeeps DEF Clone
  <1>8. CASE NpmInstall(p)
    <2>1. PICK done \in {TRUE, Machine(p).packages} :
             OnMachine(p, [Machine(p) EXCEPT !.packages = done])
      BY <1>8 DEF NpmInstall
    <2>2. done \in BOOLEAN
      BY <1>2 DEF MachineState
    <2> DEFINE changed == [Machine(p) EXCEPT !.packages = done]
    <2>3. /\ changed \in MachineState /\ OnMachine(p, changed)
          /\ changed.configured = Machine(p).configured /\ changed.memory = Machine(p).memory
          /\ changed.repo = Machine(p).repo /\ changed.built = Machine(p).built
          /\ changed.running = Machine(p).running
      BY <1>2, <2>1, <2>2 DEF MachineState
    <2> HIDE DEF changed
    <2>4. MachinesGrow /\ machine'[Instance(p)] = changed
      BY <1>2, <1>8, <2>3, OneMachineGrows DEF NpmInstall
    <2>5. Ready(p, "migrate")
      BY <1>3, <1>8, <2>3, <2>4 DEF Ready, NpmInstall
    <2> QED  BY <1>2, <1>8, <2>4, <2>5, GoesKeeps DEF NpmInstall
  <1>9. CASE runMigrateMemory(p)
    <2> DEFINE changed == [Machine(p) EXCEPT !.memory = TRUE]
    <2>1. /\ changed \in MachineState /\ OnMachine(p, changed)
          /\ changed.configured = Machine(p).configured /\ changed.memory
          /\ changed.repo = Machine(p).repo /\ changed.built = Machine(p).built
          /\ changed.running = Machine(p).running
      BY <1>2, <1>9 DEF runMigrateMemory, MachineState
    <2> HIDE DEF changed
    <2>2. MachinesGrow /\ machine'[Instance(p)] = changed
      BY <1>2, <1>9, <2>1, OneMachineGrows DEF runMigrateMemory
    <2>3. Ready(p, "smoke")
      BY <1>3, <1>9, <2>1, <2>2 DEF Ready, runMigrateMemory
    <2> QED  BY <1>2, <1>9, <2>2, <2>3, GoesKeeps DEF runMigrateMemory
  <1>10. CASE runSmokeTest(p)
    <2>1. MachinesGrow /\ machine' = machine
      BY <1>10, NoMachineChanges DEF runSmokeTest
    <2> DEFINE c == Counted(bulk[p])
               f == Failed(bulk[p])
    <2>2. /\ WellFormed(c) /\ c.at \in {"ended", "key", "pull"}
          /\ c.kind = bulk[p].kind /\ c.seen = bulk[p].seen
          /\ c.done = bulk[p].done \cup {Instance(p)}
      BY <1>2, CountedWellFormed DEF Instance
    <2>3. QuietNext(p, f)
      BY <1>2, <2>1, FailedQuiet
    <2>4. bulk' = [bulk EXCEPT ![p] = c] \/ bulk' = [bulk EXCEPT ![p] = f]
      BY <1>10 DEF runSmokeTest, Becomes
    <2> HIDE DEF c, f
    <2>5. Migrated(c, machine)
      BY <1>2, <1>3, <1>10, <2>2 DEF Migrated, MigrateSteps, runSmokeTest
    <2>6. \A i \in Instances : c.seen[i] =< machine'[i].repo
      BY <2>1, <2>2, SeenBelow
    <2>7. QuietNext(p, c)
      BY <1>3, <2>1, <2>2, <2>5, <2>6 DEF QuietNext
    <2> QED  BY <2>1, <2>3, <2>4, <2>7, QuietStep
  <1> QED  BY <1>4, <1>5, <1>6, <1>7, <1>8, <1>9, <1>10

LEMMA UpdateKeeps ==
    ASSUME BulkInv, NEW p \in Operators, GitPull(p) \/ UpdatePackages(p)
    PROVE  BulkInv'
  <1> USE DEF BulkAt
  <1>1. bulk[p].at \in {"pull", "install"} /\ bulk[p].at \in UpdateSteps
    BY DEF GitPull, UpdatePackages, UpdateSteps
  <1>2. /\ bulk[p] \in BulkState /\ WellFormed(bulk[p]) /\ Migrated(bulk[p], machine)
        /\ UnderWay(bulk[p]) /\ Instance(p) \in Instances
        /\ Machine(p) \in MachineState /\ Machine(p) = machine[Instance(p)]
        /\ Machine(p).repo =< main /\ main \in Nat /\ Machine(p).repo =< Machine(p).repo
    BY <1>1, AtStep
  <1>3. bulk[p].kind = "update" /\ main =< main
    BY <1>1, <1>2 DEF WellFormed
  <1>4. CASE UpdatePackages(p)
    <2> DEFINE changed == [Machine(p) EXCEPT !.packages = TRUE]
    <2>1. /\ changed \in MachineState /\ OnMachine(p, changed)
          /\ changed.configured = Machine(p).configured /\ changed.memory = Machine(p).memory
          /\ changed.repo = Machine(p).repo /\ changed.built = Machine(p).built
          /\ changed.running = Machine(p).running
      BY <1>2, <1>4 DEF UpdatePackages, MachineState
    <2> HIDE DEF changed
    <2>2. MachinesGrow
      BY <1>2, <1>4, <2>1, OneMachineGrows DEF UpdatePackages
    <2>3. Ready(p, "build")
      BY <1>3 DEF Ready
    <2> QED  BY <1>2, <1>4, <2>2, <2>3, GoesKeeps DEF UpdatePackages
  <1>5. CASE GitPull(p)
    <2> DEFINE changed == [Machine(p) EXCEPT !.repo = main]
               n == [bulk[p] EXCEPT !.at = "install", !.seen[Instance(p)] = main]
               f == Failed(bulk[p])
    <2>1. /\ changed \in MachineState /\ OnMachine(p, changed)
          /\ changed.configured = Machine(p).configured /\ changed.memory = Machine(p).memory
          /\ changed.repo = main /\ changed.built = Machine(p).built
          /\ changed.running = Machine(p).running
      BY <1>2, <1>5 DEF GitPull, MachineState
    <2>2. /\ n \in BulkState /\ n.at = "install" /\ n.kind = "update"
          /\ n.left = bulk[p].left /\ n.done = bulk[p].done
          /\ n.seen[Instance(p)] = main
          /\ \A i \in Instances \ {Instance(p)} : n.seen[i] = bulk[p].seen[i]
      BY <1>2, <1>3 DEF BulkState, UpdateSteps
    <2>3. bulk' = [bulk EXCEPT ![p] = n] \/ bulk' = [bulk EXCEPT ![p] = f]
      BY <1>5 DEF GitPull, Becomes
    <2> HIDE DEF changed, n
    <2>4. MachinesGrow /\ machine'[Instance(p)] = changed
      BY <1>2, <1>3, <1>5, <2>1, OneMachineGrows DEF GitPull
    <2>5. QuietNext(p, f)
      BY <1>2, <2>4, FailedQuiet
    <2> HIDE DEF f
    <2>6. WellFormed(n)
      BY <1>2, <2>2 DEF WellFormed, UnderWay, MigrateSteps
    <2>7. Migrated(n, machine')
      BY <2>2 DEF Migrated, MigrateSteps
    <2>8. ASSUME NEW i \in Instances
          PROVE  n.seen[i] =< machine'[i].repo
      BY <1>3, <2>1, <2>2, <2>4, SeenBelow
    <2>9. Instance(p) \notin bulk[p].done /\ bulk[p].done \subseteq Instances
      BY <1>2, AtWork DEF Instance, BulkState
    <2>10. QuietNext(p, n)
      BY <1>3, <2>2, <2>6, <2>7, <2>8, <2>9 DEF QuietNext
    <2> QED  BY <2>3, <2>4, <2>5, <2>10, QuietStep
  <1> QED  BY <1>4, <1>5

LEMMA StopKeeps ==
    ASSUME BulkInv, NEW p \in Operators, ExecFails(p) \/ KillBulk(p)
    PROVE  BulkInv'
  <1>1. bulk[p].at \notin {"idle", "ended"}
    BY DEF ExecFails, KillBulk
  <1>2. UnderWay(bulk[p]) /\ MachinesGrow /\ bulk[p] \in BulkState
    BY <1>1, AtStep, NoMachineChanges DEF ExecFails, KillBulk
  <1>3. CASE ExecFails(p)
    <2>1. QuietNext(p, Failed(bulk[p]))
      BY <1>2, FailedQuiet
    <2>2. bulk' = [bulk EXCEPT ![p] = Failed(bulk[p])]
      BY <1>3 DEF ExecFails
    <2> QED  BY <1>2, <2>1, <2>2, QuietStep
  <1>4. CASE KillBulk(p)
    <2> DEFINE n == [bulk[p] EXCEPT !.at = "ended"]
    <2>1. QuietNext(p, n)
      BY <1>2, StepQuiet DEF Ready
    <2>2. bulk' = [bulk EXCEPT ![p] = n]
      BY <1>4 DEF KillBulk
    <2> HIDE DEF n
    <2> QED  BY <1>2, <2>1, <2>2, QuietStep
  <1> QED  BY <1>3, <1>4

LEMMA ConfigFacts ==
    /\ Config \in Seq(Instances) /\ Config # <<>> /\ IsInjective(Config)
    /\ \A i \in Instances : <<i>> \in Seq(Instances) /\ <<i>> # <<>> /\ IsInjective(<<i>>)
  <1>1. Config \in Seq(Instances) /\ Config # <<>> /\ IsInjective(Config)
    BY BulkAssumption, EmptySeq DEF Instances
  <1>2. ASSUME NEW i \in Instances
        PROVE  <<i>> \in Seq(Instances) /\ <<i>> # <<>> /\ IsInjective(<<i>>)
    BY DEF IsInjective
  <1> QED  BY <1>1, <1>2

LEMMA NoBulkFacts ==
    /\ NoBulk \in BulkState /\ WellFormed(NoBulk) /\ NoBulk.done = {}
    /\ NoBulk.at = "idle" /\ NoBulk.kind = "none"
    /\ \A i \in Instances : NoBulk.seen[i] = 0
  <1>1. <<>> \in Seq(Instances) /\ IsInjective(<<>>)
    BY DEF IsInjective
  <1> QED  BY <1>1 DEF NoBulk, BulkState, WellFormed, MigrateSteps, UpdateSteps

LEMMA BeginKeeps ==
    ASSUME BulkInv, NEW p \in Operators, NEW kind \in {"migrate", "update"}, BeginBulk(p, kind)
    PROVE  BulkInv'
  <1>1. PICK left \in {Config} \cup {<<i>> : i \in Instances} :
           bulk' = [bulk EXCEPT ![p] = [NoBulk EXCEPT !.kind = kind, !.left = left,
                                              !.at = FirstStep(kind)]]
    BY DEF BeginBulk
  <1> DEFINE n == [NoBulk EXCEPT !.kind = kind, !.left = left, !.at = FirstStep(kind)]
  <1>2. left \in Seq(Instances) /\ left # <<>> /\ IsInjective(left)
    BY ConfigFacts
  <1>3. FirstStep(kind) \in {"key", "pull"} /\ (FirstStep(kind) = "key" <=> kind = "migrate")
    BY DEF FirstStep
  <1>4. /\ n \in BulkState /\ n.kind = kind /\ n.left = left /\ n.at = FirstStep(kind)
        /\ n.done = {} /\ n.seen = NoBulk.seen
    BY <1>2, <1>3, NoBulkFacts DEF BulkState, MigrateSteps, UpdateSteps
  <1>5. bulk' = [bulk EXCEPT ![p] = n] /\ MachinesGrow
    BY <1>1, NoMachineChanges DEF BeginBulk
  <1> HIDE DEF n
  <1>6. WellFormed(n)
    BY <1>2, <1>3, <1>4 DEF WellFormed, MigrateSteps, UpdateSteps
  <1>7. Migrated(n, machine')
    BY <1>3, <1>4 DEF Migrated, MigrateSteps
  <1>8. ASSUME NEW i \in Instances
        PROVE  n.seen[i] =< machine'[i].repo
    BY <1>4, <1>5, NoBulkFacts DEF MachinesGrow, MachineState
  <1>9. QuietNext(p, n)
    BY <1>3, <1>4, <1>6, <1>7, <1>8 DEF QuietNext
  <1> QED  BY <1>5, <1>9, QuietStep

LEMMA CommitKeeps ==
    ASSUME BulkInv, Commit
    PROVE  BulkInv'
  <1>1. /\ machine' = machine /\ bulk' = bulk /\ mixed' = mixed
        /\ main \in Nat /\ main' = main + 1
    BY DEF Commit, BulkInv
  <1>2. \A i \in Instances : machine[i].repo \in Nat /\ machine[i].repo =< main
    BY DEF BulkInv, MachineState
  <1>3. \A i \in Instances : machine[i].repo =< main'
    BY <1>1, <1>2
  <1>4. \A p \in Operators, i \in Instances : Updated(p, i)' <=> Updated(p, i)
    BY <1>1 DEF Updated
  <1> QED  BY <1>1, <1>3, <1>4 DEF BulkInv

LEMMA BuildStartKeeps ==
    ASSUME BulkInv, NEW p \in Operators, BuildStarts(p)
    PROVE  BulkInv'
  <1> DEFINE at == Instance(p)
             n == [bulk[p] EXCEPT !.at = "building", !.source = machine[at].repo]
             others == {q \in Operators : bulk[q].at = "building" /\ Instance(q) = at}
  <1>1. bulk[p].at = "build"
    BY DEF BuildStarts, BulkAt
  <1>2. /\ bulk[p] \in BulkState /\ WellFormed(bulk[p]) /\ Migrated(bulk[p], machine)
        /\ UnderWay(bulk[p]) /\ at \in Instances
        /\ Machine(p) \in MachineState /\ Machine(p) = machine[at]
    BY <1>1, AtStep
  <1>3. /\ bulk[p].kind = "update" /\ machine[at].repo \in Nat
        /\ n \in BulkState /\ n.at = "building" /\ n.source = machine[at].repo
        /\ n.kind = "update" /\ n.left = bulk[p].left /\ n.seen = bulk[p].seen
        /\ n.done = bulk[p].done
    BY <1>1, <1>2 DEF WellFormed, BulkState, UpdateSteps, MachineState
  <1>4. /\ bulk' = [bulk EXCEPT ![p] = n] /\ machine' = machine /\ main' = main
        /\ mixed \subseteq mixed'
        /\ others # {} => \A q \in others \cup {p} : <<q, at>> \in mixed'
    <2>1. bulk' = [bulk EXCEPT ![p] = n]
      BY <1>2, <1>3 DEF BuildStarts, BulkInv, Machine
    <2>2. mixed' = mixed \cup ((IF others = {} THEN {} ELSE others \cup {p}) \X {at})
      BY DEF BuildStarts, BulkAt
    <2> QED  BY <2>1, <2>2 DEF BuildStarts
  <1>5. WellFormed(n)
    BY <1>2, <1>3 DEF WellFormed, UnderWay, MigrateSteps, UpdateSteps
  <1>6. Migrated(n, machine)
    BY <1>3 DEF Migrated, MigrateSteps
  <1>7. /\ \A q \in Operators : bulk[q].at = "building" /\ Head(bulk[q].left) = at => q \in others
        /\ Head(n.left) = at
    BY <1>3 DEF Instance
  <1> HIDE DEF n, others, at
  <1>8. /\ bulk' \in [Operators -> BulkState] /\ bulk'[p] = n
        /\ \A q \in Operators \ {p} : bulk'[q] = bulk[q]
    BY <1>3, <1>4 DEF BulkInv
  <1>9. \A q \in Operators : WellFormed(bulk'[q]) /\ Migrated(bulk'[q], machine')
    BY <1>4, <1>5, <1>6, <1>8 DEF BulkInv
  <1>10. \A q \in Operators, i \in Instances :
            bulk'[q].seen = bulk[q].seen /\ bulk'[q].kind = bulk[q].kind
            /\ bulk'[q].done = bulk[q].done
    BY <1>3, <1>8
  <1>11. \A q \in Operators, i \in Instances : bulk[q].seen[i] =< machine[i].repo
    BY DEF BulkInv
  <1>12. ASSUME NEW q \in Operators, NEW i \in Instances,
                bulk'[q].kind = "update", <<q, i>> \notin mixed'
         PROVE  Updated(q, i)'
    <2>1. Updated(q, i)
      BY <1>4, <1>10, <1>12 DEF BulkInv
    <2>2. \A r \in Operators, j \in Instances : Building(bulk'[r], j) =>
             \/ r # p /\ Building(bulk[r], j) /\ bulk'[r] = bulk[r]
             \/ r = p /\ j = at /\ bulk'[r] = n
      BY <1>7, <1>8 DEF Building
    <2>3. \A r \in Operators \ {p} : Building(bulk[r], at) => others # {} /\ r \in others
      BY <1>7 DEF Building
    <2>4. bulk[q].seen[i] =< machine[i].repo
      BY <1>11
    <2>5. i = at => /\ q = p => \A r \in Operators \ {p} : ~ Building(bulk'[r], i)
                    /\ q # p => ~ Building(bulk[q], i)
      BY <1>4, <1>12, <2>2, <2>3
    <2>6. CASE q # p
      <3>1. /\ bulk'[q] = bulk[q] /\ machine' = machine
            /\ \A r \in Operators : Building(bulk'[r], i) =>
                  \/ r # p /\ Building(bulk[r], i) /\ bulk'[r].source = bulk[r].source
                  \/ r = p /\ i = at /\ bulk'[r].source = machine[i].repo
        BY <1>3, <1>4, <1>8, <2>2, <2>6
      <3>2. Building(bulk[q], i) => \A r \in Operators \ {q} : ~ Building(bulk'[r], i)
        BY <2>1, <2>5, <2>6, <3>1 DEF Updated
      <3>3. bulk[q].seen[i] \in Nat /\ machine[i].repo \in Nat
        BY DEF BulkInv, BulkState, MachineState
      <3>4. machine[i].repo >= bulk[q].seen[i]
        BY <2>4, <3>3
      <3> QED  BY <2>1, <3>1, <3>2, <3>4 DEF Updated
    <2>7. CASE q = p
      <3>1. /\ bulk'[p] = n /\ n.at = "building" /\ n.done = bulk[p].done
            /\ n.seen = bulk[p].seen /\ machine' = machine
            /\ Building(n, i) => i = at
            /\ i = at => n.source = machine[i].repo
        BY <1>3, <1>4, <1>7, <1>8 DEF Building
      <3>2. bulk[p].seen[i] \in Nat /\ machine[i].repo \in Nat
        BY DEF BulkInv, BulkState, MachineState
      <3>3. Building(n, i) => n.source >= n.seen[i]
        BY <2>4, <2>7, <3>1, <3>2
      <3>4. \A r \in Operators : Building(bulk'[r], i) =>
               \/ r # p /\ Building(bulk[r], i) /\ bulk'[r].source = bulk[r].source
               \/ r = p /\ Building(n, i) /\ bulk'[r] = n
        BY <1>8, <2>2
      <3>5. i \in n.done =>
               /\ machine[i].built >= n.seen[i] /\ machine[i].running >= n.seen[i]
               /\ \A r \in Operators : Building(bulk[r], i) => bulk[r].source >= n.seen[i]
        BY <2>1, <2>7, <3>1 DEF Updated
      <3> QED  BY <2>5, <2>7, <3>1, <3>3, <3>4, <3>5 DEF Updated
    <2> QED  BY <2>6, <2>7
  <1> QED  BY <1>4, <1>8, <1>9, <1>10, <1>12 DEF BulkInv

\* A step of p that ends or loads a build on the machine of its instance.
LoadsBuild(p, b, at) ==
    /\ bulk' = [bulk EXCEPT ![p] = b]
    /\ WellFormed(b) /\ b.kind = "update" /\ b.seen = bulk[p].seen
    /\ b.at \in {"restart", "ended", "key", "pull"}
    /\ at \in Instances /\ machine' \in [Instances -> MachineState]
    /\ \A i \in Instances \ {at} : machine'[i] = machine[i]
    /\ machine'[at].repo = machine[at].repo /\ machine'[at].memory = machine[at].memory
    /\ machine'[at].configured = machine[at].configured
    /\ UNCHANGED <<main, mixed>>

LEMMA LoadKeeps ==
    ASSUME BulkInv, NEW p \in Operators, NEW b, NEW at,
           LoadsBuild(p, b, at), bulk[p].kind = "update",
           \A q \in Operators, i \in Instances :
              bulk[q].kind = "update" /\ <<q, i>> \notin mixed => Updated(q, i)'
    PROVE  BulkInv'
  <1>1. /\ bulk \in [Operators -> BulkState] /\ b \in BulkState
        /\ bulk' = [bulk EXCEPT ![p] = b]
    BY DEF BulkInv, LoadsBuild, WellFormed
  <1>2. /\ bulk' \in [Operators -> BulkState] /\ bulk'[p] = b
        /\ \A q \in Operators \ {p} : bulk'[q] = bulk[q]
    BY <1>1
  <1>3. /\ \A i \in Instances : /\ machine'[i].repo = machine[i].repo
                                /\ machine'[i].memory = machine[i].memory
                                /\ machine'[i].configured = machine[i].configured
        /\ machine' \in [Instances -> MachineState]
        /\ main' = main /\ mixed' = mixed
    BY DEF LoadsBuild
  <1>4. Migrated(b, machine')
    BY DEF LoadsBuild, Migrated, MigrateSteps
  <1>5. ASSUME NEW q \in Operators
        PROVE  /\ WellFormed(bulk'[q]) /\ Migrated(bulk'[q], machine')
               /\ bulk'[q].seen = bulk[q].seen /\ bulk'[q].kind = bulk[q].kind
    <2>1. WellFormed(bulk[q]) /\ Migrated(bulk[q], machine)
      BY DEF BulkInv
    <2>2. Migrated(bulk[q], machine')
      BY <1>3, <2>1, MigratedGrows
    <2> QED  BY <1>2, <1>4, <2>1, <2>2 DEF LoadsBuild
  <1>6. \A i \in Instances : machine'[i].repo =< main'
    BY <1>3 DEF BulkInv
  <1>7. \A q \in Operators, i \in Instances : bulk'[q].seen[i] =< machine'[i].repo
    BY <1>3, <1>5 DEF BulkInv
  <1>8. \A q \in Operators, i \in Instances :
           bulk'[q].kind = "update" /\ <<q, i>> \notin mixed' => Updated(q, i)'
    BY <1>3, <1>5
  <1>9. main' \in Nat
    BY <1>3 DEF BulkInv
  <1> QED  BY <1>2, <1>3, <1>5, <1>6, <1>7, <1>8, <1>9 DEF BulkInv

LEMMA BuildEndKeeps ==
    ASSUME BulkInv, NEW p \in Operators, BuildEnds(p)
    PROVE  BulkInv'
  <1> DEFINE at == Instance(p)
             source == bulk[p].source
             n == [bulk[p] EXCEPT !.at = "restart"]
             f == Failed(bulk[p])
  <1>1. bulk[p].at = "building"
    BY DEF BuildEnds, BulkAt
  <1>2. /\ bulk[p] \in BulkState /\ WellFormed(bulk[p])
        /\ UnderWay(bulk[p]) /\ at \in Instances /\ at \notin bulk[p].done
        /\ Machine(p) \in MachineState /\ Machine(p) = machine[at]
        /\ bulk[p].kind = "update" /\ Head(bulk[p].left) = at
    BY <1>1, AtStep, AtWork DEF WellFormed, UpdateSteps, Instance
  <1>3. /\ machine \in [Instances -> MachineState] /\ source \in Nat
        /\ machine' = [machine EXCEPT ![at] = [Machine(p) EXCEPT !.built = source]]
        /\ main' = main /\ mixed' = mixed
        /\ bulk' = [bulk EXCEPT ![p] = n] \/ bulk' = [bulk EXCEPT ![p] = f]
    BY <1>2 DEF BuildEnds, OnMachine, Goes, Becomes, BulkInv, BulkState
  <1>4. /\ machine' \in [Instances -> MachineState]
        /\ \A i \in Instances \ {at} : machine'[i] = machine[i]
        /\ machine'[at].built = source /\ machine'[at].running = machine[at].running
        /\ machine'[at].repo = machine[at].repo /\ machine'[at].memory = machine[at].memory
        /\ machine'[at].configured = machine[at].configured
    BY <1>2, <1>3 DEF MachineState
  <1>5. /\ n \in BulkState /\ n.at = "restart" /\ n.kind = "update" /\ n.left = bulk[p].left
        /\ n.seen = bulk[p].seen /\ n.done = bulk[p].done
    BY <1>2 DEF BulkState, UpdateSteps
  <1>6. WellFormed(n)
    BY <1>2, <1>5 DEF WellFormed, UnderWay, MigrateSteps, UpdateSteps
  <1>7. /\ WellFormed(f) /\ f.at \in {"ended", "key", "pull"}
        /\ f.kind = "update" /\ f.seen = bulk[p].seen /\ f.done = bulk[p].done
    BY <1>2, FailedWellFormed
  <1> HIDE DEF n, f, at, source
  <1>8. PICK b : /\ bulk' = [bulk EXCEPT ![p] = b]
                 /\ WellFormed(b) /\ b.kind = "update" /\ b.seen = bulk[p].seen
                 /\ b.done = bulk[p].done
                 /\ b.at \in {"restart", "ended", "key", "pull"}
                 /\ b.at = "restart" => Head(b.left) = at
    BY <1>2, <1>3, <1>5, <1>6, <1>7
  <1>9. LoadsBuild(p, b, at)
    BY <1>2, <1>3, <1>4, <1>8 DEF LoadsBuild
  <1>10. /\ bulk'[p] = b /\ \A q \in Operators \ {p} : bulk'[q] = bulk[q]
    BY <1>8 DEF BulkInv
  <1>11. ASSUME NEW q \in Operators, NEW i \in Instances,
                bulk[q].kind = "update", <<q, i>> \notin mixed
         PROVE  Updated(q, i)'
    <2>1. Updated(q, i)
      BY <1>11 DEF BulkInv
    <2>2. \A r \in Operators : Building(bulk'[r], i) =>
             r # p /\ Building(bulk[r], i) /\ bulk'[r] = bulk[r]
      BY <1>8, <1>10 DEF Building
    <2>3. Building(bulk[p], at) /\ bulk[p].source = source
      BY <1>1, <1>2 DEF Building, source
    <2>4. /\ i # at => machine'[i].built = machine[i].built
          /\ i = at => machine'[i].built = source
          /\ machine'[i].running = machine[i].running
      BY <1>4
    <2>5. CASE q = p
      <3>1. bulk'[q] = b /\ ~ Building(b, i) /\ (b.at = "restart" /\ Head(b.left) = i => i = at)
        BY <1>8, <1>10, <2>5 DEF Building
      <3>2. b.done = bulk[q].done /\ at \notin b.done /\ b.seen = bulk[q].seen
        BY <1>2, <1>8, <2>5
      <3>3. i = at => /\ source >= b.seen[i]
                      /\ \A r \in Operators : ~ Building(bulk'[r], i)
        BY <2>1, <2>2, <2>3, <2>5, <3>2 DEF Updated
      <3>4. i # at => ~ (b.at = "restart" /\ Head(b.left) = i)
        BY <3>1
      <3>5. i \in b.done =>
               /\ machine'[i].built >= b.seen[i] /\ machine'[i].running >= b.seen[i]
               /\ \A r \in Operators : Building(bulk'[r], i) => bulk'[r].source >= b.seen[i]
        BY <2>1, <2>2, <2>4, <3>2 DEF Updated
      <3>6. b.at = "restart" /\ Head(b.left) = i =>
               /\ machine'[i].built >= b.seen[i]
               /\ \A r \in Operators : Building(bulk'[r], i) => bulk'[r].source >= b.seen[i]
        BY <2>4, <3>3, <3>4
      <3> QED  BY <3>1, <3>5, <3>6 DEF Updated
    <2>6. CASE q # p
      <3>1. bulk'[q] = bulk[q]
        BY <1>10, <2>6
      <3>2. (bulk[q].at = "restart" /\ Head(bulk[q].left) = i) \/ i \in bulk[q].done =>
               /\ machine'[i].built >= bulk[q].seen[i]
               /\ \A r \in Operators : Building(bulk'[r], i) => bulk'[r].source >= bulk[q].seen[i]
        BY <2>1, <2>2, <2>3, <2>4 DEF Updated
      <3>3. Building(bulk[q], i) => /\ bulk[q].source >= bulk[q].seen[i]
                                    /\ \A r \in Operators \ {q} : ~ Building(bulk'[r], i)
        BY <2>1, <2>2 DEF Updated
      <3>4. i \in bulk[q].done => machine'[i].running >= bulk[q].seen[i]
        BY <2>1, <2>4 DEF Updated
      <3> QED  BY <3>1, <3>2, <3>3, <3>4 DEF Updated
    <2> QED  BY <2>5, <2>6
  <1> QED  BY <1>2, <1>9, <1>11, LoadKeeps

LEMMA RestartKeeps ==
    ASSUME BulkInv, NEW p \in Operators, MachineRestart(p)
    PROVE  BulkInv'
  <1> DEFINE at == Instance(p)
             c == Counted(bulk[p])
             f == Failed(bulk[p])
  <1>1. bulk[p].at = "restart"
    BY DEF MachineRestart, BulkAt
  <1>2. /\ bulk[p] \in BulkState /\ WellFormed(bulk[p])
        /\ UnderWay(bulk[p]) /\ at \in Instances
        /\ Machine(p) \in MachineState /\ Machine(p) = machine[at]
        /\ bulk[p].kind = "update" /\ Head(bulk[p].left) = at
    BY <1>1, AtStep DEF WellFormed, UpdateSteps, Instance
  <1>3. /\ machine \in [Instances -> MachineState]
        /\ machine' = [machine EXCEPT ![at] = [Machine(p) EXCEPT !.running = Machine(p).built]]
        /\ main' = main /\ mixed' = mixed
        /\ bulk' = [bulk EXCEPT ![p] = c] \/ bulk' = [bulk EXCEPT ![p] = f]
    BY <1>2 DEF MachineRestart, OnMachine, Becomes, BulkInv
  <1>4. /\ machine' \in [Instances -> MachineState]
        /\ \A i \in Instances \ {at} : machine'[i] = machine[i]
        /\ machine'[at].built = machine[at].built /\ machine'[at].running = machine[at].built
        /\ machine'[at].repo = machine[at].repo /\ machine'[at].memory = machine[at].memory
        /\ machine'[at].configured = machine[at].configured
    BY <1>2, <1>3 DEF MachineState
  <1>5. /\ WellFormed(c) /\ c.at \in {"ended", "key", "pull"}
        /\ c.kind = "update" /\ c.seen = bulk[p].seen /\ c.done = bulk[p].done \cup {at}
    BY <1>2, CountedWellFormed
  <1>6. /\ WellFormed(f) /\ f.at \in {"ended", "key", "pull"}
        /\ f.kind = "update" /\ f.seen = bulk[p].seen /\ f.done = bulk[p].done
    BY <1>2, FailedWellFormed
  <1> HIDE DEF c, f, at
  <1>7. PICK b : /\ bulk' = [bulk EXCEPT ![p] = b]
                 /\ WellFormed(b) /\ b.kind = "update" /\ b.seen = bulk[p].seen
                 /\ b.done \subseteq bulk[p].done \cup {at}
                 /\ b.at \in {"ended", "key", "pull"}
    BY <1>3, <1>5, <1>6
  <1>8. LoadsBuild(p, b, at)
    BY <1>2, <1>3, <1>4, <1>7 DEF LoadsBuild
  <1>9. /\ bulk'[p] = b /\ \A q \in Operators \ {p} : bulk'[q] = bulk[q]
    BY <1>7 DEF BulkInv
  <1>10. ASSUME NEW q \in Operators, NEW i \in Instances,
                bulk[q].kind = "update", <<q, i>> \notin mixed
         PROVE  Updated(q, i)'
    <2>1. Updated(q, i)
      BY <1>10 DEF BulkInv
    <2>2. \A r \in Operators : Building(bulk'[r], i) =>
             r # p /\ Building(bulk[r], i) /\ bulk'[r] = bulk[r]
      BY <1>7, <1>9 DEF Building
    <2>3. /\ i # at => machine'[i].running = machine[i].running
          /\ i = at => machine'[i].running = machine[i].built
          /\ machine'[i].built = machine[i].built
      BY <1>4
    <2>4. (bulk[q].at = "restart" /\ Head(bulk[q].left) = i) \/ i \in bulk[q].done =>
             /\ machine'[i].built >= bulk[q].seen[i]
             /\ \A r \in Operators : Building(bulk'[r], i) => bulk'[r].source >= bulk[q].seen[i]
      BY <2>1, <2>2, <2>3 DEF Updated
    <2>5. i \in bulk[q].done => machine'[i].running >= bulk[q].seen[i]
      BY <2>1, <2>3 DEF Updated
    <2>6. CASE q = p
      <3>1. /\ bulk'[q] = b /\ ~ Building(b, i) /\ b.at # "restart" /\ b.seen = bulk[q].seen
            /\ i \in b.done => i \in bulk[q].done \/ i = at
        BY <1>7, <1>9, <2>6 DEF Building
      <3>2. i = at => machine'[i].running >= bulk[q].seen[i] /\ machine'[i].built >= bulk[q].seen[i]
        BY <1>1, <1>2, <2>3, <2>4, <2>6
      <3>3. i = at => \A r \in Operators : Building(bulk'[r], i) => bulk'[r].source >= bulk[q].seen[i]
        BY <1>1, <1>2, <2>4, <2>6
      <3> QED  BY <2>4, <2>5, <3>1, <3>2, <3>3 DEF Updated
    <2>7. CASE q # p
      <3>1. bulk'[q] = bulk[q]
        BY <1>9, <2>7
      <3>2. Building(bulk[q], i) => /\ bulk[q].source >= bulk[q].seen[i]
                                    /\ \A r \in Operators \ {q} : ~ Building(bulk'[r], i)
        BY <2>1, <2>2 DEF Updated
      <3> QED  BY <2>4, <2>5, <3>1, <3>2 DEF Updated
    <2> QED  BY <2>6, <2>7
  <1> QED  BY <1>2, <1>8, <1>10, LoadKeeps

LEMMA BulkInitInv == BulkInit => BulkInv
  <1> SUFFICES ASSUME BulkInit
               PROVE  BulkInv
    OBVIOUS
  <1>1. /\ machine \in [Instances -> {NewMachine(key) : key \in BOOLEAN}]
        /\ main = 1 /\ bulk = [p \in Operators |-> NoBulk]
    BY DEF BulkInit
  <1>2. \A key \in BOOLEAN : NewMachine(key) \in MachineState /\ NewMachine(key).repo = 0
    BY DEF NewMachine, MachineState
  <1>3. machine \in [Instances -> MachineState] /\ \A i \in Instances : machine[i].repo = 0
    BY <1>1, <1>2
  <1>4. Migrated(NoBulk, machine)
    BY NoBulkFacts DEF Migrated, MigrateSteps
  <1>5. \A p \in Operators : bulk[p] = NoBulk
    BY <1>1
  <1>6. bulk \in [Operators -> BulkState]
    BY <1>1, NoBulkFacts
  <1>7. \A p \in Operators, i \in Instances :
           bulk[p].seen[i] =< machine[i].repo /\ bulk[p].kind # "update"
    BY <1>3, <1>5, NoBulkFacts
  <1> QED  BY <1>1, <1>3, <1>4, <1>5, <1>6, <1>7, NoBulkFacts DEF BulkInv

LEMMA BulkStep == BulkInv /\ [BulkNext]_bulkVars => BulkInv'
  <1> SUFFICES ASSUME BulkInv, [BulkNext]_bulkVars
               PROVE  BulkInv'
    OBVIOUS
  <1>1. CASE UNCHANGED bulkVars
    <2>1. machine' = machine /\ main' = main /\ bulk' = bulk /\ mixed' = mixed
      BY <1>1 DEF bulkVars
    <2>2. \A p \in Operators, i \in Instances : Updated(p, i)' <=> Updated(p, i)
      BY <2>1 DEF Updated
    <2> QED  BY <2>1, <2>2 DEF BulkInv
  <1>2. ASSUME NEW p \in Operators,
               \/ \E kind \in {"migrate", "update"} : BeginBulk(p, kind)
               \/ getApiKeyFromFly(p) \/ configurePineconePlugin(p) \/ Probe(p) \/ Clone(p)
               \/ NpmInstall(p) \/ runMigrateMemory(p) \/ runSmokeTest(p)
               \/ GitPull(p) \/ UpdatePackages(p) \/ BuildStarts(p) \/ BuildEnds(p)
               \/ MachineRestart(p)
               \/ ExecFails(p) \/ KillBulk(p)
        PROVE  BulkInv'
    BY <1>2, BeginKeeps, MigrateKeeps, UpdateKeeps, BuildStartKeeps, BuildEndKeeps,
       RestartKeeps, StopKeeps
  <1>3. CASE Commit
    BY <1>3, CommitKeeps
  <1> QED  BY <1>1, <1>2, <1>3 DEF BulkNext

\* What bulk-migrate and bulk-update count as done has been done (bulkMigrate,
\* bulkUpdate), for any configuration file and any number of operators.
THEOREM CountedDone == BulkSpec => []CountedIsDone
  <1>1. BulkInv => CountedIsDone
    <2> SUFFICES ASSUME BulkInv, NEW p \in Operators, NEW i \in bulk[p].done
                 PROVE  /\ bulk[p].kind = "migrate" => machine[i].configured /\ machine[i].memory
                        /\ bulk[p].kind = "update" /\ <<p, i>> \notin mixed
                              => machine[i].running >= bulk[p].seen[i]
      BY DEF CountedIsDone
    <2>1. i \in Instances /\ Migrated(bulk[p], machine)
      BY AtStep DEF BulkState
    <2>2. bulk[p].kind = "update" /\ <<p, i>> \notin mixed => Updated(p, i)
      BY <2>1 DEF BulkInv
    <2> QED  BY <2>1, <2>2 DEF Migrated, Updated
  <1> QED  BY <1>1, BulkInitInv, BulkStep, PTL DEF BulkSpec

-----------------------------------------------------------------------------
(* bulk-migrate and bulk-update: type correctness.                         *)

\* What a command has left of Config, from one of its instances on, or of the
\* one instance that it is for.
Unfinished(s) ==
    \/ Len(s) = 1
    \/ \E k \in 0 .. Len(Config) :
          Len(s) = Len(Config) - k /\ \A j \in 1 .. Len(s) : s[j] = Config[j + k]

\* What BulkTypeOK says beyond BulkInv: no version comes from the future, and
\* an instance is left when those before it are.
BulkBounds ==
    /\ main >= 1 /\ main =< MaxCommits
    /\ \A i \in Instances : machine[i].built =< main /\ machine[i].running =< main
    /\ mixed \subseteq Operators \X Instances
    /\ \A p \in Operators : bulk[p].source =< main /\ Unfinished(bulk[p].left)

LEMMA UnfinishedTail ==
    ASSUME NEW s \in Seq(Instances), s # <<>>, Unfinished(s)
    PROVE  Unfinished(Tail(s))
  <1>1. /\ Len(s) \in Nat /\ Len(s) >= 1 /\ Len(Config) \in Nat
        /\ Len(Tail(s)) = Len(s) - 1
        /\ \A j \in 1 .. Len(Tail(s)) : Tail(s)[j] = s[j + 1]
    BY ConfigFacts, HeadTailProperties, EmptySeq, LenProperties
  <1>2. CASE Len(s) = 1
    <2> DEFINE n == Len(Tail(s))
               k == Len(Config)
    <2>1. n = 0 /\ k \in 0 .. Len(Config) /\ n = Len(Config) - k
      BY <1>1, <1>2
    <2> HIDE DEF n, k
    <2>2. \A j \in 1 .. n : FALSE
      BY <2>1
    <2> QED  BY <2>1, <2>2 DEF Unfinished, n
  <1>3. ASSUME NEW k \in 0 .. Len(Config), Len(s) = Len(Config) - k,
               \A j \in 1 .. Len(s) : s[j] = Config[j + k]
        PROVE  Unfinished(Tail(s))
    <2>1. k + 1 \in 0 .. Len(Config) /\ Len(Tail(s)) = Len(Config) - (k + 1)
      BY <1>1, <1>3
    <2>2. ASSUME NEW j \in 1 .. Len(Tail(s))
          PROVE  Tail(s)[j] = Config[j + (k + 1)]
      <3>1. j \in Int /\ j + 1 \in 1 .. Len(s) /\ (j + 1) + k = j + (k + 1)
        BY <1>1
      <3> QED  BY <1>1, <1>3, <3>1
    <2> QED  BY <2>1, <2>2 DEF Unfinished
  <1> QED  BY <1>2, <1>3 DEF Unfinished

LEMMA ReverseTyped ==
    ASSUME NEW S, NEW s \in Seq(S)
    PROVE  /\ Reverse(s) \in Seq(S) /\ Len(Reverse(s)) = Len(s)
           /\ \A i \in 1 .. Len(s) : Reverse(s)[i] = s[(Len(s) - i) + 1]
  <1>1. Len(s) \in Nat
    BY LenProperties
  <1>2. \A i \in 1 .. Len(s) : (Len(s) - i) + 1 \in 1 .. Len(s)
    BY <1>1
  <1>3. \A i \in 1 .. Len(s) : s[i] \in S
    BY ElementOfSeq
  <1>4. Reverse(s) \in [1 .. Len(s) -> S]
    BY <1>2, <1>3 DEF Reverse
  <1>5. Reverse(s) \in Seq(S)
    BY <1>1, <1>4, SeqDef
  <1>6. Len(Reverse(s)) = Len(s)
    BY <1>1, <1>4, <1>5, LenProperties
  <1> QED  BY <1>5, <1>6 DEF Reverse

LEMMA UnfinishedSuffix ==
    ASSUME NEW s \in Seq(Instances), Unfinished(s)
    PROVE  IsSuffix(s, Config) \/ Len(s) = 1
  <1>1. SUFFICES ASSUME NEW k \in 0 .. Len(Config), Len(s) = Len(Config) - k,
                        \A j \in 1 .. Len(s) : s[j] = Config[j + k]
                 PROVE  IsSuffix(s, Config)
    BY DEF Unfinished
  <1> DEFINE n == Len(s)
             m == Len(Config)
             r == Reverse(s)
             t == Reverse(Config)
  <1>2. n \in Nat /\ m \in Nat /\ k \in Nat /\ m = n + k
    BY <1>1, ConfigFacts, LenProperties
  <1>3. /\ r \in Seq(Instances) /\ Len(r) = n
        /\ t \in Seq(Instances) /\ Len(t) = m
        /\ \A i \in 1 .. n : r[i] = s[(n - i) + 1]
        /\ \A i \in 1 .. m : t[i] = Config[(m - i) + 1]
    BY ConfigFacts, ReverseTyped
  <1>4. \A j \in 1 .. n : s[j] = Config[j + k]
    BY <1>1
  <1>5. IsSuffix(s, Config) <=> n =< m /\ SubSeq(r, 1, n) = SubSeq(t, 1, n)
    BY <1>3 DEF IsSuffix, IsPrefix
  <1> HIDE DEF n, m, r, t
  <1>6. ASSUME NEW i \in 1 .. n
        PROVE  r[i] = t[i] /\ r[i] \in Instances /\ t[i] \in Instances
    <2>1. /\ (n - i) + 1 \in 1 .. n /\ ((n - i) + 1) + k = (m - i) + 1
          /\ i \in 1 .. m
      BY <1>2
    <2>2. s[(n - i) + 1] = Config[((n - i) + 1) + k]
      BY <1>4, <2>1
    <2>3. r[i] = t[i]
      BY <1>3, <2>1, <2>2
    <2> QED  BY <1>3, <2>1, <2>3, ElementOfSeq
  <1>7. /\ SubSeq(r, 1, n) \in Seq(Instances) /\ Len(SubSeq(r, 1, n)) = n
        /\ \A i \in 1 .. n : SubSeq(r, 1, n)[i] = r[i]
    <2>1. /\ SubSeq(r, 1, n) \in Seq(Instances)
          /\ Len(SubSeq(r, 1, n)) = IF 1 =< n THEN n - 1 + 1 ELSE 0
          /\ \A i \in 1 .. n - 1 + 1 : SubSeq(r, 1, n)[i] = r[1 + i - 1]
      BY <1>2, <1>6, SubSeqProperties
    <2> HIDE DEF n
    <2>2. n - 1 + 1 = n /\ \A i \in 1 .. n : 1 + i - 1 = i
      BY <1>2
    <2> QED  BY <1>2, <2>1, <2>2
  <1>8. /\ SubSeq(t, 1, n) \in Seq(Instances) /\ Len(SubSeq(t, 1, n)) = n
        /\ \A i \in 1 .. n : SubSeq(t, 1, n)[i] = t[i]
    <2>1. /\ SubSeq(t, 1, n) \in Seq(Instances)
          /\ Len(SubSeq(t, 1, n)) = IF 1 =< n THEN n - 1 + 1 ELSE 0
          /\ \A i \in 1 .. n - 1 + 1 : SubSeq(t, 1, n)[i] = t[1 + i - 1]
      BY <1>2, <1>6, SubSeqProperties
    <2>2. n - 1 + 1 = n /\ \A i \in 1 .. n : 1 + i - 1 = i
      BY <1>2
    <2> QED  BY <1>2, <2>1, <2>2
  <1> DEFINE a == SubSeq(r, 1, n)
             b == SubSeq(t, 1, n)
  <1>9. /\ a \in Seq(Instances) /\ b \in Seq(Instances) /\ Len(a) = Len(b)
        /\ \A i \in 1 .. Len(a) : a[i] = b[i]
    BY <1>6, <1>7, <1>8
  <1> HIDE DEF a, b
  <1>10. a = b
    BY <1>9, SeqEqual
  <1> QED  BY <1>2, <1>5, <1>10 DEF a, b

\* What an action of p makes of his command: it stays with its instance, and
\* builds what is on it at most; or it leaves it.
Follows(p, b) ==
    \/ b.left = bulk[p].left /\ b.source \in {bulk[p].source, Machine(p).repo}
    \/ b.left = Tail(bulk[p].left) /\ b.source = 0

LEMMA LeavingFollows ==
    ASSUME BulkInv, NEW p \in Operators, UnderWay(bulk[p])
    PROVE  Follows(p, Failed(bulk[p])) /\ Follows(p, Counted(bulk[p]))
  <1> DEFINE l == Leaving(bulk[p])
  <1>1. bulk[p] \in BulkState
    BY DEF BulkInv
  <1>2. l \in BulkState
    BY LeavingWellFormed
  <1>3. l.left = Tail(bulk[p].left) /\ l.source = 0
    BY <1>1 DEF Leaving, BulkState
  <1>4. /\ Failed(bulk[p]) = [l EXCEPT !.failed = @ \cup {Head(bulk[p].left)}]
        /\ Counted(bulk[p]) = [l EXCEPT !.done = @ \cup {Head(bulk[p].left)}]
    BY DEF Failed, Counted
  <1> HIDE DEF l
  <1>5. /\ Failed(bulk[p]).left = l.left /\ Failed(bulk[p]).source = l.source
        /\ Counted(bulk[p]).left = l.left /\ Counted(bulk[p]).source = l.source
    BY <1>2, <1>4 DEF BulkState
  <1> QED  BY <1>3, <1>5 DEF Follows

LEMMA StaysFollows ==
    ASSUME BulkInv, NEW p \in Operators, NEW step
    PROVE  Follows(p, [bulk[p] EXCEPT !.at = step])
  BY DEF BulkInv, BulkState, Follows

\* What an action of p may change.
BoundedStep(p) ==
    /\ main' = main
    /\ \/ machine' = machine
       \/ \E changed \in MachineState :
             OnMachine(p, changed) /\ changed.built =< main /\ changed.running =< main
    /\ \E b : bulk' = [bulk EXCEPT ![p] = b] /\ Follows(p, b)
    /\ mixed' \ mixed \subseteq Operators \X Instances

LEMMA BoundedStepKeeps ==
    ASSUME BulkInv, BulkBounds, NEW p \in Operators, UnderWay(bulk[p]), BoundedStep(p)
    PROVE  BulkBounds'
  <1>1. /\ bulk \in [Operators -> BulkState] /\ machine \in [Instances -> MachineState]
        /\ main \in Nat /\ main' = main /\ Instance(p) \in Instances
        /\ Machine(p).repo =< main
        /\ bulk[p].left \in Seq(Instances) /\ bulk[p].left # <<>>
    BY AtStep DEF BulkInv, BoundedStep, UnderWay, WellFormed, BulkState
  <1>2. \A i \in Instances : machine'[i].built =< main /\ machine'[i].running =< main
    <2>1. CASE machine' = machine
      BY <2>1 DEF BulkBounds
    <2>2. ASSUME NEW changed \in MachineState, OnMachine(p, changed),
                 changed.built =< main, changed.running =< main
          PROVE  \A i \in Instances : machine'[i].built =< main /\ machine'[i].running =< main
      BY <1>1, <2>2 DEF OnMachine, BulkBounds
    <2> QED  BY <2>1, <2>2 DEF BoundedStep
  <1>3. \A q \in Operators : bulk'[q].source =< main /\ Unfinished(bulk'[q].left)
    <2>1. PICK b : bulk' = [bulk EXCEPT ![p] = b] /\ Follows(p, b)
      BY DEF BoundedStep
    <2>2. b.source =< main /\ Unfinished(b.left)
      <3>1. bulk[p].source =< main /\ Unfinished(bulk[p].left) /\ 0 =< main
        BY <1>1 DEF BulkBounds
      <3>2. Unfinished(Tail(bulk[p].left))
        BY <1>1, <3>1, UnfinishedTail
      <3> QED  BY <1>1, <2>1, <3>1, <3>2 DEF Follows
    <2>3. \A q \in Operators : bulk'[q] = IF q = p THEN b ELSE bulk[q]
      BY <1>1, <2>1
    <2> QED  BY <2>2, <2>3 DEF BulkBounds
  <1>4. mixed' \subseteq Operators \X Instances
    BY DEF BoundedStep, BulkBounds
  <1>5. \A q \in Operators : Unfinished(bulk'[q].left) => Unfinished(bulk[q].left)'
    BY DEF Unfinished
  <1> QED  BY <1>1, <1>2, <1>3, <1>4, <1>5 DEF BulkBounds

\* Who is under way either comes to his next step or fails.
LEMMA BecomesFollows ==
    ASSUME BulkInv, NEW p \in Operators, UnderWay(bulk[p]), NEW b, Follows(p, b), Becomes(p, b)
    PROVE  \E n : bulk' = [bulk EXCEPT ![p] = n] /\ Follows(p, n)
  <1>1. Follows(p, Failed(bulk[p]))
    BY LeavingFollows
  <1>2. bulk' = [bulk EXCEPT ![p] = b] \/ bulk' = [bulk EXCEPT ![p] = Failed(bulk[p])]
    BY DEF Becomes
  <1> QED  BY <1>1, <1>2

LEMMA ActionBounded ==
    ASSUME BulkInv, BulkBounds, NEW p \in Operators,
           \/ getApiKeyFromFly(p) \/ configurePineconePlugin(p) \/ Probe(p) \/ Clone(p)
           \/ NpmInstall(p) \/ runMigrateMemory(p) \/ runSmokeTest(p)
           \/ GitPull(p) \/ UpdatePackages(p) \/ BuildStarts(p) \/ BuildEnds(p)
           \/ MachineRestart(p) \/ ExecFails(p) \/ KillBulk(p)
    PROVE  UnderWay(bulk[p]) /\ BoundedStep(p)
  <1>1. bulk[p].at \notin {"idle", "ended"}
    BY DEF BulkAt, getApiKeyFromFly, configurePineconePlugin, Probe, Clone, NpmInstall,
           runMigrateMemory, runSmokeTest, GitPull, UpdatePackages, BuildStarts, BuildEnds,
           MachineRestart, ExecFails, KillBulk
  <1>2. /\ bulk \in [Operators -> BulkState] /\ bulk[p] \in BulkState
        /\ UnderWay(bulk[p]) /\ Instance(p) \in Instances
        /\ Machine(p) \in MachineState /\ Machine(p) = machine[Instance(p)]
        /\ Machine(p).repo =< main /\ main \in Nat
    BY <1>1, AtStep DEF BulkInv
  <1>3. /\ Machine(p).built =< main /\ Machine(p).running =< main /\ bulk[p].source =< main
        /\ bulk[p].source \in Nat /\ Machine(p).built \in Nat
    BY <1>2 DEF BulkBounds, MachineState, BulkState
  <1>4. ASSUME NEW step, Goes(p, step)
        PROVE  \E n : bulk' = [bulk EXCEPT ![p] = n] /\ Follows(p, n)
    <2> DEFINE b == [bulk[p] EXCEPT !.at = step]
    <2>1. Follows(p, b) /\ Becomes(p, b)
      BY <1>4, StaysFollows DEF Goes
    <2> HIDE DEF b
    <2> QED  BY <1>2, <2>1, BecomesFollows
  <1>5. ASSUME NEW step, bulk' = [bulk EXCEPT ![p].at = step]
        PROVE  \E n : bulk' = [bulk EXCEPT ![p] = n] /\ Follows(p, n)
    BY <1>2, <1>5, StaysFollows
  <1>6. ASSUME NEW changed, OnMachine(p, changed),
               \/ changed = [Machine(p) EXCEPT !.configured = TRUE]
               \/ changed = [Machine(p) EXCEPT !.repo = main]
               \/ \E done \in BOOLEAN : changed = [Machine(p) EXCEPT !.packages = done]
               \/ changed = [Machine(p) EXCEPT !.memory = TRUE]
               \/ changed = [Machine(p) EXCEPT !.built = bulk[p].source]
               \/ changed = [Machine(p) EXCEPT !.running = Machine(p).built]
        PROVE  \E other \in MachineState :
                  OnMachine(p, other) /\ other.built =< main /\ other.running =< main
    <2>1. changed \in MachineState /\ changed.built =< main /\ changed.running =< main
      BY <1>2, <1>3, <1>6 DEF MachineState
    <2> QED  BY <1>6, <2>1
  <1>7. CASE getApiKeyFromFly(p)
    BY <1>2, <1>4, <1>7 DEF getApiKeyFromFly, BoundedStep
  <1>8. CASE configurePineconePlugin(p)
    BY <1>2, <1>4, <1>6, <1>8 DEF configurePineconePlugin, BoundedStep
  <1>9. CASE Probe(p)
    BY <1>2, <1>5, <1>9 DEF Probe, BoundedStep
  <1>10. CASE Clone(p)
    BY <1>2, <1>4, <1>6, <1>10 DEF Clone, BoundedStep
  <1>11. CASE NpmInstall(p)
    <2>1. Machine(p).packages \in BOOLEAN
      BY <1>2 DEF MachineState
    <2>2. PICK done \in BOOLEAN : OnMachine(p, [Machine(p) EXCEPT !.packages = done])
      BY <1>11, <2>1 DEF NpmInstall
    <2> QED  BY <1>2, <1>4, <1>6, <1>11, <2>2 DEF NpmInstall, BoundedStep
  <1>12. CASE runMigrateMemory(p)
    BY <1>2, <1>4, <1>6, <1>12 DEF runMigrateMemory, BoundedStep
  <1>13. CASE runSmokeTest(p)
    <2> DEFINE b == Counted(bulk[p])
    <2>1. Follows(p, b) /\ Becomes(p, b)
      BY <1>2, <1>13, LeavingFollows DEF runSmokeTest
    <2> HIDE DEF b
    <2> QED  BY <1>2, <1>13, <2>1, BecomesFollows DEF runSmokeTest, BoundedStep
  <1>14. CASE GitPull(p)
    <2> DEFINE b == [bulk[p] EXCEPT !.at = "install", !.seen[Instance(p)] = main]
    <2>1. Becomes(p, b) /\ b.left = bulk[p].left /\ b.source = bulk[p].source
      BY <1>2, <1>14 DEF GitPull, BulkState
    <2> HIDE DEF b
    <2>2. Follows(p, b)
      BY <2>1 DEF Follows
    <2>3. \E n : bulk' = [bulk EXCEPT ![p] = n] /\ Follows(p, n)
      BY <1>2, <2>1, <2>2, BecomesFollows
    <2> QED  BY <1>2, <1>6, <1>14, <2>3 DEF GitPull, BoundedStep
  <1>15. CASE UpdatePackages(p)
    BY <1>2, <1>4, <1>6, <1>15 DEF UpdatePackages, BoundedStep
  <1>16. CASE BuildStarts(p)
    <2> DEFINE b == [bulk[p] EXCEPT !.at = "building", !.source = Machine(p).repo]
    <2>1. /\ bulk' = [bulk EXCEPT ![p] = b]
          /\ b.left = bulk[p].left /\ b.source = Machine(p).repo
      BY <1>2, <1>16 DEF BuildStarts, BulkState
    <2> HIDE DEF b
    <2>2. mixed' \ mixed \subseteq Operators \X Instances
      BY <1>2, <1>16 DEF BuildStarts
    <2> QED  BY <1>2, <1>16, <2>1, <2>2 DEF BuildStarts, BoundedStep, Follows
  <1>17. CASE BuildEnds(p)
    BY <1>2, <1>4, <1>6, <1>17 DEF BuildEnds, BoundedStep
  <1>18. CASE MachineRestart(p)
    <2> DEFINE b == Counted(bulk[p])
    <2>1. Follows(p, b) /\ Becomes(p, b)
      BY <1>2, <1>18, LeavingFollows DEF MachineRestart
    <2> HIDE DEF b
    <2> QED  BY <1>2, <1>6, <1>18, <2>1, BecomesFollows DEF MachineRestart, BoundedStep
  <1>19. CASE ExecFails(p)
    <2>1. bulk' = [bulk EXCEPT ![p] = Failed(bulk[p])] /\ Follows(p, Failed(bulk[p]))
      BY <1>2, <1>19, LeavingFollows DEF ExecFails
    <2> QED  BY <1>2, <1>19, <2>1 DEF ExecFails, BoundedStep
  <1>20. CASE KillBulk(p)
    BY <1>2, <1>5, <1>20 DEF KillBulk, BoundedStep
  <1> QED
    BY <1>7, <1>8, <1>9, <1>10, <1>11, <1>12, <1>13, <1>14, <1>15, <1>16, <1>17, <1>18,
       <1>19, <1>20

LEMMA BulkBegins ==
    ASSUME BulkInv, BulkBounds, NEW p \in Operators, NEW kind \in {"migrate", "update"},
           BeginBulk(p, kind)
    PROVE  BulkBounds'
  <1>1. /\ bulk \in [Operators -> BulkState] /\ UNCHANGED <<machine, main, mixed>>
        /\ main \in Nat
    BY DEF BulkInv, BeginBulk
  <1>2. PICK left \in {Config} \cup {<<i>> : i \in Instances} :
           bulk' = [bulk EXCEPT ![p] = [NoBulk EXCEPT !.kind = kind, !.left = left,
                                              !.at = FirstStep(kind)]]
    BY DEF BeginBulk
  <1> DEFINE b == [NoBulk EXCEPT !.kind = kind, !.left = left, !.at = FirstStep(kind)]
  <1>3. b.left = left /\ b.source = 0
    BY DEF NoBulk
  <1> HIDE DEF b
  <1>4. Unfinished(left)
    <2>1. CASE left = Config
      <3>1. Len(Config) \in Nat
        BY ConfigFacts, LenProperties
      <3>2. 0 \in 0 .. Len(Config) /\ Len(Config) = Len(Config) - 0
            /\ \A j \in 1 .. Len(Config) : j + 0 = j
        BY <3>1
      <3>3. \A j \in 1 .. Len(Config) : Config[j] = Config[j + 0]
        BY <3>2
      <3> QED  BY <2>1, <3>2, <3>3 DEF Unfinished
    <2>2. CASE \E i \in Instances : left = <<i>>
      BY <2>2 DEF Unfinished
    <2> QED  BY <2>1, <2>2
  <1>5. \A q \in Operators : bulk'[q] = IF q = p THEN b ELSE bulk[q]
    BY <1>1, <1>2 DEF b
  <1>6. \A q \in Operators : bulk'[q].source =< main /\ Unfinished(bulk'[q].left)
    BY <1>1, <1>3, <1>4, <1>5 DEF BulkBounds
  <1> QED  BY <1>1, <1>6 DEF BulkBounds, Unfinished

LEMMA BulkBoundsKept == BulkInv /\ BulkBounds /\ [BulkNext]_bulkVars => BulkBounds'
  <1> SUFFICES ASSUME BulkInv, BulkBounds, [BulkNext]_bulkVars
               PROVE  BulkBounds'
    OBVIOUS
  <1>1. CASE UNCHANGED bulkVars
    BY <1>1 DEF bulkVars, BulkBounds, Unfinished
  <1>2. ASSUME NEW p \in Operators,
               \/ getApiKeyFromFly(p) \/ configurePineconePlugin(p) \/ Probe(p) \/ Clone(p)
               \/ NpmInstall(p) \/ runMigrateMemory(p) \/ runSmokeTest(p)
               \/ GitPull(p) \/ UpdatePackages(p) \/ BuildStarts(p) \/ BuildEnds(p)
               \/ MachineRestart(p) \/ ExecFails(p) \/ KillBulk(p)
        PROVE  BulkBounds'
    BY <1>2, ActionBounded, BoundedStepKeeps
  <1>3. ASSUME NEW p \in Operators, NEW kind \in {"migrate", "update"}, BeginBulk(p, kind)
        PROVE  BulkBounds'
    BY <1>3, BulkBegins
  <1>4. CASE Commit
    <2>1. /\ machine' = machine /\ bulk' = bulk /\ mixed' = mixed
          /\ main \in Nat /\ main' = main + 1 /\ main < MaxCommits /\ MaxCommits \in Nat
      BY <1>4, BulkAssumption DEF Commit, BulkInv
    <2>2. \A i \in Instances : machine[i].built \in Nat /\ machine[i].running \in Nat
      BY DEF BulkInv, MachineState
    <2>3. \A p \in Operators : bulk[p].source \in Nat
      BY DEF BulkInv, BulkState
    <2>4. \A n \in Nat : n =< main => n =< main'
      BY <2>1
    <2>5. main' >= 1 /\ main' =< MaxCommits
      BY <2>1
    <2>6. \A p \in Operators : Unfinished(bulk[p].left)'
      BY <2>1 DEF BulkBounds, Unfinished
    <2> QED  BY <2>1, <2>2, <2>3, <2>4, <2>5, <2>6 DEF BulkBounds
  <1> QED  BY <1>1, <1>2, <1>3, <1>4 DEF BulkNext

\* A machine holds no version that main does not have yet, and a command has
\* the end of Config left or its one instance (BulkTypeOK).
THEOREM BulkTypeCorrect == BulkSpec => []BulkTypeOK
  <1>1. BulkInit => BulkBounds
    <2> SUFFICES ASSUME BulkInit
                 PROVE  BulkBounds
      OBVIOUS
    <2>1. /\ main = 1 /\ bulk = [p \in Operators |-> NoBulk] /\ mixed = {}
          /\ \A i \in Instances : machine[i].built = 0 /\ machine[i].running = 0
      BY DEF BulkInit, NewMachine
    <2>2. NoBulk.source = 0 /\ NoBulk.left = <<>>
      BY DEF NoBulk
    <2>3. Unfinished(<<>>)
      <3>1. Len(Config) \in Nat /\ Len(<<>>) = 0
        BY ConfigFacts, LenProperties, EmptySeq
      <3>2. Len(Config) \in 0 .. Len(Config) /\ 0 = Len(Config) - Len(Config)
            /\ \A j \in 1 .. 0 : FALSE
        BY <3>1
      <3> QED  BY <3>1, <3>2 DEF Unfinished
    <2> QED  BY <2>1, <2>2, <2>3, BulkAssumption DEF BulkBounds
  <1>2. BulkInv /\ BulkBounds => BulkTypeOK
    <2> SUFFICES ASSUME BulkInv, BulkBounds
                 PROVE  BulkTypeOK
      OBVIOUS
    <2>1. MaxCommits \in Nat /\ main \in Nat /\ main \in 1 .. MaxCommits
      BY BulkAssumption DEF BulkInv, BulkBounds
    <2>2. \A i \in Instances : machine[i] \in MachineState
          /\ machine[i].repo =< main /\ machine[i].built =< main /\ machine[i].running =< main
      BY DEF BulkInv, BulkBounds
    <2>3. \A n \in Nat : n =< main => n \in 0 .. MaxCommits /\ n \in 0 .. main
      BY <2>1
    <2>4. \A i \in Instances : machine[i] \in
            [key : BOOLEAN, configured : BOOLEAN, repo : 0..MaxCommits, packages : BOOLEAN,
             built : 0..MaxCommits, running : 0..MaxCommits, memory : BOOLEAN]
      BY <2>2, <2>3 DEF MachineState
    <2>5. machine \in [Instances ->
            [key : BOOLEAN, configured : BOOLEAN, repo : 0..MaxCommits, packages : BOOLEAN,
             built : 0..MaxCommits, running : 0..MaxCommits, memory : BOOLEAN]]
      BY <2>4 DEF BulkInv
    <2>6. ASSUME NEW p \in Operators
          PROVE  /\ bulk[p].kind \in {"none", "migrate", "update"}
                 /\ IsSuffix(bulk[p].left, Config) \/ Len(bulk[p].left) = 1
                 /\ bulk[p].seen \in [Instances -> 0..main]
                 /\ bulk[p].done \cup bulk[p].failed \subseteq Instances
      <3>1. bulk[p] \in BulkState /\ Unfinished(bulk[p].left)
        BY DEF BulkInv, BulkBounds
      <3>2. IsSuffix(bulk[p].left, Config) \/ Len(bulk[p].left) = 1
        BY <3>1, UnfinishedSuffix DEF BulkState
      <3>3. ASSUME NEW i \in Instances
            PROVE  bulk[p].seen[i] \in 0 .. main
        <4>1. /\ bulk[p].seen[i] \in Nat /\ bulk[p].seen[i] =< machine[i].repo
              /\ machine[i].repo \in Nat /\ machine[i].repo =< main
          BY <2>2, <3>1 DEF BulkInv, BulkState, MachineState
        <4> QED  BY <2>1, <4>1
      <3>4. bulk[p].seen \in [Instances -> 0 .. main]
        BY <3>1, <3>3 DEF BulkState
      <3> QED  BY <3>1, <3>2, <3>4 DEF BulkState
    <2>7. mixed \subseteq Operators \X Instances
      BY DEF BulkBounds
    <2> QED  BY <2>1, <2>5, <2>6, <2>7 DEF BulkTypeOK
  <1> QED  BY <1>1, <1>2, BulkInitInv, BulkStep, BulkBoundsKept, PTL DEF BulkSpec

-----------------------------------------------------------------------------
(* The context engine: chunks and batches.                                 *)

Entries == [turn : Messages, old : BOOLEAN]

LEMMA ChunkTyped ==
    ASSUME NEW m \in Messages
    PROVE  chunk(m) \in Seq(Ids)
  <1>1. CASE ~ Kept(m)
    BY <1>1, EmptySeq DEF chunk
  <1>2. CASE Kept(m)
    <2>1. m.text \in Texts /\ ChunkCount[m.text] \in Nat
      BY <1>2, EngineAssumption DEF Kept, Messages
    <2> DEFINE c == [i \in 1 .. ChunkCount[m.text] |-> <<m.role, m.text, i>>]
    <2>2. chunk(m) = c
      BY <1>2 DEF chunk
    <2>3. \A i \in 1 .. ChunkCount[m.text] : c[i] \in Range(chunk(m))
      BY <2>2 DEF Range
    <2>4. \A i \in 1 .. ChunkCount[m.text] : c[i] \in Ids
      BY <2>3 DEF Ids
    <2>5. c \in [1 .. ChunkCount[m.text] -> Ids]
      BY <2>4
    <2> HIDE DEF c
    <2> QED  BY <2>1, <2>2, <2>5, SeqDef
  <1> QED  BY <1>1, <1>2

LEMMA ChunksOfTyped ==
    ASSUME NEW turns \in Seq(Messages)
    PROVE  /\ chunksOf(turns) \in Seq(Ids)
           /\ \A m \in Range(turns) : Range(chunk(m)) \subseteq Range(chunksOf(turns))
  <1> DEFINE seqs == [i \in DOMAIN turns |-> chunk(turns[i])]
  <1>1. /\ Len(turns) \in Nat /\ DOMAIN turns = 1 .. Len(turns)
        /\ \A i \in 1 .. Len(turns) : turns[i] \in Messages
    BY LenProperties, ElementOfSeq
  <1>2. seqs \in [1 .. Len(turns) -> Seq(Ids)]
    BY <1>1, ChunkTyped
  <1>3. \A i \in 1 .. Len(turns) : seqs[i] = chunk(turns[i])
    BY <1>1
  <1>4. chunksOf(turns) = FlattenSeq(seqs)
    BY DEF chunksOf
  <1> HIDE DEF seqs
  <1>5. seqs \in Seq(Seq(Ids))
    BY <1>1, <1>2, SeqDef
  <1>6. Len(seqs) = Len(turns)
    BY <1>1, <1>2, <1>5, LenProperties
  <1>7. /\ FlattenSeq(seqs) \in Seq(Ids)
        /\ \A i \in 1 .. Len(seqs) : Range(seqs[i]) \subseteq Range(FlattenSeq(seqs))
    BY <1>5, FlattenSeqProperties
  <1>8. ASSUME NEW m \in Range(turns)
        PROVE  Range(chunk(m)) \subseteq Range(chunksOf(turns))
    <2>1. PICK i \in 1 .. Len(turns) : m = turns[i]
      BY <1>1 DEF Range
    <2> QED  BY <1>3, <1>4, <1>6, <1>7, <2>1
  <1> QED  BY <1>4, <1>7, <1>8

LEMMA OldTurnsTyped ==
    ASSUME session \in Seq(Entries)
    PROVE  OldTurns \in Seq(Messages) /\ Range(OldTurns) \in SUBSET Messages
           /\ IsFiniteSet(Range(OldTurns))
  <1> DEFINE old == Selected(session, {i \in DOMAIN session : session[i].old})
             turns == [i \in DOMAIN old |-> old[i].turn]
  <1>1. old \in Seq(Entries)
    BY SelectedProperties DEF PartOf
  <1>2. OldTurns = turns
    BY DEF OldTurns
  <1> HIDE DEF old
  <1>3. /\ Len(old) \in Nat /\ DOMAIN old = 1 .. Len(old)
        /\ \A i \in 1 .. Len(old) : old[i].turn \in Messages
    <2>1. /\ Len(old) \in Nat /\ DOMAIN old = 1 .. Len(old)
          /\ \A i \in 1 .. Len(old) : old[i] \in Entries
      BY <1>1, LenProperties, ElementOfSeq
    <2> QED  BY <2>1 DEF Entries
  <1>4. turns \in [1 .. Len(old) -> Messages] /\ DOMAIN turns = 1 .. Len(old)
    BY <1>3
  <1> HIDE DEF turns
  <1>5. turns \in Seq(Messages)
    BY <1>3, <1>4, SeqDef
  <1>6. turns \in Surjection(1 .. Len(old), Range(turns))
    BY <1>4 DEF Range, Surjection
  <1>7. IsFiniteSet(1 .. Len(old))
    BY <1>3, UpToFinite
  <1> QED  BY <1>2, <1>5, <1>6, <1>7, RangeOfSeq, FS_Surjection

\* What the chunks of a job are to the index: those already written are there,
\* and all of them are when it is stored.
Covers(job, ids) ==
    /\ job.step = "upsert" =>
          /\ \A m \in job.taken : Range(chunk(m)) \subseteq Range(job.chunks)
          /\ \A i \in 1 .. job.at - 1 : job.chunks[i] \in ids
    /\ job.step = "stored" => \A m \in job.taken : Range(chunk(m)) \subseteq ids

LEMMA CoversMore ==
    ASSUME NEW job, NEW ids, NEW more, Covers(job, ids), ids \subseteq more
    PROVE  Covers(job, more)
  BY DEF Covers

UnderWayJob(job) == job \in Jobs /\ (job.step = "upsert" => job.at =< Len(job.chunks))

LEMMA IdleJob ==
    UnderWayJob(Idle) /\ Idle.step = "idle" /\ Idle.taken = {} /\ \A ids : Covers(Idle, ids)
  <1>1. <<>> \in Seq(Ids) /\ 0 \in 0 .. MAX_RETRIES
    BY EngineAssumption, EmptySeq
  <1> QED  BY <1>1 DEF Idle, UnderWayJob, Jobs, Covers

LEMMA UpsertingJob ==
    ASSUME NEW chunks \in Seq(Ids), chunks # <<>>, NEW taken \in SUBSET Messages
    PROVE  /\ UnderWayJob(Upserting(chunks, taken))
           /\ Upserting(chunks, taken).taken = taken
           /\ Upserting(chunks, taken).step = "upsert"
           /\ (\A m \in taken : Range(chunk(m)) \subseteq Range(chunks))
                 => \A ids : Covers(Upserting(chunks, taken), ids)
  <1> DEFINE u == Upserting(chunks, taken)
  <1>1. /\ u.step = "upsert" /\ u.chunks = chunks /\ u.taken = taken /\ u.at = 1
        /\ u \in Jobs
    <2>1. 0 \in 0 .. MAX_RETRIES /\ 1 \in Nat \ {0}
      BY EngineAssumption
    <2>2. u = [step |-> "upsert", taken |-> taken, chunks |-> chunks, at |-> 1, attempt |-> 0]
      <3>1. u = [Idle EXCEPT !.step = "upsert", !.chunks = chunks, !.taken = taken]
        BY DEF Upserting
      <3> HIDE DEF u
      <3>2. Idle = [step |-> "idle", taken |-> {}, chunks |-> <<>>, at |-> 1, attempt |-> 0]
        BY DEF Idle
      <3> QED  BY <3>1, <3>2
    <2> HIDE DEF u
    <2> QED  BY <2>1, <2>2 DEF Jobs
  <1>2. Len(chunks) \in Nat \ {0}
    BY EmptySeq
  <1> HIDE DEF u
  <1>3. UnderWayJob(u)
    BY <1>1, <1>2 DEF UnderWayJob
  <1>4. \A i \in 1 .. u.at - 1 : FALSE
    BY <1>1
  <1> QED  BY <1>1, <1>3, <1>4 DEF Covers, u

\* The batch a job writes next.
LEMMA BatchWrites ==
    ASSUME NEW job, UnderWayJob(job), job.step = "upsert"
    PROVE  /\ Writes(job) \subseteq Ids
           /\ UnderWayJob(AfterBatch(job)) /\ AfterBatch(job).taken = job.taken
           /\ \A ids : Covers(job, ids) => Covers(AfterBatch(job), ids \cup Writes(job))
  <1> DEFINE last == IF IsLastBatch(job) THEN Len(job.chunks) ELSE job.at + UPSERT_BATCH_SIZE - 1
             n == AfterBatch(job)
  <1>1. /\ job \in Jobs /\ job.chunks \in Seq(Ids) /\ job.at \in Nat \ {0}
        /\ UPSERT_BATCH_SIZE \in Nat \ {0}
        /\ Len(job.chunks) \in Nat /\ DOMAIN job.chunks = 1 .. Len(job.chunks)
        /\ job.at =< Len(job.chunks)
        /\ \A i \in 1 .. Len(job.chunks) : job.chunks[i] \in Ids
    BY EngineAssumption, LenProperties, ElementOfSeq DEF UnderWayJob, Jobs
  <1>2. last \in Nat /\ job.at =< last /\ last =< Len(job.chunks)
    BY <1>1 DEF IsLastBatch
  <1>3. Batch(job) = SubSeq(job.chunks, job.at, last)
    BY DEF Batch
  <1> HIDE DEF last
  <1>4. /\ SubSeq(job.chunks, job.at, last) \in Seq(Ids)
        /\ Len(SubSeq(job.chunks, job.at, last)) = last - job.at + 1
        /\ \A i \in 1 .. last - job.at + 1 :
              SubSeq(job.chunks, job.at, last)[i] = job.chunks[job.at + i - 1]
    <2>1. \A i \in job.at .. last : job.chunks[i] \in Ids
      BY <1>1, <1>2
    <2>2. job.at \in Int /\ last \in Int
      BY <1>1, <1>2
    <2> QED  BY <1>1, <1>2, <2>1, <2>2, SubSeqProperties
  <1>5. Range(Batch(job)) \subseteq Ids
    BY <1>3, <1>4, RangeOfSeq
  <1>6. ASSUME NEW i \in job.at .. last
        PROVE  job.chunks[i] \in Range(Batch(job))
    <2>1. DOMAIN Batch(job) = 1 .. last - job.at + 1
      BY <1>3, <1>4, LenProperties
    <2>2. i - job.at + 1 \in 1 .. last - job.at + 1 /\ job.at + (i - job.at + 1) - 1 = i
      BY <1>1, <1>2
    <2>3. Batch(job)[i - job.at + 1] = job.chunks[i]
      BY <1>3, <1>4, <2>2
    <2> QED  BY <2>1, <2>2, <2>3 DEF Range
  <1>7. Writes(job) \subseteq Ids
    BY <1>5 DEF Writes
  <1>8. CASE StatementFails(job)
    <2>1. n = [job EXCEPT !.step = "failed"]
      BY <1>8 DEF AfterBatch
    <2>2. n \in Jobs /\ n.step = "failed" /\ n.taken = job.taken
      BY <1>1, <2>1 DEF Jobs
    <2> QED  BY <1>7, <2>2 DEF UnderWayJob, Covers
  <1>9. CASE ~ StatementFails(job) /\ IsLastBatch(job)
    <2>1. n = [job EXCEPT !.step = "stored"] /\ Writes(job) = Range(Batch(job))
      BY <1>9 DEF AfterBatch, Writes
    <2>2. n \in Jobs /\ n.step = "stored" /\ n.taken = job.taken
      BY <1>1, <2>1 DEF Jobs
    <2>3. last = Len(job.chunks)
      BY <1>9 DEF last
    <2>4. ASSUME NEW ids, Covers(job, ids), NEW m \in job.taken
          PROVE  Range(chunk(m)) \subseteq ids \cup Writes(job)
      <3>1. /\ Range(chunk(m)) \subseteq Range(job.chunks)
            /\ \A i \in 1 .. job.at - 1 : job.chunks[i] \in ids
        BY <2>4 DEF Covers
      <3>2. ASSUME NEW i \in 1 .. Len(job.chunks)
            PROVE  job.chunks[i] \in ids \cup Writes(job)
        <4>1. i \in 1 .. job.at - 1 \/ i \in job.at .. last
          BY <1>1, <2>3
        <4> QED  BY <1>6, <2>1, <3>1, <4>1
      <3> QED  BY <1>1, <3>1, <3>2 DEF Range
    <2> HIDE DEF n
    <2> QED  BY <1>7, <2>2, <2>4 DEF UnderWayJob, Covers, n
  <1>10. CASE ~ StatementFails(job) /\ ~ IsLastBatch(job)
    <2>1. n = [job EXCEPT !.at = @ + UPSERT_BATCH_SIZE] /\ Writes(job) = Range(Batch(job))
      BY <1>10 DEF AfterBatch, Writes
    <2>2. /\ last = job.at + UPSERT_BATCH_SIZE - 1
          /\ job.at + UPSERT_BATCH_SIZE =< Len(job.chunks)
      BY <1>1, <1>10 DEF last, IsLastBatch
    <2>3. /\ n \in Jobs /\ n.step = "upsert" /\ n.taken = job.taken /\ n.chunks = job.chunks
          /\ n.at = job.at + UPSERT_BATCH_SIZE
      BY <1>1, <2>1 DEF Jobs
    <2> HIDE DEF n
    <2>4. n.at =< Len(n.chunks)
      BY <2>2, <2>3
    <2>5. ASSUME NEW ids, Covers(job, ids)
          PROVE  Covers(n, ids \cup Writes(job))
      <3>1. /\ \A m \in job.taken : Range(chunk(m)) \subseteq Range(job.chunks)
            /\ \A i \in 1 .. job.at - 1 : job.chunks[i] \in ids
        BY <2>5 DEF Covers
      <3>2. ASSUME NEW i \in 1 .. n.at - 1
            PROVE  job.chunks[i] \in ids \cup Writes(job)
        <4>1. i \in 1 .. job.at - 1 \/ i \in job.at .. last
          BY <1>1, <2>2, <2>3
        <4> QED  BY <1>6, <2>1, <3>1, <4>1
      <3> QED  BY <2>3, <3>1, <3>2 DEF Covers
    <2> QED  BY <1>7, <2>3, <2>4, <2>5 DEF UnderWayJob, n
  <1> QED  BY <1>8, <1>9, <1>10

LEMMA TroubleKeeps ==
    ASSUME NEW job, UnderWayJob(job), job.step = "upsert", NEW n \in AfterTrouble(job)
    PROVE  /\ UnderWayJob(n) /\ n.taken = job.taken
           /\ \A ids : Covers(job, ids) => Covers(n, ids)
  <1>1. /\ job \in Jobs /\ job.chunks \in Seq(Ids) /\ job.at \in Nat \ {0}
        /\ job.at =< Len(job.chunks) /\ Len(job.chunks) \in Nat
        /\ job.attempt \in 0 .. MAX_RETRIES /\ MAX_RETRIES \in Nat
    BY EngineAssumption, LenProperties DEF UnderWayJob, Jobs
  <1>2. CASE n = [job EXCEPT !.step = "failed"]
    <2>1. n \in Jobs /\ n.step = "failed" /\ n.taken = job.taken
      BY <1>1, <1>2 DEF Jobs
    <2> QED  BY <2>1 DEF UnderWayJob, Covers
  <1>3. CASE n = [job EXCEPT !.at = 1, !.attempt = @ + 1] /\ job.attempt < MAX_RETRIES
    <2>1. job.attempt + 1 \in 0 .. MAX_RETRIES
      BY <1>1, <1>3
    <2>2. n = [step |-> job.step, taken |-> job.taken, chunks |-> job.chunks, at |-> 1,
               attempt |-> job.attempt + 1]
      BY <1>1, <1>3 DEF Jobs
    <2>3. job.taken \in SUBSET Messages /\ 1 \in Nat \ {0}
      BY <1>1 DEF Jobs
    <2>4. /\ n \in Jobs /\ n.step = "upsert" /\ n.taken = job.taken /\ n.chunks = job.chunks
          /\ n.at = 1
      BY <1>1, <2>1, <2>2, <2>3 DEF Jobs
    <2>5. 1 =< Len(job.chunks) /\ \A i \in 1 .. 1 - 1 : FALSE
      BY <1>1
    <2> QED  BY <2>4, <2>5 DEF UnderWayJob, Covers
  <1> QED  BY <1>2, <1>3 DEF AfterTrouble

-----------------------------------------------------------------------------
(* What assemble adds.                                                     *)

LEMMA FitsIn ==
    ASSUME NEW b \in Nat, NEW c \in Nat \ {0}
    PROVE  b \div c \in Nat /\ (b \div c) * c =< b
  BY Z3

LEMMA FewerFit ==
    ASSUME NEW q \in Nat, NEW n \in Nat, NEW c \in Nat, q * c < n * c
    PROVE  q < n
  BY Z3

LEMMA FittingProperties ==
    ASSUME NEW ids \in Seq(Ids), NEW budget \in Nat
    PROVE  /\ Fitting(ids, budget) \in Seq(Ids)
           /\ Len(Fitting(ids, budget)) * ChunkTokens \in Nat
           /\ Len(Fitting(ids, budget)) * ChunkTokens =< budget
           /\ Len(Fitting(ids, budget)) =< Len(ids)
           /\ \A k \in 1 .. Len(Fitting(ids, budget)) : Fitting(ids, budget)[k] = ids[k]
  <1> DEFINE n == IF Len(ids) * ChunkTokens =< budget THEN Len(ids) ELSE budget \div ChunkTokens
  <1>1. Len(ids) \in Nat /\ ChunkTokens \in Nat /\ \A i \in 1 .. Len(ids) : ids[i] \in Ids
    BY EngineAssumption, LenProperties, ElementOfSeq
  <1>2. n \in Nat /\ n =< Len(ids) /\ n * ChunkTokens =< budget /\ n * ChunkTokens \in Nat
    <2>1. CASE Len(ids) * ChunkTokens =< budget
      <3>1. n = Len(ids) /\ Len(ids) * ChunkTokens \in Nat
        BY <1>1, <2>1
      <3> HIDE DEF n
      <3> QED  BY <1>1, <2>1, <3>1
    <2>2. CASE ~ (Len(ids) * ChunkTokens =< budget)
      <3>1. n = budget \div ChunkTokens
        BY <2>2
      <3> HIDE DEF n
      <3>2. ChunkTokens # 0
        <4>1. ChunkTokens = 0 => Len(ids) * ChunkTokens = 0
          BY <1>1
        <4> QED  BY <2>2, <4>1
      <3>3. n \in Nat /\ n * ChunkTokens =< budget
        BY <1>1, <3>1, <3>2, FitsIn
      <3>4. Len(ids) * ChunkTokens \in Nat /\ n * ChunkTokens \in Nat
        BY <1>1, <3>3
      <3>5. n * ChunkTokens < Len(ids) * ChunkTokens
        <4> DEFINE x == Len(ids) * ChunkTokens
                   y == n * ChunkTokens
        <4>1. x \in Nat /\ y \in Nat /\ y =< budget /\ ~ (x =< budget)
          BY <2>2, <3>3, <3>4
        <4> HIDE DEF x, y
        <4>2. y < x
          BY <4>1
        <4> QED  BY <4>2 DEF x, y
      <3>6. n < Len(ids)
        BY <1>1, <3>3, <3>5, FewerFit
      <3> QED  BY <1>1, <3>3, <3>4, <3>6
    <2> QED  BY <2>1, <2>2
  <1>3. Fitting(ids, budget) = SubSeq(ids, 1, n)
    BY DEF Fitting
  <1> HIDE DEF n
  <1>4. /\ SubSeq(ids, 1, n) \in Seq(Ids)
        /\ Len(SubSeq(ids, 1, n)) = n
        /\ \A k \in 1 .. n : SubSeq(ids, 1, n)[k] = ids[k]
    <2>1. \A i \in 1 .. n : ids[i] \in Ids
      BY <1>1, <1>2
    <2>2. /\ SubSeq(ids, 1, n) \in Seq(Ids)
          /\ Len(SubSeq(ids, 1, n)) = IF 1 =< n THEN n - 1 + 1 ELSE 0
          /\ \A k \in 1 .. n - 1 + 1 : SubSeq(ids, 1, n)[k] = ids[1 + k - 1]
      BY <1>2, <2>1, SubSeqProperties
    <2> QED  BY <1>2, <2>2
  <1> QED  BY <1>2, <1>3, <1>4

LEMMA FindingsTyped ==
    ASSUME index \subseteq Ids, NEW ids \in Findings
    PROVE  ids \in Seq(Ids)
  <1>1. PICK n \in 0 .. 2 : ids \in [1 .. n -> index]
    BY DEF Findings
  <1>2. n \in Nat /\ ids \in [1 .. n -> Ids]
    BY <1>1
  <1> QED  BY <1>2, SeqDef

\* Reranked chunks have different texts.
LEMMA RerankedDiffer ==
    ASSUME NEW ids \in Seq(Ids)
    PROVE  /\ rerankChunks(ids) \in Seq(Ids)
           /\ \A k, l \in 1 .. Len(rerankChunks(ids)) :
                 TextOf(rerankChunks(ids)[k]) = TextOf(rerankChunks(ids)[l]) => k = l
  <1> DEFINE first == {k \in DOMAIN ids : \A l \in 1..k-1 : TextOf(ids[l]) # TextOf(ids[k])}
             r == rerankChunks(ids)
  <1>1. PartOf(r, ids, Ids, first, Len(ids))
    BY SelectedProperties DEF rerankChunks
  <1> HIDE DEF r
  <1>2. Len(ids) \in Nat
    BY LenProperties
  <1>3. PICK at \in [1 .. Len(r) -> 1 .. Len(ids)] :
           /\ \A k \in 1 .. Len(r) : at[k] \in first /\ r[k] = ids[at[k]]
           /\ \A k, l \in 1 .. Len(r) : k < l => at[k] < at[l]
    BY <1>1 DEF PartOf
  <1>4. r \in Seq(Ids) /\ Len(r) \in Nat
    BY <1>1, LenProperties DEF PartOf
  <1>5. ASSUME NEW k \in 1 .. Len(r), NEW l \in 1 .. Len(r), k < l
        PROVE  TextOf(r[k]) # TextOf(r[l])
    <2>1. at[k] < at[l] /\ at[k] \in 1 .. Len(ids) /\ at[l] \in 1 .. Len(ids) /\ at[l] \in first
      BY <1>3, <1>5
    <2>2. at[k] \in 1 .. at[l] - 1
      BY <1>2, <2>1
    <2>3. TextOf(ids[at[k]]) # TextOf(ids[at[l]])
      BY <2>1, <2>2
    <2> QED  BY <1>3, <2>3
  <1>6. \A k, l \in 1 .. Len(r) : k # l => k < l \/ l < k
    BY <1>4
  <1> QED  BY <1>4, <1>5, <1>6 DEF r

PromptInv ==
    /\ prompt.chunks \in Seq(Ids) /\ prompt.tokens \in Nat
    /\ PromptFits

LEMMA AdditionFits ==
    ASSUME NEW mode, NEW core \in Nat, NEW ids \in Seq(Ids), NEW budget \in Nat,
           budget + core =< Budget \/ budget = 0,
           mode = "rag" => \A k, l \in 1 .. Len(ids) : TextOf(ids[k]) = TextOf(ids[l]) => k = l,
           prompt' = buildAddition(mode, core, ids, budget)
    PROVE  PromptInv'
  <1> DEFINE c == Fitting(ids, budget)
             used == Len(c) * ChunkTokens
  <1>1. /\ c \in Seq(Ids) /\ used \in Nat /\ used =< budget /\ Len(c) =< Len(ids)
        /\ \A k \in 1 .. Len(c) : c[k] = ids[k]
    BY FittingProperties
  <1>2. prompt' = [mode |-> mode, core |-> core, chunks |-> c, tokens |-> core + used]
    BY DEF buildAddition
  <1>3. Len(c) \in Nat /\ Len(ids) \in Nat /\ DOMAIN c = 1 .. Len(c) /\ Budget \in Nat
    BY <1>1, EngineAssumption, LenProperties
  <1> HIDE DEF c, used
  <1>4. /\ prompt'.mode = mode /\ prompt'.core = core /\ prompt'.chunks = c
        /\ prompt'.tokens = core + used
    BY <1>2
  <1>5. core + used =< Budget \/ core + used = core
    BY <1>1, <1>3
  <1>6. ASSUME mode = "rag", NEW k \in 1 .. Len(c), NEW l \in 1 .. Len(c),
               TextOf(c[k]) = TextOf(c[l])
        PROVE  k = l
    <2>1. k \in 1 .. Len(ids) /\ l \in 1 .. Len(ids) /\ c[k] = ids[k] /\ c[l] = ids[l]
      BY <1>1, <1>3
    <2> QED  BY <1>6, <2>1
  <1>7. core + used \in Nat
    BY <1>1
  <1> QED  BY <1>1, <1>3, <1>4, <1>5, <1>6, <1>7 DEF PromptInv, PromptFits

LEMMA NoAddition ==
    ASSUME prompt = NoPrompt \/ prompt = [NoPrompt EXCEPT !.mode = "looking"]
    PROVE  PromptInv
  <1>1. /\ prompt.mode # "rag" /\ prompt.chunks = <<>> /\ prompt.tokens = 0
    BY DEF NoPrompt
  <1>2. 0 =< Budget /\ <<>> \in Seq(Ids)
    BY EngineAssumption
  <1> QED  BY <1>1, <1>2 DEF PromptInv, PromptFits

LEMMA NoAdditionNext ==
    ASSUME prompt' = NoPrompt \/ prompt' = [NoPrompt EXCEPT !.mode = "looking"]
    PROVE  PromptInv'
  <1>1. /\ prompt'.mode # "rag" /\ prompt'.chunks = <<>> /\ prompt'.tokens = 0
    BY DEF NoPrompt
  <1>2. 0 =< Budget /\ <<>> \in Seq(Ids)
    BY EngineAssumption
  <1> QED  BY <1>1, <1>2 DEF PromptInv, PromptFits

-----------------------------------------------------------------------------
(* The invariant of the engine.                                            *)

EngineInv ==
    /\ session \in Seq(Entries) /\ Len(session) =< MaxTurns
    /\ index \cup forgotten \subseteq Ids
    /\ UnderWayJob(ingesting) /\ UnderWayJob(compacting)
    /\ gone \in SUBSET Messages /\ IsFiniteSet(gone) /\ IsFiniteSet(compacting.taken)
    /\ Covers(compacting, index \cup forgotten)
    /\ CompactAnswersTrue
    /\ PromptInv

LEMMA EngineInitInv == EngineInit => EngineInv
  <1> SUFFICES ASSUME EngineInit
               PROVE  EngineInv
    OBVIOUS
  <1>1. session \in Seq(Entries) /\ Len(session) = 0
    BY EmptySeq DEF EngineInit
  <1>2. 0 =< MaxTurns
    BY EngineAssumption
  <1>3. PromptInv
    BY NoAddition DEF EngineInit
  <1> QED  BY <1>1, <1>2, <1>3, IdleJob, FS_EmptySet DEF EngineInit, EngineInv, CompactAnswersTrue

LEMMA IngestKeeps ==
    ASSUME EngineInv, NewTurn \/ IngestStep
    PROVE  EngineInv'
  <1>1. CASE NewTurn
    <2>1. PICK role \in Roles, text \in Texts \cup {NoText} :
             LET message == [role |-> role, text |-> text]
             IN /\ session' = Append(session, [turn |-> message, old |-> FALSE])
                /\ ingesting' = IF ingest(message) = <<>>
                                THEN Idle
                                ELSE Upserting(ingest(message), {message})
      BY <1>1 DEF NewTurn
    <2> DEFINE message == [role |-> role, text |-> text]
               entry == [turn |-> message, old |-> FALSE]
    <2>2. message \in Messages /\ entry \in Entries
      BY DEF Messages, Entries
    <2>3. /\ session' = Append(session, entry)
          /\ ingesting' = Idle \/ (ingest(message) # <<>>
                                   /\ ingesting' = Upserting(ingest(message), {message}))
      BY <2>1
    <2> HIDE DEF message, entry
    <2>4. session' \in Seq(Entries) /\ Len(session') = Len(session) + 1 /\ Len(session) \in Nat
      BY <2>2, <2>3, AppendProperties, LenProperties DEF EngineInv
    <2>5. Len(session') =< MaxTurns
      <3>1. Cardinality(gone) \in Nat
        BY FS_CardinalityType DEF EngineInv
      <3>2. Len(session) + Cardinality(gone) < MaxTurns /\ MaxTurns \in Nat
        BY <1>1, EngineAssumption DEF NewTurn
      <3> QED  BY <2>4, <3>1, <3>2
    <2>6. ingest(message) \in Seq(Ids)
      BY <2>2, ChunkTyped, EmptySeq DEF ingest
    <2>7. UnderWayJob(ingesting')
      <3>1. {message} \in SUBSET Messages
        BY <2>2
      <3> QED  BY <2>3, <2>6, <3>1, IdleJob, UpsertingJob
    <2> QED  BY <1>1, <2>4, <2>5, <2>7
             DEF NewTurn, EngineInv, CompactAnswersTrue, PromptInv, PromptFits
  <1>2. CASE IngestStep
    <2>1. ingesting.step = "upsert" /\ UnderWayJob(ingesting)
      BY <1>2 DEF IngestStep, EngineInv
    <2>2. UnderWayJob(ingesting') /\ index \subseteq index' /\ index' \subseteq Ids
      <3>1. CASE ingesting' = Ended(AfterBatch(ingesting)) /\ index' = index \cup Writes(ingesting)
        BY <2>1, <3>1, BatchWrites, IdleJob DEF Ended, EngineInv
      <3>2. CASE \E job \in AfterTrouble(ingesting) : ingesting' = Ended(job) /\ UNCHANGED index
        BY <2>1, <3>2, TroubleKeeps, IdleJob DEF Ended, EngineInv
      <3> QED  BY <1>2, <3>1, <3>2 DEF IngestStep
    <2>3. Covers(compacting, index' \cup forgotten)
      BY <2>2, CoversMore DEF EngineInv
    <2> QED  BY <1>2, <2>2, <2>3
             DEF IngestStep, EngineInv, CompactAnswersTrue, PromptInv, PromptFits
  <1> QED  BY <1>1, <1>2

LEMMA CompactKeeps ==
    ASSUME EngineInv, CompactBegins \/ CompactStep \/ HostDeletes
    PROVE  EngineInv'
  <1>1. CASE CompactBegins
    <2> DEFINE chunks == chunksOf(OldTurns)
               taken == Range(OldTurns)
    <2>1. /\ OldTurns \in Seq(Messages) /\ taken \in SUBSET Messages /\ IsFiniteSet(taken)
      BY OldTurnsTyped DEF EngineInv
    <2>2. /\ chunks \in Seq(Ids)
          /\ \A m \in taken : Range(chunk(m)) \subseteq Range(chunks)
      BY <2>1, ChunksOfTyped
    <2>3. \/ chunks = <<>> /\ compacting' = [Idle EXCEPT !.step = "stored", !.taken = taken]
          \/ chunks # <<>> /\ compacting' = Upserting(chunks, taken)
      BY <1>1 DEF CompactBegins
    <2> HIDE DEF chunks, taken
    <2>4. /\ UnderWayJob(compacting') /\ compacting'.taken = taken
          /\ Covers(compacting', index \cup forgotten)
      <3>1. CASE chunks = <<>> /\ compacting' = [Idle EXCEPT !.step = "stored", !.taken = taken]
        <4>1. compacting' = [step |-> "stored", taken |-> taken, chunks |-> <<>>, at |-> 1,
                             attempt |-> 0]
          BY <3>1 DEF Idle
        <4>2. 0 \in 0 .. MAX_RETRIES /\ 1 \in Nat \ {0} /\ <<>> \in Seq(Ids)
          BY EngineAssumption
        <4>3. UnderWayJob(compacting')
          BY <2>1, <4>1, <4>2 DEF UnderWayJob, Jobs
        <4>4. Range(chunks) = {}
          BY <3>1 DEF Range
        <4> QED  BY <2>2, <4>1, <4>3, <4>4 DEF Covers
      <3>2. CASE chunks # <<>> /\ compacting' = Upserting(chunks, taken)
        BY <2>1, <2>2, <3>2, UpsertingJob
      <3> QED  BY <2>3, <3>1, <3>2
    <2> QED  BY <1>1, <2>1, <2>4
             DEF CompactBegins, EngineInv, CompactAnswersTrue, PromptInv, PromptFits
  <1>2. CASE CompactStep
    <2>1. compacting.step = "upsert" /\ UnderWayJob(compacting)
      BY <1>2 DEF CompactStep, EngineInv
    <2>2. /\ UnderWayJob(compacting') /\ index \subseteq index' /\ index' \subseteq Ids
          /\ compacting'.taken = compacting.taken
          /\ Covers(compacting', index' \cup forgotten)
      <3>1. CASE compacting' = AfterBatch(compacting) /\ index' = index \cup Writes(compacting)
        <4>1. Covers(AfterBatch(compacting), (index \cup forgotten) \cup Writes(compacting))
          BY <2>1, BatchWrites DEF EngineInv
        <4>2. (index \cup forgotten) \cup Writes(compacting) = index' \cup forgotten
          BY <3>1
        <4> QED  BY <2>1, <3>1, <4>1, <4>2, BatchWrites DEF EngineInv
      <3>2. CASE compacting' \in AfterTrouble(compacting) /\ UNCHANGED index
        BY <2>1, <3>2, TroubleKeeps DEF EngineInv
      <3> QED  BY <1>2, <3>1, <3>2 DEF CompactStep
    <2> QED  BY <1>2, <2>2
             DEF CompactStep, EngineInv, CompactAnswersTrue, PromptInv, PromptFits
  <1>3. CASE HostDeletes
    <2>1. compacting' = Idle
      BY <1>3 DEF HostDeletes
    <2>2. /\ session' \in Seq(Entries) /\ Len(session') =< MaxTurns
          /\ gone' = gone \/ gone' = gone \cup compacting.taken
      <3> DEFINE places == {i \in DOMAIN session :
                              ~(session[i].old /\ session[i].turn \in compacting.taken)}
                 s == Selected(session, places)
      <3>1. s \in Seq(Entries) /\ Len(s) =< Len(session)
        BY SelectedProperties DEF PartOf, EngineInv
      <3>2. \/ session' = s /\ gone' = gone \cup compacting.taken
            \/ session' = session /\ gone' = gone
        BY <1>3 DEF HostDeletes
      <3> HIDE DEF s
      <3>3. Len(s) \in Nat /\ Len(session) \in Nat /\ MaxTurns \in Nat
        BY <3>1, LenProperties, EngineAssumption DEF EngineInv
      <3>4. Len(s) =< MaxTurns
        BY <3>1, <3>3 DEF EngineInv
      <3> QED  BY <3>1, <3>2, <3>4 DEF EngineInv
    <2>3. compacting.taken \in SUBSET Messages
      BY DEF EngineInv, UnderWayJob, Jobs
    <2>4. gone' \in SUBSET Messages /\ IsFiniteSet(gone')
      BY <2>2, <2>3, FS_Union DEF EngineInv
    <2>5. \A m \in compacting.taken : Range(chunk(m)) \subseteq index \cup forgotten
      BY <1>3 DEF HostDeletes, EngineInv, Covers
    <2>6. \A m \in gone' : Range(chunk(m)) \subseteq index \cup forgotten
      BY <2>2, <2>5 DEF EngineInv, CompactAnswersTrue
    <2> QED  BY <1>3, <2>1, <2>2, <2>4, <2>6, IdleJob, FS_EmptySet
             DEF HostDeletes, EngineInv, CompactAnswersTrue, PromptInv, PromptFits
  <1> QED  BY <1>1, <1>2, <1>3

LEMMA HostKeeps ==
    ASSUME EngineInv, GrowOld \/ MemoryDelete \/ RestartEngine
    PROVE  EngineInv'
  <1>1. CASE GrowOld
    <2>1. PICK i \in DOMAIN session : session' = [session EXCEPT ![i].old = TRUE]
      BY <1>1 DEF GrowOld
    <2>2. session \in Seq(Entries) /\ DOMAIN session = 1 .. Len(session) /\ session[i] \in Entries
      BY LenProperties, ElementOfSeq DEF EngineInv
    <2> DEFINE e == [session[i] EXCEPT !.old = TRUE]
    <2>3. e \in Entries /\ session' = [session EXCEPT ![i] = e]
      BY <2>1, <2>2 DEF Entries
    <2> HIDE DEF e
    <2>4. session' \in Seq(Entries) /\ Len(session') = Len(session)
      BY <2>2, <2>3, ExceptSeq
    <2> QED  BY <1>1, <2>4
             DEF GrowOld, EngineInv, CompactAnswersTrue, PromptInv, PromptFits
  <1>2. CASE MemoryDelete
    <2>1. PICK ids \in {{id} : id \in index} \cup {index} :
             index' = index \ ids /\ forgotten' = forgotten \cup ids
      BY <1>2 DEF MemoryDelete
    <2>2. ids \subseteq index /\ index' \cup forgotten' = index \cup forgotten
      BY <2>1
    <2> QED  BY <1>2, <2>2
             DEF MemoryDelete, EngineInv, CompactAnswersTrue, PromptInv, PromptFits
  <1>3. CASE RestartEngine
    <2>1. PromptInv'
      BY <1>3, NoAdditionNext DEF RestartEngine
    <2> QED  BY <1>3, <2>1, IdleJob, FS_EmptySet
             DEF RestartEngine, EngineInv, CompactAnswersTrue
  <1> QED  BY <1>1, <1>2, <1>3

LEMMA AssembleKeeps ==
    ASSUME EngineInv,
           assembleClassic \/ assembleRag \/ assembleParallel \/ LookupAnswers \/ HostTakesPrompt
    PROVE  EngineInv'
  <1>1. UNCHANGED <<backend, session, index, ingesting, compacting, gone, forgotten>>
    BY DEF assembleClassic, assembleRag, assembleParallel, LookupAnswers, HostTakesPrompt
  <1>2. Budget \in Nat /\ CoreTokens \subseteq Nat /\ index \subseteq Ids
    BY EngineAssumption DEF EngineInv
  <1>3. PromptInv'
    <2>1. CASE assembleClassic \/ LookupAnswers
      <3>1. PICK mode \in {"classic", "parallel"}, ids \in Findings :
               prompt' = buildAddition(mode, 0, ids, Budget)
        BY <2>1 DEF assembleClassic, LookupAnswers
      <3>2. ids \in Seq(Ids) /\ Budget + 0 =< Budget /\ mode # "rag"
        BY <1>2, <3>1, FindingsTyped
      <3> QED  BY <1>2, <3>1, <3>2, AdditionFits
    <2>2. CASE assembleRag
      <3>1. PICK core \in CoreTokens, ids \in Findings :
               prompt' = buildAddition("rag", core, rerankChunks(ids), DynamicBudget(core))
        BY <2>2 DEF assembleRag
      <3>2. ids \in Seq(Ids)
        BY <1>2, FindingsTyped
      <3> DEFINE r == rerankChunks(ids)
                 budget == DynamicBudget(core)
      <3>3. /\ r \in Seq(Ids)
            /\ \A k, l \in 1 .. Len(r) : TextOf(r[k]) = TextOf(r[l]) => k = l
        BY <3>2, RerankedDiffer
      <3>4. core \in Nat /\ budget \in Nat /\ (budget + core =< Budget \/ budget = 0)
        BY <1>2 DEF DynamicBudget
      <3>5. prompt' = buildAddition("rag", core, r, budget)
        BY <3>1
      <3> HIDE DEF r, budget
      <3> QED  BY <3>3, <3>4, <3>5, AdditionFits
    <2>3. CASE assembleParallel \/ HostTakesPrompt
      BY <2>3, NoAdditionNext DEF assembleParallel, HostTakesPrompt
    <2> QED  BY <2>1, <2>2, <2>3
  <1> QED  BY <1>1, <1>3 DEF EngineInv, CompactAnswersTrue

LEMMA EngineStep == EngineInv /\ [EngineNext]_engineVars => EngineInv'
  <1> SUFFICES ASSUME EngineInv, [EngineNext]_engineVars
               PROVE  EngineInv'
    OBVIOUS
  <1>1. CASE UNCHANGED engineVars
    BY <1>1 DEF engineVars, EngineInv, CompactAnswersTrue, PromptInv, PromptFits
  <1>2. CASE EngineNext
    BY <1>2, IngestKeeps, CompactKeeps, HostKeeps, AssembleKeeps DEF EngineNext
  <1> QED  BY <1>1, <1>2

\* The context engine keeps its types (EngineTypeOK), whatever the turns, their
\* chunks and the sizes of batches.
THEOREM EngineTypeCorrect == EngineSpec => []EngineTypeOK
  <1>1. EngineInv => EngineTypeOK
    BY DEF EngineInv, EngineTypeOK, Entries, UnderWayJob, PromptInv
  <1> QED  BY <1>1, EngineInitInv, EngineStep, PTL DEF EngineSpec

\* Every chunk of a turn the host has deleted because compact said so is in the
\* index or was taken out by memory-delete (compact, HostDeletes).
THEOREM CompactIsTrue == EngineSpec => []CompactAnswersTrue
  <1>1. EngineInv => CompactAnswersTrue
    BY DEF EngineInv
  <1> QED  BY <1>1, EngineInitInv, EngineStep, PTL DEF EngineSpec

\* What assemble adds fits its budget, or is AGENTS-CORE.md alone, and the rag
\* mode says nothing twice (buildAddition, rerankChunks, DynamicBudget).
THEOREM AdditionsFit == EngineSpec => []PromptFits
  <1>1. EngineInv => PromptFits
    BY DEF EngineInv, PromptInv
  <1> QED  BY <1>1, EngineInitInv, EngineStep, PTL DEF EngineSpec

-----------------------------------------------------------------------------
(* The commands that fill and empty the index.                             *)

\* The lists of phases that a command of a kind may have left; whether it has
\* rows to write.
PhasesLeft(kind, some) ==
    CASE kind = "migrate" -> IF some THEN {<<"upsert">>, <<>>} ELSE {<<>>}
      [] kind = "agents"  -> IF some
                             THEN {<<"delete", "upsert">>, <<"remove", "upsert">>,
                                   <<"upsert">>, <<>>}
                             ELSE {<<>>}
      [] kind = "ingest"  -> IF some
                             THEN {<<"stage", "delete", "upsert", "unstage">>,
                                   <<"delete", "upsert", "unstage">>,
                                   <<"upsert", "unstage">>, <<"unstage">>, <<>>}
                             ELSE {<<"delete">>, <<>>}
      [] kind = "delete"  -> IF some THEN {} ELSE {<<"delete">>, <<"remove">>, <<>>}
      [] kind = "keyword" -> IF some THEN {} ELSE {<<"search", "remove">>, <<"remove">>, <<>>}
      [] kind = "all"     -> IF some THEN {} ELSE {<<"clear">>, <<>>}
      [] kind = "copy"    -> IF some THEN {<<"upsert">>, <<>>} ELSE {<<"fetch", "upsert">>, <<>>}
      [] kind = "none"    -> IF some THEN {} ELSE {<<>>}

CommandKinds == {"migrate", "agents", "ingest", "delete", "keyword", "all", "copy", "none"}

PhaseNames ==
    {"stage", "delete", "upsert", "unstage", "remove", "search", "clear", "fetch"}

LEMMA TailsOfPhases ==
    /\ Tail(<<"upsert">>) = <<>> /\ Tail(<<"delete">>) = <<>>
    /\ Tail(<<"remove">>) = <<>> /\ Tail(<<"clear">>) = <<>> /\ Tail(<<"unstage">>) = <<>>
    /\ Tail(<<"delete", "upsert">>) = <<"upsert">>
    /\ Tail(<<"remove", "upsert">>) = <<"upsert">>
    /\ Tail(<<"fetch", "upsert">>) = <<"upsert">>
    /\ Tail(<<"search", "remove">>) = <<"remove">>
    /\ Tail(<<"upsert", "unstage">>) = <<"unstage">>
    /\ Tail(<<"delete", "upsert", "unstage">>) = <<"upsert", "unstage">>
    /\ Tail(<<"stage", "delete", "upsert", "unstage">>) = <<"delete", "upsert", "unstage">>
  OBVIOUS

LEMMA HeadsOfPhases ==
    /\ Head(<<"upsert">>) = "upsert" /\ Head(<<"delete">>) = "delete"
    /\ Head(<<"remove">>) = "remove" /\ Head(<<"clear">>) = "clear"
    /\ Head(<<"unstage">>) = "unstage"
    /\ Head(<<"delete", "upsert">>) = "delete" /\ Head(<<"remove", "upsert">>) = "remove"
    /\ Head(<<"fetch", "upsert">>) = "fetch" /\ Head(<<"search", "remove">>) = "search"
    /\ Head(<<"upsert", "unstage">>) = "upsert"
    /\ Head(<<"delete", "upsert", "unstage">>) = "delete"
    /\ Head(<<"stage", "delete", "upsert", "unstage">>) = "stage"
  OBVIOUS

LEMMA ListingPutsRemove ==
    /\ <<"remove">> \o Tail(<<"delete">>) = <<"remove">>
    /\ <<"remove">> \o Tail(<<"delete", "upsert">>) = <<"remove", "upsert">>
  <1>1. <<"remove">> \o <<>> = <<"remove">> /\ <<"remove">> \o <<"upsert">> = <<"remove", "upsert">>
    <2>1. /\ <<"remove">> \in Seq(PhaseNames) /\ Len(<<"remove">>) = 1
          /\ <<"upsert">> \in Seq(PhaseNames) /\ Len(<<"upsert">>) = 1
          /\ <<"remove", "upsert">> \in Seq(PhaseNames) /\ Len(<<"remove", "upsert">>) = 2
      <3>1. <<"remove">> \in Seq(PhaseNames) /\ <<"upsert">> \in Seq(PhaseNames)
        <4>1. <<"remove">> \in [1 .. 1 -> PhaseNames] /\ <<"upsert">> \in [1 .. 1 -> PhaseNames]
          BY DEF PhaseNames
        <4> QED  BY <4>1, SeqDef
      <3>2. <<"remove", "upsert">> \in Seq(PhaseNames)
        <4>1. <<"remove", "upsert">> \in [1 .. 2 -> PhaseNames]
          BY DEF PhaseNames
        <4> QED  BY <4>1, SeqDef
      <3>3. Len(<<"remove">>) = 1 /\ Len(<<"upsert">>) = 1
        OBVIOUS
      <3>4. Len(<<"remove", "upsert">>) = 2
        OBVIOUS
      <3> QED  BY <3>1, <3>2, <3>3, <3>4
    <2> DEFINE s == <<"remove">> \o <<"upsert">>
    <2>2. s \in Seq(PhaseNames) /\ Len(s) = 2 /\ s[1] = "remove" /\ s[2] = "upsert"
      BY <2>1, ConcatProperties
    <2> HIDE DEF s
    <2>3. s = <<"remove", "upsert">>
      BY <2>1, <2>2, SeqEqual
    <2>4. <<"remove">> \o <<>> = <<"remove">>
      BY <2>1, ConcatEmptySeq
    <2> QED  BY <2>3, <2>4 DEF s
  <1> QED  BY <1>1, TailsOfPhases

\* What a phase that begins with a name leaves.
LEMMA HeadDecides ==
    ASSUME NEW kind \in CommandKinds, NEW some \in BOOLEAN,
           NEW phases \in PhasesLeft(kind, some), phases # <<>>
    PROVE  /\ Head(phases) = "stage" =>
                 kind = "ingest" /\ some /\ phases = <<"stage", "delete", "upsert", "unstage">>
           /\ Head(phases) = "upsert" =>
                 some /\ phases = (IF kind = "ingest" THEN <<"upsert", "unstage">>
                                                     ELSE <<"upsert">>)
           /\ Head(phases) = "delete" =>
                 \/ phases = <<"delete">> /\ ~some /\ kind \in {"ingest", "delete"}
                 \/ phases = <<"delete", "upsert">> /\ some /\ kind = "agents"
                 \/ phases = <<"delete", "upsert", "unstage">> /\ some /\ kind = "ingest"
           /\ Head(phases) = "remove" =>
                 \/ phases = <<"remove">> /\ ~some /\ kind \in {"delete", "keyword"}
                 \/ phases = <<"remove", "upsert">> /\ some /\ kind = "agents"
           /\ Head(phases) = "search" => phases = <<"search", "remove">> /\ ~some /\ kind = "keyword"
           /\ Head(phases) = "clear" => phases = <<"clear">> /\ ~some /\ kind = "all"
           /\ Head(phases) = "unstage" => phases = <<"unstage">> /\ some /\ kind = "ingest"
           /\ Head(phases) = "fetch" => phases = <<"fetch", "upsert">> /\ ~some /\ kind = "copy"
  <1> USE HeadsOfPhases
  <1>1. CASE kind = "migrate"
    BY <1>1 DEF PhasesLeft
  <1>2. CASE kind = "agents"
    BY <1>2 DEF PhasesLeft
  <1>3. CASE kind = "ingest"
    BY <1>3 DEF PhasesLeft
  <1>4. CASE kind = "delete"
    BY <1>4 DEF PhasesLeft
  <1>5. CASE kind = "keyword"
    BY <1>5 DEF PhasesLeft
  <1>6. CASE kind = "all"
    BY <1>6 DEF PhasesLeft
  <1>7. CASE kind = "copy"
    BY <1>7 DEF PhasesLeft
  <1>8. CASE kind = "none"
    BY <1>8 DEF PhasesLeft
  <1> QED  BY <1>1, <1>2, <1>3, <1>4, <1>5, <1>6, <1>7, <1>8 DEF CommandKinds

\* The rows of an index: finitely many, one per id; Pinecone has none of a
\* staging source.
GoodRows(b, set) ==
    /\ set \subseteq Row /\ IsFiniteSet(set)
    /\ \A r, s \in set : SameId(r, s) => r = s
    /\ b = "pinecone" => \A r \in set : ~r.staged

\* The part of a set of rows that has one of the given sources.
PartFrom(set, sources) == {r \in set : r.source \in sources}

\* Nothing changes outside the written sources.
SameElsewhere(old, new, written) ==
    \A sources : sources \cap written = {} => PartFrom(new, sources) = PartFrom(old, sources)

LEMMA UpsertRows ==
    ASSUME NEW b \in Indexes, NEW old, NEW new, GoodRows(b, old), GoodRows(b, new)
    PROVE  /\ GoodRows(b, Upserted(old, new))
           /\ new \subseteq Upserted(old, new)
           /\ Upserted(old, new) \subseteq old \cup new
           /\ \A r \in old : (\A s \in new : SameId(r, s) => r = s) => r \in Upserted(old, new)
           /\ SameElsewhere(old, Upserted(old, new), {r.source : r \in new})
  <1> DEFINE kept == {r \in old : \A s \in new : ~SameId(r, s)}
  <1>1. Upserted(old, new) = kept \cup new
    BY DEF Upserted
  <1>2. kept \subseteq old
    OBVIOUS
  <1>3. IsFiniteSet(kept \cup new)
    BY <1>2, FS_Subset, FS_Union DEF GoodRows
  <1>4. \A r, s : SameId(r, s) => SameId(s, r)
    BY DEF SameId
  <1>5. \A r, s \in kept \cup new : SameId(r, s) => r = s
    BY <1>4 DEF GoodRows
  <1>6. ASSUME NEW r \in old, \A s \in new : SameId(r, s) => r = s
        PROVE  r \in kept \cup new
    BY <1>6
  <1>7. ASSUME NEW sources, sources \cap {r.source : r \in new} = {}
        PROVE  PartFrom(kept \cup new, sources) = PartFrom(old, sources)
    <2>1. \A r \in new : r.source \notin sources
      BY <1>7
    <2>2. ASSUME NEW r \in old, r.source \in sources
          PROVE  r \in kept
      BY <2>1, <2>2 DEF SameId
    <2> QED  BY <2>1, <2>2 DEF PartFrom
  <1>8. SameElsewhere(old, kept \cup new, {r.source : r \in new})
    BY <1>7 DEF SameElsewhere
  <1> QED  BY <1>1, <1>2, <1>3, <1>5, <1>6, <1>8 DEF GoodRows

ErasedRows(old, dropped) == {r \in old : \A s \in dropped : ~SameId(r, s)}

LEMMA EraseRows ==
    ASSUME NEW b \in Indexes, NEW old, NEW dropped, GoodRows(b, old)
    PROVE  /\ GoodRows(b, ErasedRows(old, dropped))
           /\ ErasedRows(old, dropped) \subseteq old
           /\ ErasedRows(old, dropped) \cap dropped = {}
           /\ \A r \in ErasedRows(old, dropped), s \in dropped : ~SameId(r, s)
           /\ SameElsewhere(old, ErasedRows(old, dropped), {s.source : s \in dropped})
  <1> DEFINE kept == ErasedRows(old, dropped)
  <1>1. kept \subseteq old
    BY DEF ErasedRows
  <1>2. IsFiniteSet(kept)
    BY <1>1, FS_Subset DEF GoodRows
  <1>3. \A r \in kept, s \in dropped : ~SameId(r, s)
    BY DEF ErasedRows
  <1>4. \A r : SameId(r, r)
    BY DEF SameId
  <1>5. ASSUME NEW sources, sources \cap {s.source : s \in dropped} = {}
        PROVE  PartFrom(kept, sources) = PartFrom(old, sources)
    <2>1. \A s \in dropped : s.source \notin sources
      BY <1>5
    <2>2. ASSUME NEW r \in old, r.source \in sources
          PROVE  r \in kept
      BY <2>1, <2>2 DEF SameId, ErasedRows
    <2> QED  BY <1>1, <2>2 DEF PartFrom
  <1>6. SameElsewhere(old, kept, {s.source : s \in dropped})
    BY <1>5 DEF SameElsewhere
  <1> QED  BY <1>1, <1>2, <1>3, <1>4, <1>6 DEF GoodRows

AnyPhases ==
    UNION {PhasesLeft(kind, TRUE) \cup PhasesLeft(kind, FALSE) : kind \in CommandKinds}

\* The state of a command.
CommandRecord ==
    [kind : CommandKinds, backend : Indexes, scope : SUBSET Sources,
     step : {"new", "running", "ended"}, phases : AnyPhases,
     chunks : Seq(Row), at : Nat \ {0}, found : SUBSET Row,
     failed : BOOLEAN, disturbed : BOOLEAN]

\* The chunks to write: of the command's sources, with ids of their own.
OwnChunks(c) ==
    /\ \A i \in 1 .. Len(c.chunks) : c.chunks[i].source \in c.scope /\ ~c.chunks[i].staged
    /\ \A i, j \in 1 .. Len(c.chunks) :
          SameId(c.chunks[i], c.chunks[j]) => c.chunks[i] = c.chunks[j]

CommandOK(c) ==
    /\ c \in CommandRecord
    /\ c.phases \in PhasesLeft(c.kind, c.chunks # <<>>)
    /\ c.step = "ended" => c.failed \/ c.phases = <<>>
    /\ c.kind = "ingest" => c.backend = "pgvector"
    /\ c.kind = "all" => c.scope = Sources
    /\ OwnChunks(c)
    /\ c.at =< Len(c.chunks) \/ c.at = 1
    /\ c.kind = "keyword" /\ c.phases # <<"search", "remove">> =>
          \A s \in c.found : s.source \in c.scope

\* What a command that has not failed, and that no other has disturbed, knows
\* of the rows of its own sources.
Progress(c, own) ==
    /\ \A i \in 1 .. Len(c.chunks) :
          \/ c.phases \in {<<>>, <<"unstage">>}
          \/ c.phases \in {<<"upsert">>, <<"upsert", "unstage">>} /\ i < c.at
          => c.chunks[i] \in own
    /\ (/\ c.kind = "ingest" \/ (c.kind = "agents" /\ c.chunks # <<>>)
        /\ c.phases \in {<<>>, <<"unstage">>, <<"upsert">>, <<"upsert", "unstage">>})
       => own \subseteq Range(c.chunks)
    /\ (/\ c.kind \in {"agents", "delete"}
        /\ c.phases \in {<<"remove">>, <<"remove", "upsert">>})
       => own \subseteq c.found
    /\ c.kind \in {"delete", "all"} /\ c.phases = <<>> => own = {}
    /\ c.kind = "keyword" /\ c.phases = <<>> =>
          \A r \in own, s \in c.found : ~SameId(r, s)

CommandInv(c, set) ==
    /\ CommandOK(c)
    /\ ~c.failed /\ ~c.disturbed => Progress(c, PartFrom(set, c.scope))

CliInv ==
    /\ document \in [Files -> [version : 1..MaxVersion, length : 0..MaxChunks]]
    /\ rows \in [Indexes -> SUBSET Row]
    /\ \A b \in Indexes : GoodRows(b, rows[b])
    /\ command \in [Commands -> CommandRecord]
    /\ \A p \in Commands : CommandInv(command[p], rows[command[p].backend])

LEMMA InitialCommand == CommandOK(NotRun) /\ NotRun.phases = <<>> /\ NotRun.kind = "none"
  <1>1. <<>> \in PhasesLeft("none", FALSE) /\ "none" \in CommandKinds
    BY DEF PhasesLeft, CommandKinds
  <1>2. NotRun \in CommandRecord
    <2>1. <<>> \in Seq(Row)
      OBVIOUS
    <2>2. <<>> \in AnyPhases
      BY <1>1 DEF AnyPhases
    <2>3. 1 \in Nat \ {0}
      OBVIOUS
    <2>4. {} \in SUBSET Sources /\ {} \in SUBSET Row
      OBVIOUS
    <2> HIDE DEF AnyPhases, CommandKinds
    <2> QED  BY <1>1, <2>1, <2>2, <2>3, <2>4 DEF NotRun, CommandRecord, Indexes
  <1>3. NotRun.chunks = <<>> /\ NotRun.phases = <<>> /\ NotRun.kind = "none" /\ NotRun.at = 1
        /\ NotRun.backend = "pinecone"
    BY DEF NotRun
  <1>4. OwnChunks(NotRun)
    BY <1>3 DEF OwnChunks
  <1> HIDE DEF NotRun
  <1> QED  BY <1>1, <1>2, <1>3, <1>4 DEF CommandOK

LEMMA CliInitInv == CliInit => CliInv
  <1> SUFFICES ASSUME CliInit
               PROVE  CliInv
    OBVIOUS
  <1>1. document \in [Files -> [version : 1..MaxVersion, length : 0..MaxChunks]]
    <2>1. 1 \in 1..MaxVersion /\ MaxChunks \in 0..MaxChunks
      BY CliAssumption
    <2> QED  BY <2>1 DEF CliInit
  <1>2. \A b \in Indexes : rows[b] = {}
    BY DEF CliInit
  <1>3. rows \in [Indexes -> SUBSET Row]
    BY DEF CliInit
  <1>4. \A b \in Indexes : GoodRows(b, {})
    BY FS_EmptySet DEF GoodRows
  <1>5. \A p \in Commands : command[p] = NotRun
    BY DEF CliInit
  <1>6. command = [p \in Commands |-> NotRun]
    BY DEF CliInit
  <1>7. command \in [Commands -> CommandRecord]
    BY <1>6, InitialCommand DEF CommandOK
  <1>8. NotRun.chunks = <<>>
    BY DEF NotRun
  <1>9. CommandInv(NotRun, {})
    <2>1. PartFrom({}, NotRun.scope) = {}
      BY DEF PartFrom
    <2>2. Progress(NotRun, {})
      BY <1>8, InitialCommand DEF Progress
    <2> QED  BY <2>1, <2>2, InitialCommand DEF CommandInv
  <1>10. NotRun.backend \in Indexes
    BY DEF NotRun, Indexes
  <1> QED  BY <1>1, <1>2, <1>3, <1>4, <1>5, <1>7, <1>9, <1>10 DEF CliInv

LEMMA CommandTyped ==
    ASSUME NEW c, CommandOK(c)
    PROVE  /\ c.kind \in CommandKinds /\ c.backend \in Indexes /\ c.scope \subseteq Sources
           /\ c.chunks \in Seq(Row) /\ c.at \in Nat \ {0} /\ c.found \subseteq Row
           /\ Len(c.chunks) \in Nat /\ DOMAIN c.chunks = 1 .. Len(c.chunks)
           /\ \A i \in 1 .. Len(c.chunks) : c.chunks[i] \in Row
           /\ c.chunks # <<>> => Len(c.chunks) > 0 /\ c.at =< Len(c.chunks)
           /\ c.chunks = <<>> => Len(c.chunks) = 0
  <1>1. c \in CommandRecord
    BY DEF CommandOK
  <1>2. c.chunks \in Seq(Row) /\ c.at \in Nat \ {0} /\ c.found \subseteq Row
    BY <1>1 DEF CommandRecord
  <1>3. Len(c.chunks) \in Nat /\ DOMAIN c.chunks = 1 .. Len(c.chunks)
    BY <1>2, LenProperties
  <1>4. \A i \in 1 .. Len(c.chunks) : c.chunks[i] \in Row
    BY <1>2, ElementOfSeq
  <1>5. c.chunks # <<>> => Len(c.chunks) \in Nat \ {0}
    BY <1>2, EmptySeq
  <1>6. c.at =< Len(c.chunks) \/ c.at = 1
    BY DEF CommandOK
  <1>7. c.chunks = <<>> => Len(c.chunks) = 0
    BY EmptySeq
  <1>8. c.chunks # <<>> => Len(c.chunks) > 0 /\ c.at =< Len(c.chunks)
    BY <1>3, <1>5, <1>6
  <1> QED  BY <1>1, <1>2, <1>3, <1>4, <1>7, <1>8 DEF CommandRecord

LEMMA BatchRows ==
    ASSUME NEW c, CommandOK(c), c.chunks # <<>>, NEW staging \in BOOLEAN,
           staging => c.backend = "pgvector"
    PROVE  /\ LastOf(c) \in Nat /\ c.at =< LastOf(c) /\ LastOf(c) =< Len(c.chunks)
           /\ GoodRows(c.backend, BatchOf(c, staging))
           /\ \A r \in BatchOf(c, staging) : r.source \in c.scope
           /\ ~staging => BatchOf(c, staging) = {c.chunks[i] : i \in c.at .. LastOf(c)}
  <1> DEFINE last == LastOf(c)
             at == c.at
             n == Len(c.chunks)
             row(i) == [c.chunks[i] EXCEPT !.staged = staging]
             batch == {row(i) : i \in at .. last}
  <1>1. /\ at \in Nat \ {0} /\ n \in Nat /\ at =< n /\ n > 0
        /\ \A i \in 1 .. n : c.chunks[i] \in Row
    BY CommandTyped
  <1>2. last \in Nat /\ at =< last /\ last =< n
    <2>1. last = IF at + BatchSize > n THEN n ELSE at + BatchSize - 1
      BY DEF LastOf
    <2>2. BatchSize \in Nat \ {0}
      BY CliAssumption
    <2> HIDE DEF last, at, n
    <2> QED  BY <1>1, <2>1, <2>2
  <1>3. BatchOf(c, staging) = batch
    BY DEF BatchOf
  <1> HIDE DEF last, at, n
  <1>4. \A i \in at .. last : i \in 1 .. n
    BY <1>1, <1>2
  <1>5. ASSUME NEW i \in 1 .. n
        PROVE  /\ row(i) \in Row /\ row(i).staged = staging
               /\ row(i).source = c.chunks[i].source /\ row(i).chunk = c.chunks[i].chunk
               /\ c.chunks[i].source \in c.scope /\ ~c.chunks[i].staged
               /\ ~staging => row(i) = c.chunks[i]
    <2>1. c.chunks[i] \in Row /\ c.chunks[i].source \in c.scope /\ ~c.chunks[i].staged
      BY <1>1 DEF CommandOK, OwnChunks, n
    <2> QED  BY <2>1 DEF Row
  <1>6. \A r, s \in batch : SameId(r, s) => r = s
    <2>1. ASSUME NEW i \in at .. last, NEW j \in at .. last, SameId(row(i), row(j))
          PROVE  row(i) = row(j)
      <3>1. SameId(c.chunks[i], c.chunks[j])
        BY <1>4, <1>5, <2>1 DEF SameId
      <3>2. c.chunks[i] = c.chunks[j]
        BY <1>4, <3>1 DEF CommandOK, OwnChunks, n
      <3> QED  BY <3>2
    <2> QED  BY <2>1
  <1>7. IsFiniteSet(batch)
    <2>1. IsFiniteSet(at .. last)
      BY <1>1, <1>2, FS_Interval
    <2> DEFINE rowOf == [i \in at .. last |-> row(i)]
    <2>2. rowOf \in Surjection(at .. last, batch)
      BY DEF Surjection
    <2> QED  BY <2>1, <2>2, FS_Surjection
  <1>8. batch \subseteq Row
    BY <1>4, <1>5
  <1>9. c.backend = "pinecone" => \A r \in batch : ~r.staged
    <2>1. c.backend = "pinecone" => staging = FALSE
      OBVIOUS
    <2>2. \A r \in batch : r.staged = staging
      BY <1>4, <1>5
    <2> QED  BY <2>1, <2>2
  <1>10. \A r \in batch : r.source \in c.scope
    BY <1>4, <1>5
  <1>11. ~staging => batch = {c.chunks[i] : i \in at .. last}
    <2>1. ~staging => \A i \in at .. last : row(i) = c.chunks[i]
      BY <1>4, <1>5
    <2> HIDE DEF row
    <2> QED  BY <2>1
  <1>12. GoodRows(c.backend, batch)
    BY <1>6, <1>7, <1>8, <1>9 DEF GoodRows
  <1> QED  BY <1>2, <1>3, <1>10, <1>11, <1>12 DEF last, at, n

LEMMA DisturbedKeeps ==
    ASSUME NEW c, CommandOK(c), NEW set
    PROVE  /\ CommandInv([c EXCEPT !.disturbed = TRUE], set)
           /\ [c EXCEPT !.disturbed = TRUE].backend = c.backend
  <1> DEFINE d == [c EXCEPT !.disturbed = TRUE]
  <1>1. c \in CommandRecord
    BY DEF CommandOK
  <1>2. /\ d \in CommandRecord /\ d.disturbed = TRUE
        /\ d.kind = c.kind /\ d.backend = c.backend /\ d.scope = c.scope /\ d.step = c.step
        /\ d.phases = c.phases /\ d.chunks = c.chunks /\ d.at = c.at /\ d.found = c.found
        /\ d.failed = c.failed
    BY <1>1 DEF CommandRecord
  <1> HIDE DEF d
  <1>3. CommandOK(d)
    BY <1>2 DEF CommandOK, OwnChunks
  <1>4. CommandInv(d, set)
    BY <1>2, <1>3 DEF CommandInv
  <1> QED  BY <1>2, <1>4 DEF d

\* A write of one command, or of the context engine, to an index.
WrittenTo(b, set, written) ==
    /\ rows' = [rows EXCEPT ![b] = set] /\ GoodRows(b, set)
    /\ SameElsewhere(rows[b], set, written)

\* A command that another one does not disturb still knows its rows.
LEMMA OtherKeeps ==
    ASSUME CliInv, NEW b \in Indexes, NEW set, NEW written, WrittenTo(b, set, written),
           NEW q \in Commands,
           command'[q] = IF command[q].backend = b /\ command[q].scope \cap written # {}
                         THEN [command[q] EXCEPT !.disturbed = TRUE]
                         ELSE command[q]
    PROVE  CommandInv(command'[q], rows'[command'[q].backend])
  <1> DEFINE d == command[q]
  <1>1. CommandInv(d, rows[d.backend]) /\ d \in CommandRecord /\ rows \in [Indexes -> SUBSET Row]
    BY DEF CliInv
  <1>2. command'[q] = IF d.backend = b /\ d.scope \cap written # {}
                      THEN [d EXCEPT !.disturbed = TRUE]
                      ELSE d
    OBVIOUS
  <1>3. \A e \in Indexes : rows'[e] = IF e = b THEN set ELSE rows[e]
    BY <1>1 DEF WrittenTo
  <1> HIDE DEF d
  <1>4. CASE d.backend = b /\ d.scope \cap written # {}
    <2>1. command'[q] = [d EXCEPT !.disturbed = TRUE] /\ CommandOK(d)
      BY <1>1, <1>2, <1>4 DEF CommandInv
    <2>2. \A any : CommandInv([d EXCEPT !.disturbed = TRUE], any)
      BY <2>1, DisturbedKeeps
    <2> QED  BY <2>1, <2>2
  <1>5. CASE d.backend # b
    <2>1. d.backend \in Indexes
      BY <1>1 DEF CommandRecord
    <2> QED  BY <1>1, <1>2, <1>3, <1>5, <2>1
  <1>6. CASE d.backend = b /\ d.scope \cap written = {}
    <2>1. PartFrom(set, d.scope) = PartFrom(rows[b], d.scope)
      BY <1>6 DEF WrittenTo, SameElsewhere
    <2>2. rows'[b] = set /\ command'[q] = d
      BY <1>2, <1>3, <1>6
    <2> QED  BY <1>1, <1>6, <2>1, <2>2 DEF CommandInv
  <1> QED  BY <1>4, <1>5, <1>6

LEMMA RowsKept ==
    ASSUME CliInv, NEW b \in Indexes, NEW set, NEW written, WrittenTo(b, set, written)
    PROVE  /\ rows' \in [Indexes -> SUBSET Row]
           /\ \A d \in Indexes : GoodRows(d, rows'[d])
  BY DEF CliInv, GoodRows, WrittenTo

LEMMA OthersKeep ==
    ASSUME CliInv, NEW p \in Commands, NEW c, NEW b \in Indexes, NEW set, NEW written,
           rows' = [rows EXCEPT ![b] = set], GoodRows(b, set),
           SameElsewhere(rows[b], set, written),
           Became(p, c, b, written), CommandInv(c, rows'[c.backend]), document' = document
    PROVE  CliInv'
  <1>1. WrittenTo(b, set, written)
    BY DEF WrittenTo
  <1>2. command'[p] = c
    BY DEF Became
  <1>3. \A q \in Commands : CommandInv(command'[q], rows'[command'[q].backend])
    <2> SUFFICES ASSUME NEW q \in Commands
                 PROVE  CommandInv(command'[q], rows'[command'[q].backend])
      OBVIOUS
    <2>1. CASE q = p
      BY <1>2, <2>1
    <2>2. CASE q # p
      <3>1. command'[q] = IF command[q].backend = b /\ command[q].scope \cap written # {}
                          THEN [command[q] EXCEPT !.disturbed = TRUE]
                          ELSE command[q]
        BY <2>2 DEF Became
      <3> QED  BY <1>1, <3>1, OtherKeeps
    <2> QED  BY <2>1, <2>2
  <1>4. command' \in [Commands -> CommandRecord]
    <2>1. \A q \in Commands : command'[q] \in CommandRecord
      BY <1>3 DEF CommandInv, CommandOK
    <2>2. command' = [q \in Commands |-> command'[q]]
      BY DEF Became
    <2> QED  BY <2>1, <2>2
  <1> QED  BY <1>1, <1>3, <1>4, RowsKept DEF CliInv

LEMMA AloneKeeps ==
    ASSUME CliInv, NEW p \in Commands, NEW c, command' = [command EXCEPT ![p] = c],
           CommandInv(c, rows[c.backend]), document' = document, rows' = rows
    PROVE  CliInv'
  <1>1. command \in [Commands -> CommandRecord] /\ c \in CommandRecord
    BY DEF CliInv, CommandInv, CommandOK
  <1>2. command' \in [Commands -> CommandRecord]
    BY <1>1
  <1>3. \A q \in Commands : command'[q] = IF q = p THEN c ELSE command[q]
    BY <1>1
  <1>4. \A q \in Commands : CommandInv(command'[q], rows[command'[q].backend])
    BY <1>3 DEF CliInv
  <1> QED  BY <1>2, <1>4 DEF CliInv

\* What the rows of a command tell it once they have changed.
LEMMA CommandKept ==
    ASSUME NEW c, CommandOK(c), NEW set,
           ~c.failed /\ ~c.disturbed => Progress(c, PartFrom(set, c.scope))
    PROVE  CommandInv(c, set)
  BY DEF CommandInv

LEMMA PhasesTyped ==
    ASSUME NEW kind \in CommandKinds, NEW some \in BOOLEAN, NEW phases \in PhasesLeft(kind, some)
    PROVE  phases \in AnyPhases
  <1> DEFINE both(k) == PhasesLeft(k, TRUE) \cup PhasesLeft(k, FALSE)
  <1>1. phases \in both(kind)
    OBVIOUS
  <1> HIDE DEF both
  <1>2. phases \in UNION {both(k) : k \in CommandKinds}
    BY <1>1
  <1> QED  BY <1>2 DEF AnyPhases, both

LEMMA PhasesDiffer ==
    /\ {<<"stage", "delete", "upsert", "unstage">>, <<"delete", "upsert", "unstage">>,
        <<"delete", "upsert">>, <<"remove", "upsert">>, <<"fetch", "upsert">>,
        <<"search", "remove">>, <<"delete">>, <<"remove">>, <<"clear">>}
       \cap {<<>>, <<"unstage">>, <<"upsert">>, <<"upsert", "unstage">>} = {}
    /\ {<<>>, <<"unstage">>} \cap {<<"upsert">>, <<"upsert", "unstage">>} = {}
    /\ <<"search", "remove">> # <<"remove">> /\ <<"delete">> # <<"remove">>
    /\ <<"delete", "upsert">> # <<"remove", "upsert">>
  OBVIOUS

LEMMA NextFields ==
    ASSUME NEW c, CommandOK(c), NEW rest \in PhasesLeft(c.kind, c.chunks # <<>>),
           c.step = "running", Tail(c.phases) = rest, c.kind = "keyword" => c.phases # <<"search", "remove">>
    PROVE  /\ CommandOK(NextPhase(c))
           /\ NextPhase(c).phases = rest /\ NextPhase(c).at = 1
           /\ NextPhase(c).kind = c.kind /\ NextPhase(c).backend = c.backend
           /\ NextPhase(c).scope = c.scope /\ NextPhase(c).chunks = c.chunks
           /\ NextPhase(c).found = c.found /\ NextPhase(c).failed = c.failed
           /\ NextPhase(c).disturbed = c.disturbed
  <1> DEFINE d == NextPhase(c)
  <1>1. c \in CommandRecord /\ c.kind \in CommandKinds
    BY CommandTyped DEF CommandOK
  <1>2. rest \in AnyPhases
    BY <1>1, PhasesTyped
  <1> DEFINE half == [c EXCEPT !.phases = rest]
  <1>3. d = [half EXCEPT !.at = 1]
    BY <1>1 DEF NextPhase, CommandRecord
  <1>6. /\ half \in CommandRecord
        /\ half.phases = rest
        /\ half.kind = c.kind /\ half.backend = c.backend
        /\ half.scope = c.scope /\ half.chunks = c.chunks
        /\ half.step = "running" /\ half.found = c.found /\ half.failed = c.failed
        /\ half.disturbed = c.disturbed
    BY <1>1, <1>2 DEF CommandRecord
  <1>7. 1 \in Nat \ {0}
    OBVIOUS
  <1> HIDE DEF d, half
  <1>4. /\ d \in CommandRecord
        /\ d.phases = rest /\ d.at = 1 /\ d.step = "running"
        /\ d.kind = c.kind /\ d.backend = c.backend
        /\ d.scope = c.scope /\ d.chunks = c.chunks
        /\ d.found = c.found /\ d.failed = c.failed
        /\ d.disturbed = c.disturbed
    BY <1>3, <1>6, <1>7 DEF CommandRecord
  <1>5. CommandOK(d)
    BY <1>4 DEF CommandOK, OwnChunks
  <1> QED  BY <1>4, <1>5 DEF d

LEMMA MoreFields ==
    ASSUME NEW c, CommandOK(c), NEW at \in Nat \ {0}, at =< Len(c.chunks)
    PROVE  /\ CommandOK([c EXCEPT !.at = at])
           /\ [c EXCEPT !.at = at].phases = c.phases /\ [c EXCEPT !.at = at].at = at
           /\ [c EXCEPT !.at = at].kind = c.kind /\ [c EXCEPT !.at = at].backend = c.backend
           /\ [c EXCEPT !.at = at].scope = c.scope /\ [c EXCEPT !.at = at].chunks = c.chunks
           /\ [c EXCEPT !.at = at].found = c.found /\ [c EXCEPT !.at = at].failed = c.failed
           /\ [c EXCEPT !.at = at].disturbed = c.disturbed
  <1> DEFINE d == [c EXCEPT !.at = at]
  <1>1. c \in CommandRecord
    BY DEF CommandOK
  <1>2. /\ d \in CommandRecord
        /\ d.phases = c.phases /\ d.at = at /\ d.step = c.step
        /\ d.kind = c.kind /\ d.backend = c.backend
        /\ d.scope = c.scope /\ d.chunks = c.chunks
        /\ d.found = c.found /\ d.failed = c.failed
        /\ d.disturbed = c.disturbed
    BY <1>1 DEF CommandRecord
  <1> HIDE DEF d
  <1>3. CommandOK(d)
    BY <1>2 DEF CommandOK, OwnChunks
  <1> QED  BY <1>2, <1>3 DEF d

LEMMA EndedFields ==
    ASSUME NEW c, CommandOK(c), c.failed \/ c.phases = <<>>
    PROVE  /\ CommandOK([c EXCEPT !.step = "ended"])
           /\ \A own : Progress([c EXCEPT !.step = "ended"], own) <=> Progress(c, own)
           /\ [c EXCEPT !.step = "ended"].failed = c.failed
           /\ [c EXCEPT !.step = "ended"].disturbed = c.disturbed
           /\ [c EXCEPT !.step = "ended"].scope = c.scope
           /\ [c EXCEPT !.step = "ended"].backend = c.backend
  <1> DEFINE d == [c EXCEPT !.step = "ended"]
  <1>1. c \in CommandRecord
    BY DEF CommandOK
  <1>2. /\ d \in CommandRecord
        /\ d.phases = c.phases /\ d.at = c.at
        /\ d.kind = c.kind /\ d.backend = c.backend
        /\ d.scope = c.scope /\ d.chunks = c.chunks
        /\ d.found = c.found /\ d.failed = c.failed
        /\ d.disturbed = c.disturbed
    BY <1>1 DEF CommandRecord
  <1> HIDE DEF d
  <1>4. CommandOK(d)
    BY <1>2 DEF CommandOK, OwnChunks
  <1>5. \A own : Progress(d, own) <=> Progress(c, own)
    BY <1>2 DEF Progress
  <1> QED  BY <1>2, <1>4, <1>5 DEF d

LEMMA FailedFields ==
    ASSUME NEW c, CommandOK(c)
    PROVE  /\ CommandOK([c EXCEPT !.failed = TRUE]) /\ [c EXCEPT !.failed = TRUE].failed = TRUE
           /\ [c EXCEPT !.failed = TRUE].backend = c.backend
  <1> DEFINE e == [c EXCEPT !.failed = TRUE]
  <1>1. c \in CommandRecord
    BY DEF CommandOK
  <1>3. /\ e \in CommandRecord
        /\ e.phases = c.phases /\ e.at = c.at
        /\ e.kind = c.kind /\ e.backend = c.backend
        /\ e.scope = c.scope /\ e.chunks = c.chunks
        /\ e.found = c.found /\ e.failed = TRUE
    BY <1>1 DEF CommandRecord
  <1> HIDE DEF e
  <1>4. CommandOK(e)
    BY <1>3 DEF CommandOK, OwnChunks
  <1> QED  BY <1>3, <1>4 DEF e

\* What is left to do after a phase.
LEMMA RestsOfPhases ==
    ASSUME NEW kind \in CommandKinds, NEW some \in BOOLEAN,
           NEW phases \in PhasesLeft(kind, some), phases # <<>>,
           Head(phases) \notin {"search", "fetch"}
    PROVE  Tail(phases) \in PhasesLeft(kind, some)
  <1> USE HeadsOfPhases, TailsOfPhases
  <1>1. CASE kind = "migrate"
    BY <1>1 DEF PhasesLeft
  <1>2. CASE kind = "agents"
    BY <1>2 DEF PhasesLeft
  <1>3. CASE kind = "ingest"
    BY <1>3 DEF PhasesLeft
  <1>4. CASE kind = "delete"
    BY <1>4 DEF PhasesLeft
  <1>5. CASE kind = "keyword"
    BY <1>5 DEF PhasesLeft
  <1>6. CASE kind = "all"
    BY <1>6 DEF PhasesLeft
  <1>7. CASE kind = "copy"
    BY <1>7 DEF PhasesLeft
  <1>8. CASE kind = "none"
    BY <1>8 DEF PhasesLeft
  <1> QED  BY <1>1, <1>2, <1>3, <1>4, <1>5, <1>6, <1>7, <1>8 DEF CommandKinds

-----------------------------------------------------------------------------
(* The writes.                                                             *)

LEMMA UpsertKeeps ==
    ASSUME CliInv, NEW p \in Commands, Upsert(p)
    PROVE  CliInv'
  <1> DEFINE c == command[p]
             b == c.backend
             staging == (Head(c.phases) = "stage")
             batch == BatchOf(c, staging)
             set == Upserted(rows[b], batch)
             d == AfterBatchOf(c)
             n == Len(c.chunks)
             last == LastOf(c)
  <1>1. /\ rows' = [rows EXCEPT ![b] = set]
        /\ Became(p, d, b, {r.source : r \in batch})
        /\ document' = document
        /\ c.phases # <<>> /\ Head(c.phases) \in {"upsert", "stage"} /\ c.step = "running"
    BY DEF Upsert, InPhase
  <1>2. /\ CommandInv(c, rows[b]) /\ CommandOK(c) /\ c.kind \in CommandKinds
        /\ b \in Indexes /\ GoodRows(b, rows[b]) /\ rows \in [Indexes -> SUBSET Row]
    BY CommandTyped DEF CliInv, CommandInv
  <1>3. /\ c.chunks # <<>>
        /\ staging => c.kind = "ingest" /\ c.phases = <<"stage", "delete", "upsert", "unstage">>
        /\ ~staging => c.phases = IF c.kind = "ingest" THEN <<"upsert", "unstage">> ELSE <<"upsert">>
    BY <1>1, <1>2, HeadDecides DEF CommandOK
  <1>4. staging => b = "pgvector"
    BY <1>2, <1>3 DEF CommandOK
  <1>5. /\ last \in Nat /\ c.at =< last /\ last =< n
        /\ GoodRows(b, batch) /\ \A r \in batch : r.source \in c.scope
        /\ ~staging => batch = {c.chunks[i] : i \in c.at .. last}
    BY <1>2, <1>3, <1>4, BatchRows
  <1>6. n \in Nat /\ c.at \in Nat \ {0} /\ DOMAIN c.chunks = 1 .. n
    BY <1>2, CommandTyped
  <1>7. /\ GoodRows(b, set) /\ batch \subseteq set /\ set \subseteq rows[b] \cup batch
        /\ \A r \in rows[b] : (\A s \in batch : SameId(r, s) => r = s) => r \in set
        /\ SameElsewhere(rows[b], set, {r.source : r \in batch})
    BY <1>2, <1>5, UpsertRows
  <1>8. /\ d = IF last = n THEN NextPhase(c) ELSE [c EXCEPT !.at = last + 1]
    BY DEF AfterBatchOf
  <1> DEFINE rest == IF staging THEN <<"delete", "upsert", "unstage">>
                     ELSE IF c.kind = "ingest" THEN <<"unstage">> ELSE <<>>
  <1>9. Tail(c.phases) = rest /\ rest \in PhasesLeft(c.kind, c.chunks # <<>>)
    <2>1. Tail(c.phases) = rest
      BY <1>3, TailsOfPhases
    <2>2. Tail(c.phases) \in PhasesLeft(c.kind, c.chunks # <<>>)
      BY <1>1, <1>2, RestsOfPhases DEF CommandOK
    <2> QED  BY <2>1, <2>2
  <1>10. /\ CommandOK(d) /\ d.kind = c.kind /\ d.backend = b /\ d.scope = c.scope
         /\ d.chunks = c.chunks /\ d.failed = c.failed /\ d.disturbed = c.disturbed
         /\ last = n => d.phases = rest
         /\ last # n => d.phases = c.phases /\ d.at = last + 1
    <2>1. CASE last = n
      <3>1. c.kind # "keyword"
        BY <1>2, <1>3 DEF CommandOK, PhasesLeft, CommandKinds
      <3>2. c.step = "running" /\ CommandOK(c) /\ d = NextPhase(c)
        BY <1>1, <1>2, <1>8, <2>1
      <3> HIDE DEF c, d, rest
      <3> QED  BY <1>9, <2>1, <3>1, <3>2, NextFields
    <2>2. CASE last # n
      <3>1. last + 1 \in Nat \ {0} /\ last + 1 =< n
        BY <1>5, <1>6, <2>2
      <3> HIDE DEF n, last
      <3> QED  BY <1>2, <1>8, <2>2, <3>1, MoreFields DEF n, last
    <2> QED  BY <2>1, <2>2
  <1> HIDE DEF c, staging, batch, set, d, n, last, rest
  <1>11. ASSUME ~c.failed, ~c.disturbed
         PROVE  Progress(d, PartFrom(set, c.scope))
    <2> DEFINE own == PartFrom(rows[b], c.scope)
               new == PartFrom(set, c.scope)
    <2>1. Progress(c, own)
      BY <1>2, <1>11 DEF CommandInv
    <2>2. CASE staging
      <3>1. d.kind = "ingest" /\ d.phases \in {<<"stage", "delete", "upsert", "unstage">>,
                                              <<"delete", "upsert", "unstage">>}
        BY <1>3, <1>10, <2>2 DEF rest
      <3>2. d.phases \notin {<<>>, <<"unstage">>, <<"upsert">>, <<"upsert", "unstage">>,
                              <<"remove">>, <<"remove", "upsert">>}
        BY <3>1, HeadsOfPhases, PhasesDiffer
      <3> QED  BY <3>1, <3>2 DEF Progress
    <2>3. CASE ~staging
      <3>1. batch = {c.chunks[i] : i \in c.at .. last}
        BY <1>5, <2>3
      <3>2. ASSUME NEW i \in 1 .. n, i =< last
            PROVE  c.chunks[i] \in new
        <4>1. CASE i < c.at
          <5>1. c.chunks[i] \in own
            BY <1>3, <2>1, <2>3, <4>1 DEF Progress, n
          <5>2. \A s \in batch : SameId(c.chunks[i], s) => c.chunks[i] = s
            <6>1. \A j \in c.at .. last : j \in 1 .. n
              BY <1>5, <1>6
            <6> QED  BY <1>2, <3>1, <6>1 DEF CommandOK, OwnChunks, n
          <5> QED  BY <1>7, <5>1, <5>2 DEF PartFrom
        <4>2. CASE ~(i < c.at)
          <5>1. i \in c.at .. last
            BY <1>5, <1>6, <3>2, <4>2
          <5>2. c.chunks[i] \in batch
            BY <3>1, <5>1
          <5> QED  BY <1>5, <1>7, <5>2 DEF PartFrom
        <4> QED  BY <4>1, <4>2
      <3>3. new \subseteq own \cup batch /\ batch \subseteq Range(c.chunks)
        <4>1. \A i \in c.at .. last : i \in DOMAIN c.chunks
          BY <1>5, <1>6
        <4> QED  BY <1>7, <3>1, <4>1 DEF PartFrom, Range
      <3>4. d.phases \in {<<>>, <<"unstage">>, <<"upsert">>, <<"upsert", "unstage">>}
        BY <1>3, <1>10, <2>3 DEF rest
      <3>5. d.phases \in {<<>>, <<"unstage">>} => last = n
        BY <1>3, <1>10, <2>3, PhasesDiffer
      <3>6. d.kind \notin {"delete", "all", "keyword"}
        BY <1>2, <1>3, <1>10, <2>3 DEF CommandOK, PhasesLeft, CommandKinds
      <3>7. \A i \in 1 .. n :
               \/ d.phases \in {<<>>, <<"unstage">>}
               \/ d.phases \in {<<"upsert">>, <<"upsert", "unstage">>} /\ i < d.at
               => c.chunks[i] \in new
        <4>1. ASSUME NEW i \in 1 .. n, last = n
              PROVE  c.chunks[i] \in new
          BY <1>6, <3>2, <4>1
        <4>2. ASSUME NEW i \in 1 .. n, last # n, i < d.at
              PROVE  c.chunks[i] \in new
          <5>1. i < last + 1
            BY <1>10, <4>2
          <5> QED  BY <1>5, <1>6, <3>2, <5>1
        <4> QED  BY <3>5, <4>1, <4>2
      <3>8. (d.kind = "ingest" \/ (d.kind = "agents" /\ d.chunks # <<>>))
            => new \subseteq Range(d.chunks)
        BY <1>3, <1>10, <2>1, <2>3, <3>3 DEF Progress
      <3>9. d.phases \notin {<<"remove">>, <<"remove", "upsert">>}
        BY <3>4, PhasesDiffer
      <3>10. n = Len(d.chunks) /\ d.chunks = c.chunks
        BY <1>10 DEF n
      <3> QED  BY <3>6, <3>7, <3>8, <3>9, <3>10 DEF Progress
    <2> QED  BY <2>2, <2>3
  <1>12. CommandInv(d, set)
    BY <1>10, <1>11 DEF CommandInv
  <1>13. rows'[d.backend] = set
    BY <1>1, <1>2, <1>10
  <1> QED  BY <1>1, <1>2, <1>7, <1>12, <1>13, OthersKeep

LEMMA EmptyProgress ==
    ASSUME NEW d, CommandOK(d), d.at = 1,
           d.phases \in {<<>>, <<"upsert">>, <<"upsert", "unstage">>},
           d.phases = <<>> => d.chunks = <<>>
    PROVE  Progress(d, {})
  <1>1. ASSUME NEW i \in 1 .. Len(d.chunks)
        PROVE  d.phases # <<>> /\ ~ (i < d.at)
    <2>1. Len(d.chunks) \in Nat /\ (d.chunks = <<>> => Len(d.chunks) = 0)
      BY CommandTyped
    <2>2. d.chunks # <<>>
      BY <1>1, <2>1
    <2>3. ~ (i < 1)
      BY <1>1, <2>1
    <2> QED  BY <2>2, <2>3
  <1>2. d.phases \notin {<<"unstage">>, <<"remove">>, <<"remove", "upsert">>}
    BY PhasesDiffer
  <1> QED  BY <1>1, <1>2 DEF Progress

\* The fields of a command after a phase that is not a search.
LEMMA AfterPhase ==
    ASSUME NEW c, CommandOK(c), c.step = "running", c.phases # <<>>,
           Head(c.phases) \notin {"search", "fetch"}
    PROVE  /\ CommandOK(NextPhase(c))
           /\ NextPhase(c).phases = Tail(c.phases) /\ NextPhase(c).at = 1
           /\ NextPhase(c).kind = c.kind /\ NextPhase(c).backend = c.backend
           /\ NextPhase(c).scope = c.scope /\ NextPhase(c).chunks = c.chunks
           /\ NextPhase(c).found = c.found /\ NextPhase(c).failed = c.failed
           /\ NextPhase(c).disturbed = c.disturbed
  <1>1. Tail(c.phases) \in PhasesLeft(c.kind, c.chunks # <<>>)
    BY RestsOfPhases, CommandTyped DEF CommandOK
  <1>2. c.kind = "keyword" => c.phases # <<"search", "remove">> /\ Tail(c.phases) # <<"search", "remove">>
    <2>1. ASSUME c.kind = "keyword"
          PROVE  c.phases = <<"remove">>
      BY <2>1, HeadsOfPhases DEF CommandOK, PhasesLeft
    <2> QED  BY <2>1, HeadsOfPhases, TailsOfPhases, PhasesDiffer
  <1> QED  BY <1>1, <1>2, NextFields

LEMMA EraseKeeps ==
    ASSUME CliInv, NEW p \in Commands, NEW dropped, NEW b \in Indexes,
           command[p].backend = b, command[p].step = "running",
           command[p].phases # <<>>, Head(command[p].phases) \notin {"search", "fetch"},
           Erase(p, NextPhase(command[p]), b, dropped),
           ~command[p].failed /\ ~command[p].disturbed =>
              Progress(NextPhase(command[p]),
                       PartFrom(ErasedRows(rows[b], dropped), command[p].scope))
    PROVE  CliInv'
  <1> DEFINE c == command[p]
             d == NextPhase(c)
             set == ErasedRows(rows[b], dropped)
  <1>1. /\ CommandOK(c) /\ GoodRows(b, rows[b]) /\ rows \in [Indexes -> SUBSET Row]
    BY DEF CliInv, CommandInv
  <1>2. /\ CommandOK(d) /\ d.backend = b /\ d.scope = c.scope
        /\ d.failed = c.failed /\ d.disturbed = c.disturbed
    BY <1>1, AfterPhase
  <1>3. /\ rows' = [rows EXCEPT ![b] = set] /\ document' = document
        /\ Became(p, d, b, {s.source : s \in dropped})
    BY DEF Erase, ErasedRows
  <1>4. GoodRows(b, set) /\ SameElsewhere(rows[b], set, {s.source : s \in dropped})
    BY <1>1, EraseRows
  <1>5. CommandInv(d, set)
    BY <1>2 DEF CommandInv
  <1>6. rows'[d.backend] = set
    BY <1>1, <1>2, <1>3
  <1> HIDE DEF c, d, set
  <1> QED  BY <1>3, <1>4, <1>5, <1>6, OthersKeep

LEMMA DeleteKeeps ==
    ASSUME CliInv, NEW p \in Commands,
           deleteBySourcePg(p) \/ deleteMany(p) \/ deleteNamespace(p)
    PROVE  CliInv'
  <1> DEFINE c == command[p]
             b == c.backend
             d == NextPhase(c)
  <1>1. /\ CommandInv(c, rows[b]) /\ CommandOK(c) /\ b \in Indexes /\ GoodRows(b, rows[b])
        /\ c.kind \in CommandKinds
        /\ c.phases \in PhasesLeft(c.kind, c.chunks # <<>>)
    BY CommandTyped DEF CliInv, CommandInv, CommandOK
  <1>2. /\ c.step = "running" /\ c.phases # <<>>
        /\ Head(c.phases) \in {"delete", "remove", "clear"}
    BY DEF deleteBySourcePg, deleteMany, deleteNamespace, InPhase
  <1>3. /\ CommandOK(d) /\ d.phases = Tail(c.phases) /\ d.at = 1 /\ d.kind = c.kind
        /\ d.scope = c.scope /\ d.chunks = c.chunks /\ d.found = c.found
    BY <1>1, <1>2, AfterPhase
  <1>8. ASSUME NEW dropped
        PROVE  /\ ErasedRows(rows[b], dropped) \subseteq rows[b]
               /\ ErasedRows(rows[b], dropped) \cap dropped = {}
               /\ \A r \in ErasedRows(rows[b], dropped), s \in dropped : ~SameId(r, s)
    <2>1. b \in Indexes /\ GoodRows(b, rows[b])
      BY <1>1
    <2> DEFINE all == rows[b]
    <2>2. b \in Indexes /\ GoodRows(b, all)
      BY <2>1
    <2> HIDE DEF b, all
    <2>3. /\ ErasedRows(all, dropped) \subseteq all
          /\ ErasedRows(all, dropped) \cap dropped = {}
          /\ \A r \in ErasedRows(all, dropped), s \in dropped : ~SameId(r, s)
      BY <2>2, EraseRows
    <2> QED  BY <2>3 DEF all
  <1>4. ASSUME NEW set, PartFrom(set, c.scope) = {},
               Head(c.phases) # "remove" \/ c.kind # "keyword"
        PROVE  Progress(d, PartFrom(set, c.scope))
    <2>1. \/ c.phases \in {<<"delete">>, <<"remove">>, <<"clear">>} /\ c.chunks = <<>>
          \/ c.phases \in {<<"delete", "upsert">>, <<"delete", "upsert", "unstage">>,
                           <<"remove", "upsert">>}
      BY <1>1, <1>2, HeadDecides
    <2>2. \/ d.phases = <<>> /\ d.chunks = <<>>
          \/ d.phases \in {<<"upsert">>, <<"upsert", "unstage">>}
      BY <1>3, <2>1, TailsOfPhases
    <2>3. d.phases = <<>> => d.chunks = <<>>
      BY <2>2, PhasesDiffer
    <2> HIDE DEF c, d
    <2> QED  BY <1>3, <1>4, <2>2, <2>3, EmptyProgress
  <1>5. CASE deleteBySourcePg(p)
    <2> DEFINE dropped == RowsOf(b, Hit(c.scope))
    <2>1. Erase(p, d, b, dropped) /\ Head(c.phases) = "delete"
      BY <1>5 DEF deleteBySourcePg, InPhase
    <2>2. PartFrom(rows[b], c.scope) \subseteq dropped
      BY DEF RowsOf, Hit, PartFrom
    <2>3. PartFrom(ErasedRows(rows[b], dropped), c.scope) = {}
      <3>1. /\ ErasedRows(rows[b], dropped) \subseteq rows[b]
            /\ ErasedRows(rows[b], dropped) \cap dropped = {}
        BY <1>8
      <3> QED  BY <2>2, <3>1 DEF PartFrom
    <2>4. Progress(d, PartFrom(ErasedRows(rows[b], dropped), c.scope))
      BY <1>4, <2>1, <2>3
    <2> QED  BY <1>1, <1>2, <2>1, <2>4, EraseKeeps
  <1>6. CASE deleteNamespace(p)
    <2>1. Erase(p, d, b, rows[b]) /\ Head(c.phases) = "clear"
      BY <1>6 DEF deleteNamespace, InPhase
    <2>3. PartFrom(ErasedRows(rows[b], rows[b]), c.scope) = {}
      <3>1. /\ ErasedRows(rows[b], rows[b]) \subseteq rows[b]
            /\ ErasedRows(rows[b], rows[b]) \cap rows[b] = {}
        BY <1>8
      <3> QED  BY <3>1 DEF PartFrom
    <2>4. Progress(d, PartFrom(ErasedRows(rows[b], rows[b]), c.scope))
      BY <1>4, <2>1, <2>3
    <2> QED  BY <1>1, <1>2, <2>1, <2>4, EraseKeeps
  <1>7. CASE deleteMany(p)
    <2> DEFINE dropped == c.found
               new == PartFrom(ErasedRows(rows[b], dropped), c.scope)
    <2>1. Erase(p, d, b, dropped) /\ Head(c.phases) = "remove"
      BY <1>7 DEF deleteMany, InPhase
    <2>2. ASSUME ~c.failed, ~c.disturbed
          PROVE  Progress(d, new)
      <3>1. CASE c.kind = "keyword"
        <4>1. c.phases = <<"remove">> /\ c.chunks = <<>>
          BY <1>1, <1>2, <2>1, <3>1, HeadDecides
        <4>2. d.phases = <<>> /\ d.kind = "keyword" /\ Len(d.chunks) = 0
          BY <1>3, <3>1, <4>1, TailsOfPhases, EmptySeq
        <4>3. \A r \in new, s \in d.found : ~SameId(r, s)
          <5>1. \A r \in ErasedRows(rows[b], dropped), s \in dropped : ~SameId(r, s)
            BY <1>8
          <5> QED  BY <1>3, <5>1 DEF PartFrom
        <4>4. \A i \in 1 .. Len(d.chunks) : FALSE
          BY <4>2
        <4> HIDE DEF d, new
        <4> QED  BY <4>2, <4>3, <4>4, PhasesDiffer DEF Progress
      <3>2. CASE c.kind # "keyword"
        <4>1. /\ c.kind \in {"agents", "delete"}
              /\ c.phases \in {<<"remove">>, <<"remove", "upsert">>}
          BY <1>1, <1>2, <2>1, <3>2, HeadDecides
        <4>2. PartFrom(rows[b], c.scope) \subseteq dropped
          BY <1>1, <2>2, <4>1 DEF CommandInv, Progress
        <4>3. new = {}
          <5>1. /\ ErasedRows(rows[b], dropped) \subseteq rows[b]
                /\ ErasedRows(rows[b], dropped) \cap dropped = {}
            BY <1>8
          <5> QED  BY <4>2, <5>1 DEF PartFrom
        <4> QED  BY <1>4, <3>2, <4>3
      <3> QED  BY <3>1, <3>2
    <2> QED  BY <1>1, <1>2, <2>1, <2>2, EraseKeeps
  <1> QED  BY <1>5, <1>6, <1>7

-----------------------------------------------------------------------------
(* The reads.                                                              *)

LEMMA ListKeeps ==
    ASSUME CliInv, NEW p \in Commands, ListBySource(p)
    PROVE  CliInv'
  <1> DEFINE c == command[p]
             found == RowsOf("pinecone", Hit(c.scope))
             rest == <<"remove">> \o Tail(c.phases)
             d == [c EXCEPT !.found = found, !.phases = rest]
  <1>1. /\ CommandInv(c, rows["pinecone"]) /\ CommandOK(c) /\ c.kind \in CommandKinds
        /\ c.phases \in PhasesLeft(c.kind, c.chunks # <<>>)
        /\ c.backend = "pinecone" /\ "pinecone" \in Indexes
        /\ c.phases # <<>> /\ Head(c.phases) = "delete" /\ c.step = "running"
    BY CommandTyped DEF CliInv, CommandInv, CommandOK, ListBySource, InPhase
  <1>2. \/ c.phases = <<"delete">> /\ c.kind = "delete" /\ c.chunks = <<>>
        \/ c.phases = <<"delete", "upsert">> /\ c.kind = "agents" /\ c.chunks # <<>>
    BY <1>1, HeadDecides DEF CommandOK
  <1>3. /\ rest \in {<<"remove">>, <<"remove", "upsert">>}
        /\ rest \in PhasesLeft(c.kind, c.chunks # <<>>) /\ c.kind \in {"delete", "agents"}
    BY <1>2, ListingPutsRemove DEF PhasesLeft
  <1>4. rest \in AnyPhases
    BY <1>1, <1>3, PhasesTyped
  <1>5. found \subseteq Row /\ PartFrom(rows["pinecone"], c.scope) \subseteq found
    <2>1. rows["pinecone"] \subseteq Row
      BY <1>1 DEF CliInv, GoodRows
    <2> QED  BY <2>1 DEF RowsOf, PartFrom, Hit
  <1>6. command' = [command EXCEPT ![p] = d] /\ document' = document /\ rows' = rows
    <2>1. /\ command' = [command EXCEPT ![p].found = found, ![p].phases = rest]
          /\ document' = document /\ rows' = rows
      BY DEF ListBySource
    <2>2. command \in [Commands -> CommandRecord]
      BY DEF CliInv
    <2> HIDE DEF found, rest
    <2>3. [command EXCEPT ![p].found = found, ![p].phases = rest] = [command EXCEPT ![p] = d]
      BY <2>2 DEF CommandRecord
    <2> QED  BY <2>1, <2>3
  <1> HIDE DEF found, rest
  <1>7. /\ d \in CommandRecord /\ d.found = found /\ d.phases = rest
        /\ d.kind = c.kind /\ d.backend = c.backend /\ d.scope = c.scope /\ d.step = c.step
        /\ d.chunks = c.chunks /\ d.at = c.at /\ d.failed = c.failed /\ d.disturbed = c.disturbed
    <2> DEFINE half == [c EXCEPT !.found = found]
    <2>1. c \in CommandRecord
      BY <1>1 DEF CommandOK
    <2>2. /\ half \in CommandRecord /\ half.found = found
          /\ half.kind = c.kind /\ half.backend = c.backend /\ half.scope = c.scope
          /\ half.step = c.step
          /\ half.chunks = c.chunks /\ half.at = c.at /\ half.failed = c.failed
          /\ half.disturbed = c.disturbed
      BY <1>5, <2>1 DEF CommandRecord
    <2>3. d = [half EXCEPT !.phases = rest]
      BY <2>1 DEF CommandRecord
    <2> HIDE DEF half, d
    <2> QED  BY <1>4, <2>2, <2>3 DEF CommandRecord
  <1> HIDE DEF d
  <1>8. CommandOK(d)
    BY <1>1, <1>3, <1>7 DEF CommandOK, OwnChunks
  <1>9. Progress(d, PartFrom(rows["pinecone"], d.scope))
    BY <1>3, <1>5, <1>7, PhasesDiffer DEF Progress
  <1>10. CommandInv(d, rows[d.backend])
    BY <1>1, <1>7, <1>8, <1>9 DEF CommandInv
  <1> HIDE DEF c
  <1> QED  BY <1>6, <1>10, AloneKeeps

LEMMA SetToSeqTyped ==
    ASSUME NEW S, IsFiniteSet(S), NEW T, S \subseteq T
    PROVE  /\ SetToSeq(S) \in Seq(T)
           /\ \A i \in 1 .. Len(SetToSeq(S)) : SetToSeq(S)[i] \in S
  <1> DEFINE n == Cardinality(S)
             q == SetToSeq(S)
  <1>1. n \in Nat /\ Bijection(1 .. n, S) # {}
    BY FS_CardinalityType DEF ExistsBijection
  <1>2. PICK f : f \in Bijection(1 .. n, S)
    BY <1>1
  <1>3. f \in [1 .. n -> S] /\ \A k, l \in DOMAIN f : f[k] = f[l] => k = l
    BY <1>2 DEF Bijection, Injection, IsInjective
  <1>4. \E g \in [1 .. n -> S] : IsInjective(g)
    BY <1>3 DEF IsInjective
  <1>5. q \in [1 .. n -> S]
    BY <1>4 DEF SetToSeq
  <1> HIDE DEF n, q
  <1>6. q \in [1 .. n -> T]
    BY <1>5
  <1>7. q \in Seq(T) /\ q \in Seq(S)
    BY <1>1, <1>5, <1>6, SeqDef
  <1>8. \A i \in 1 .. Len(q) : q[i] \in S
    BY <1>7, ElementOfSeq
  <1> QED  BY <1>7, <1>8 DEF q

LEMMA SearchKeeps ==
    ASSUME CliInv, NEW p \in Commands, SearchKeyword(p)
    PROVE  CliInv'
  <1> DEFINE c == command[p]
             b == c.backend
             half == NextPhase(c)
  <1>1. /\ CommandOK(c) /\ c.kind \in CommandKinds /\ b \in Indexes
        /\ rows[b] \subseteq Row /\ c \in CommandRecord
        /\ c.phases \in PhasesLeft(c.kind, c.chunks # <<>>)
        /\ c.phases # <<>> /\ Head(c.phases) = "search" /\ c.step = "running"
    BY CommandTyped DEF CliInv, CommandInv, CommandOK, GoodRows, SearchKeyword, InPhase
  <1>2. PICK found \in SUBSET rows[b] :
           /\ command' = [command EXCEPT ![p] =
                 [NextPhase(@) EXCEPT !.found = found, !.scope = {r.source : r \in found}]]
           /\ document' = document /\ rows' = rows
    BY DEF SearchKeyword, kSubset
  <1> DEFINE scope == {r.source : r \in found}
             d == [half EXCEPT !.found = found, !.scope = scope]
  <1>3. c.phases = <<"search", "remove">> /\ c.kind = "keyword" /\ c.chunks = <<>>
    BY <1>1, HeadDecides
  <1>4. <<"remove">> \in PhasesLeft("keyword", FALSE) /\ <<"remove">> \in AnyPhases
    <2>1. <<"remove">> \in PhasesLeft("keyword", FALSE)
      BY DEF PhasesLeft
    <2>2. "keyword" \in CommandKinds
      BY DEF CommandKinds
    <2> QED  BY <2>1, <2>2, PhasesTyped
  <1>5. scope \subseteq Sources /\ found \subseteq Row
    BY <1>1 DEF Row
  <1>6. command' = [command EXCEPT ![p] = d]
    BY <1>2
  <1>7. /\ d \in CommandRecord /\ d.found = found /\ d.scope = scope /\ d.phases = <<"remove">>
        /\ d.kind = "keyword" /\ d.backend = b /\ d.chunks = <<>> /\ d.at = 1
        /\ d.step = "running"
    <2> DEFINE tail == [c EXCEPT !.phases = <<"remove">>]
               step == [tail EXCEPT !.at = 1]
               more == [step EXCEPT !.found = found]
    <2>1. /\ tail \in CommandRecord /\ tail.phases = <<"remove">> /\ tail.kind = "keyword"
          /\ tail.backend = b /\ tail.chunks = <<>> /\ tail.step = "running"
      BY <1>1, <1>3, <1>4 DEF CommandRecord
    <2>2. half = step
      BY <1>1, <1>3, TailsOfPhases DEF NextPhase, CommandRecord
    <2> HIDE DEF tail
    <2>3. 1 \in Nat \ {0}
      OBVIOUS
    <2>4. /\ step \in CommandRecord /\ step.phases = <<"remove">> /\ step.kind = "keyword"
          /\ step.backend = b /\ step.chunks = <<>> /\ step.step = "running" /\ step.at = 1
      BY <2>1, <2>3 DEF CommandRecord
    <2> HIDE DEF step
    <2>5. /\ more \in CommandRecord /\ more.phases = <<"remove">> /\ more.kind = "keyword"
          /\ more.backend = b /\ more.chunks = <<>> /\ more.step = "running" /\ more.at = 1 /\ more.found = found
      BY <2>4, <1>5 DEF CommandRecord
    <2>6. d = [more EXCEPT !.scope = scope]
      BY <2>2, <2>4 DEF CommandRecord
    <2> HIDE DEF more, d, half
    <2> QED  BY <1>5, <2>5, <2>6 DEF CommandRecord
  <1>8. \A s \in found : s.source \in scope
    OBVIOUS
  <1> HIDE DEF d, half, scope
  <1>9. Len(d.chunks) = 0
    BY <1>7, EmptySeq
  <1>10. \A i \in 1 .. Len(d.chunks) : FALSE
    BY <1>9
  <1>11. OwnChunks(d)
    BY <1>10 DEF OwnChunks
  <1>12. d.phases \in PhasesLeft(d.kind, d.chunks # <<>>)
    <2>1. (d.chunks # <<>>) = FALSE
      BY <1>7
    <2> QED  BY <1>4, <1>7, <2>1
  <1>13. CommandOK(d)
    BY <1>7, <1>8, <1>11, <1>12 DEF CommandOK
  <1>14. Progress(d, PartFrom(rows[b], d.scope))
    <2>1. d.phases \notin {<<>>, <<"unstage">>, <<"upsert">>, <<"upsert", "unstage">>}
      BY <1>7, PhasesDiffer
    <2> QED  BY <1>7, <2>1, <1>10 DEF Progress
  <1>15. CommandInv(d, rows[d.backend])
    BY <1>7, <1>13, <1>14 DEF CommandInv
  <1> HIDE DEF c, b
  <1> QED  BY <1>2, <1>6, <1>15, AloneKeeps

LEMMA UnstageKeeps ==
    ASSUME CliInv, NEW p \in Commands, DeleteStaging(p)
    PROVE  CliInv'
  <1> DEFINE c == command[p]
             d == NextPhase(c)
  <1>1. /\ CommandInv(c, rows[c.backend]) /\ CommandOK(c) /\ c.kind \in CommandKinds
        /\ c.phases \in PhasesLeft(c.kind, c.chunks # <<>>)
        /\ c.phases # <<>> /\ Head(c.phases) = "unstage" /\ c.step = "running"
    BY CommandTyped DEF CliInv, CommandInv, CommandOK, DeleteStaging, InPhase
  <1>2. c.phases = <<"unstage">> /\ c.kind = "ingest"
    BY <1>1, HeadDecides
  <1>3. /\ CommandOK(d) /\ d.phases = <<>> /\ d.kind = c.kind /\ d.backend = c.backend
        /\ d.scope = c.scope /\ d.chunks = c.chunks /\ d.found = c.found
        /\ d.failed = c.failed /\ d.disturbed = c.disturbed
    BY <1>1, <1>2, AfterPhase, TailsOfPhases
  <1>4. command' = [command EXCEPT ![p] = d] /\ document' = document /\ rows' = rows
    BY DEF DeleteStaging
  <1> HIDE DEF c, d
  <1>5. \A own : Progress(c, own) => Progress(d, own)
    BY <1>2, <1>3, PhasesDiffer DEF Progress
  <1>6. CommandInv(d, rows[d.backend])
    BY <1>1, <1>3, <1>5 DEF CommandInv
  <1> QED  BY <1>4, <1>6, AloneKeeps

LEMMA EndKeeps ==
    ASSUME CliInv, NEW p \in Commands, End(p) \/ FailCommand(p) \/ CopyBatchFails(p)
    PROVE  CliInv'
  <1> DEFINE c == command[p]
             d == [c EXCEPT !.step = "ended"]
  <1>1. /\ CommandInv(c, rows[c.backend]) /\ CommandOK(c) /\ command \in [Commands -> CommandRecord]
    BY DEF CliInv, CommandInv
  <1>3. CASE End(p)
    <2>1. command' = [command EXCEPT ![p] = d] /\ document' = document /\ rows' = rows
      BY <1>1, <1>3 DEF End
    <2> HIDE DEF c, d
    <2>2. c.phases = <<>>
      BY <1>3 DEF End, c
    <2>3. /\ CommandOK(d) /\ \A own : Progress(d, own) <=> Progress(c, own)
          /\ d.failed = c.failed /\ d.disturbed = c.disturbed
          /\ d.backend = c.backend /\ d.scope = c.scope
      BY <1>1, <2>2, EndedFields DEF d
    <2>4. CommandInv(d, rows[d.backend])
      BY <1>1, <2>3 DEF CommandInv
    <2> QED  BY <2>1, <2>4, AloneKeeps
  <1>4. CASE FailCommand(p)
    <2> DEFINE g == [c EXCEPT !.failed = TRUE]
               e == [g EXCEPT !.step = "ended"]
    <2>1. /\ command' = [command EXCEPT ![p].step = "ended", ![p].failed = TRUE]
          /\ document' = document /\ rows' = rows
      BY <1>4 DEF FailCommand
    <2>2. command' = [command EXCEPT ![p] = e]
      BY <1>1, <2>1 DEF CommandRecord
    <2> HIDE DEF c
    <2>3. CommandOK(g) /\ g.failed = TRUE
      BY <1>1, FailedFields
    <2> HIDE DEF g
    <2>5. CommandOK(e) /\ e.failed = TRUE
      BY <2>3, EndedFields
    <2> HIDE DEF e
    <2>4. CommandInv(e, rows[e.backend])
      BY <2>5 DEF CommandInv
    <2> QED  BY <2>1, <2>2, <2>4, AloneKeeps
  <1>5. CASE CopyBatchFails(p)
    <2> DEFINE a == AfterBatchOf(c)
               e == [a EXCEPT !.failed = TRUE]
    <2>1. command' = [command EXCEPT ![p] = e] /\ document' = document /\ rows' = rows
      BY <1>5 DEF CopyBatchFails
    <2>2. /\ c.phases # <<>> /\ Head(c.phases) = "upsert" /\ c.chunks # <<>>
          /\ c.step = "running"
      <3>1. c.phases # <<>> /\ Head(c.phases) = "upsert" /\ c.step = "running"
        BY <1>5 DEF CopyBatchFails, InPhase
      <3> QED  BY <1>1, <3>1, CommandTyped, HeadDecides DEF CommandOK
    <2>3. CommandOK(a)
      <3>1. c.at \in Nat \ {0} /\ Len(c.chunks) \in Nat
        BY <1>1, CommandTyped
      <3>2. LastOf(c) \in Nat /\ LastOf(c) =< Len(c.chunks)
        BY <1>1, <2>2, BatchRows
      <3>3. CASE LastOf(c) = Len(c.chunks)
        BY <1>1, <2>2, <3>3, AfterPhase DEF AfterBatchOf
      <3>4. CASE LastOf(c) # Len(c.chunks)
        <4>1. LastOf(c) + 1 \in Nat \ {0} /\ LastOf(c) + 1 =< Len(c.chunks)
          BY <3>1, <3>2, <3>4
        <4> QED  BY <1>1, <3>4, <4>1, MoreFields DEF AfterBatchOf
      <3> QED  BY <3>3, <3>4
    <2> HIDE DEF a
    <2>4. CommandOK(e) /\ e.failed = TRUE
      BY <2>3, FailedFields
    <2> HIDE DEF e
    <2>5. CommandInv(e, rows[e.backend])
      BY <2>4 DEF CommandInv
    <2> QED  BY <2>1, <2>5, AloneKeeps
  <1> QED  BY <1>3, <1>4, <1>5

LEMMA FetchKeeps ==
    ASSUME CliInv, NEW p \in Commands, Fetch(p)
    PROVE  CliInv'
  <1> DEFINE c == command[p]
             b == c.backend
             half == NextPhase(c)
             read == RowsOf("pinecone", c.scope)
             chunks == SetToSeq(read)
             rest == IF chunks = <<>> THEN <<>> ELSE <<"upsert">>
             d == [half EXCEPT !.chunks = chunks, !.phases = rest]
  <1>1. /\ CommandOK(c) /\ c.kind \in CommandKinds /\ b \in Indexes
        /\ c \in CommandRecord /\ command \in [Commands -> CommandRecord]
        /\ c.phases \in PhasesLeft(c.kind, c.chunks # <<>>)
        /\ c.phases # <<>> /\ Head(c.phases) = "fetch" /\ c.step = "running"
    BY CommandTyped DEF CliInv, CommandInv, CommandOK, Fetch, InPhase
  <1>2. GoodRows("pinecone", rows["pinecone"])
    BY DEF CliInv, Indexes
  <1>3. c.phases = <<"fetch", "upsert">> /\ c.kind = "copy" /\ c.chunks = <<>>
    BY <1>1, HeadDecides
  <1>4. /\ read \subseteq Row /\ IsFiniteSet(read)
        /\ \A r \in read : r.source \in c.scope /\ ~r.staged
        /\ \A r, s \in read : SameId(r, s) => r = s
    <2>1. read \subseteq rows["pinecone"] /\ \A r \in read : r.source \in c.scope
      BY DEF RowsOf
    <2> QED  BY <1>2, <2>1, FS_Subset DEF GoodRows
  <1> HIDE DEF read
  <1>5. chunks \in Seq(Row) /\ \A i \in 1 .. Len(chunks) : chunks[i] \in read
    BY <1>4, SetToSeqTyped
  <1>6. command' = [command EXCEPT ![p] = d] /\ document' = document /\ rows' = rows
    BY <1>1 DEF Fetch, read
  <1> HIDE DEF chunks
  <1>7. rest \in PhasesLeft("copy", chunks # <<>>) /\ rest \in {<<>>, <<"upsert">>}
    BY DEF PhasesLeft
  <1>8. rest \in AnyPhases
    BY <1>1, <1>3, <1>7, PhasesTyped
  <1>9. rest = <<>> => chunks = <<>>
    BY PhasesDiffer
  <1> HIDE DEF rest
  <1>10. /\ d \in CommandRecord /\ d.chunks = chunks /\ d.scope = c.scope /\ d.phases = rest
         /\ d.kind = "copy" /\ d.backend = b /\ d.at = 1 /\ d.step = "running"
    <2> DEFINE more == [c EXCEPT !.chunks = chunks]
               step == [more EXCEPT !.at = 1]
    <2>1. /\ more \in CommandRecord /\ more.chunks = chunks /\ more.kind = "copy"
          /\ more.step = "running" /\ more.backend = b /\ more.scope = c.scope
      BY <1>1, <1>3, <1>5 DEF CommandRecord
    <2>2. d = [step EXCEPT !.phases = rest]
      BY <1>1 DEF NextPhase, CommandRecord
    <2> HIDE DEF more, half, d
    <2>3. 1 \in Nat \ {0}
      OBVIOUS
    <2>4. /\ step \in CommandRecord /\ step.chunks = chunks /\ step.kind = "copy"
          /\ step.step = "running" /\ step.backend = b /\ step.scope = c.scope /\ step.at = 1
      BY <2>1, <2>3 DEF CommandRecord
    <2> HIDE DEF step
    <2> QED  BY <1>8, <2>2, <2>4 DEF CommandRecord
  <1> HIDE DEF d, half
  <1>11. OwnChunks(d)
    BY <1>4, <1>5, <1>10 DEF OwnChunks
  <1>12. CommandOK(d)
    BY <1>7, <1>10, <1>11 DEF CommandOK
  <1>13. Progress(d, PartFrom(rows[b], d.scope))
    <2>1. ASSUME NEW i \in 1 .. Len(d.chunks)
          PROVE  d.phases \notin {<<>>, <<"unstage">>} /\ ~ (i < d.at)
      <3>1. Len(d.chunks) \in Nat /\ (d.chunks = <<>> => Len(d.chunks) = 0)
        BY <1>12, CommandTyped
      <3>2. d.chunks # <<>>
        BY <2>1, <3>1
      <3>3. d.phases = <<"upsert">>
        BY <1>7, <1>9, <1>10, <3>2
      <3> QED  BY <1>10, <3>1, <3>3, PhasesDiffer
    <2> QED  BY <1>10, <2>1 DEF Progress
  <1>14. CommandInv(d, rows[d.backend])
    BY <1>10, <1>12, <1>13 DEF CommandInv
  <1> HIDE DEF c, b
  <1> QED  BY <1>6, <1>14, AloneKeeps

-----------------------------------------------------------------------------
(* Commands begin.                                                         *)

\* The phases a command of a kind begins with.
FirstPhases(kind, some) ==
    CASE kind = "migrate" -> IF some THEN <<"upsert">> ELSE <<>>
      [] kind = "agents"  -> IF some THEN <<"delete", "upsert">> ELSE <<>>
      [] kind = "ingest"  -> IF some THEN <<"stage", "delete", "upsert", "unstage">>
                             ELSE <<"delete">>
      [] kind = "delete"  -> <<"delete">>
      [] kind = "keyword" -> <<"search", "remove">>
      [] kind = "all"     -> <<"clear">>
      [] kind = "copy"    -> <<"fetch", "upsert">>

LEMMA FirstPhasesLeft ==
    ASSUME NEW kind \in CommandKinds, kind # "none", NEW some \in BOOLEAN,
           kind \in {"delete", "keyword", "all", "copy"} => ~some
    PROVE  /\ FirstPhases(kind, some) \in PhasesLeft(kind, some)
           /\ FirstPhases(kind, some) \notin {<<"unstage">>, <<"upsert", "unstage">>,
                                              <<"remove">>, <<"remove", "upsert">>}
           /\ FirstPhases(kind, some) = <<>> => ~some /\ kind \in {"migrate", "agents"}
           /\ FirstPhases(kind, some) = <<"upsert">> => some /\ kind = "migrate"
           /\ kind = "keyword" => FirstPhases(kind, some) = <<"search", "remove">>
  <1> USE HeadsOfPhases, PhasesDiffer
  <1>1. CASE kind = "migrate"
    BY <1>1 DEF PhasesLeft, FirstPhases
  <1>2. CASE kind = "agents"
    BY <1>2 DEF PhasesLeft, FirstPhases
  <1>3. CASE kind = "ingest"
    BY <1>3 DEF PhasesLeft, FirstPhases
  <1>4. CASE kind = "delete"
    BY <1>4 DEF PhasesLeft, FirstPhases
  <1>5. CASE kind = "keyword"
    BY <1>5 DEF PhasesLeft, FirstPhases
  <1>6. CASE kind = "all"
    BY <1>6 DEF PhasesLeft, FirstPhases
  <1>7. CASE kind = "copy"
    BY <1>7 DEF PhasesLeft, FirstPhases
  <1> QED  BY <1>1, <1>2, <1>3, <1>4, <1>5, <1>6, <1>7 DEF CommandKinds

LEMMA RunKeeps ==
    ASSUME CliInv, NEW p \in Commands, NEW kind \in CommandKinds, kind # "none",
           NEW b \in Indexes, NEW scope \in SUBSET Sources, NEW phases, NEW chunks \in Seq(Row),
           phases = FirstPhases(kind, chunks # <<>>),
           kind \in {"delete", "keyword", "all", "copy"} => chunks = <<>>,
           kind = "ingest" => b = "pgvector", kind = "all" => scope = Sources,
           \A i \in 1 .. Len(chunks) : chunks[i].source \in scope /\ ~chunks[i].staged,
           \A i, j \in 1 .. Len(chunks) : SameId(chunks[i], chunks[j]) => chunks[i] = chunks[j],
           Run(p, kind, b, scope, phases, chunks)
    PROVE  CliInv'
  <1> DEFINE d == [NotRun EXCEPT !.kind = kind, !.backend = b, !.scope = scope,
                                 !.step = "running", !.phases = phases, !.chunks = chunks]
  <1>1. command' = [command EXCEPT ![p] = d] /\ document' = document /\ rows' = rows
    BY DEF Run
  <1>2. /\ phases \in PhasesLeft(kind, chunks # <<>>)
        /\ phases \notin {<<"unstage">>, <<"upsert", "unstage">>,
                          <<"remove">>, <<"remove", "upsert">>}
        /\ phases = <<>> => chunks = <<>> /\ kind \in {"migrate", "agents"}
        /\ phases = <<"upsert">> => kind = "migrate"
        /\ kind = "keyword" => phases = <<"search", "remove">>
    BY FirstPhasesLeft
  <1>3. phases \in AnyPhases
    BY <1>2, PhasesTyped
  <1> DEFINE none == NotRun
             half == [none EXCEPT !.kind = kind, !.backend = b, !.scope = scope]
  <1>4. /\ none \in CommandRecord /\ none.at = 1
    BY InitialCommand DEF CommandOK, NotRun
  <1>5. d = [half EXCEPT !.step = "running", !.phases = phases, !.chunks = chunks]
    BY <1>4 DEF CommandRecord
  <1> HIDE DEF d, none
  <1>6. /\ half \in CommandRecord /\ half.kind = kind /\ half.backend = b
        /\ half.scope = scope /\ half.at = 1
    BY <1>4 DEF CommandRecord
  <1> HIDE DEF half
  <1>10. /\ d \in CommandRecord
         /\ d.kind = kind /\ d.backend = b /\ d.scope = scope
         /\ d.phases = phases /\ d.chunks = chunks /\ d.at = 1 /\ d.step = "running"
    BY <1>3, <1>5, <1>6 DEF CommandRecord
  <1>7. CommandOK(d)
    BY <1>2, <1>10 DEF CommandOK, OwnChunks
  <1>8. \A own : Progress(d, own)
    <2>1. ASSUME NEW i \in 1 .. Len(chunks)
          PROVE  phases \notin {<<>>, <<"unstage">>} /\ ~ (i < 1)
      <3>1. Len(chunks) \in Nat /\ (chunks = <<>> => Len(chunks) = 0)
        BY LenProperties, EmptySeq
      <3>2. chunks # <<>>
        BY <2>1, <3>1
      <3> QED  BY <1>2, <3>1, <3>2
    <2> QED  BY <1>2, <1>10, <2>1 DEF Progress
  <1>9. CommandInv(d, rows[d.backend])
    BY <1>7, <1>8 DEF CommandInv
  <1> QED  BY <1>1, <1>9, AloneKeeps

LEMMA ChunksOfFileTyped ==
    ASSUME NEW f \in Files,
           document \in [Files -> [version : 1..MaxVersion, length : 0..MaxChunks]]
    PROVE  /\ chunksOfFile(f) \in Seq(Row)
           /\ Len(chunksOfFile(f)) = document[f].length
           /\ document[f].length \in 0 .. MaxChunks
           /\ (chunksOfFile(f) = <<>>) <=> (document[f].length = 0)
           /\ \A i \in 1 .. Len(chunksOfFile(f)) :
                 /\ chunksOfFile(f)[i].source = f /\ ~chunksOfFile(f)[i].staged
                 /\ chunksOfFile(f)[i].chunk = i
  <1> DEFINE n == document[f].length
             row(i) == [source |-> f, chunk |-> i, version |-> document[f].version,
                        staged |-> FALSE]
             q == chunksOfFile(f)
  <1>1. n \in 0 .. MaxChunks /\ document[f].version \in 1 .. MaxVersion /\ MaxChunks \in Nat
    BY CliAssumption
  <1>2. q = [i \in 1 .. n |-> row(i)]
    BY DEF chunksOfFile
  <1> HIDE DEF n, q
  <1>3. \A i \in 1 .. n : row(i) \in Row
    BY <1>1 DEF Row, Sources
  <1>4. n \in Nat /\ q \in [1 .. n -> Row]
    BY <1>1, <1>2, <1>3
  <1>5. q \in Seq(Row)
    BY <1>4, SeqDef
  <1>6. Len(q) = n
    <2>1. DOMAIN q = 1 .. n /\ DOMAIN q = 1 .. Len(q) /\ Len(q) \in Nat
      BY <1>4, <1>5, LenProperties
    <2>2. ASSUME NEW k \in Nat, NEW l \in Nat, 1 .. k = 1 .. l
          PROVE  k = l
      <3>1. k > l => k \in 1 .. l
        BY <2>2
      <3>2. l > k => l \in 1 .. k
        BY <2>2
      <3> QED  BY <3>1, <3>2
    <2> QED  BY <1>4, <2>1, <2>2
  <1>7. (q = <<>>) <=> (n = 0)
    BY <1>5, <1>6, EmptySeq
  <1>8. \A i \in 1 .. Len(q) : q[i].source = f /\ ~q[i].staged /\ q[i].chunk = i
    BY <1>2, <1>6
  <1> QED  BY <1>1, <1>5, <1>6, <1>7, <1>8 DEF n, q

LEMMA CommandsBegin ==
    ASSUME CliInv, NEW p \in Commands, runFile(p) \/ runDelete(p) \/ runPineconeToPgvector(p)
    PROVE  CliInv'
  <1>1. CASE runFile(p)
    <2>1. PICK f \in Files, b \in Indexes :
             /\ CommandOf[f] = "ingest" => b = "pgvector"
             /\ Run(p, CommandOf[f], b, {f}, Phases(CommandOf[f], document[f].length),
                    chunksOfFile(f))
      BY <1>1 DEF runFile
    <2> DEFINE chunks == chunksOfFile(f)
               kind == CommandOf[f]
               n == document[f].length
    <2>2. kind \in {"migrate", "agents", "ingest"}
      BY CliAssumption
    <2>3. /\ chunks \in Seq(Row) /\ Len(chunks) = n /\ n \in Nat
          /\ (chunks = <<>>) <=> (n = 0)
          /\ \A i \in 1 .. Len(chunks) :
                chunks[i].source = f /\ ~chunks[i].staged /\ chunks[i].chunk = i
      BY ChunksOfFileTyped DEF CliInv
    <2> HIDE DEF chunks, kind, n
    <2>4. Phases(kind, n) = FirstPhases(kind, chunks # <<>>)
      BY <2>2, <2>3 DEF Phases, FirstPhases
    <2>5. \A i, j \in 1 .. Len(chunks) : SameId(chunks[i], chunks[j]) => chunks[i] = chunks[j]
      BY <2>3 DEF SameId
    <2>6. Run(p, kind, b, {f}, Phases(kind, n), chunks)
      BY <2>1 DEF kind, chunks, n
    <2>7. kind \in CommandKinds /\ {f} \in SUBSET Sources
      BY <2>2 DEF CommandKinds, Sources
    <2>8. kind = "ingest" => b = "pgvector"
      BY <2>1 DEF kind
    <2> QED  BY <2>2, <2>3, <2>4, <2>5, <2>6, <2>7, <2>8, RunKeeps
  <1>2. ASSUME NEW kind \in {"delete", "keyword", "all", "copy"}, NEW b \in Indexes,
               NEW scope \in SUBSET Sources, kind = "all" => scope = Sources,
               Run(p, kind, b, scope, FirstPhases(kind, FALSE), <<>>)
        PROVE  CliInv'
    <2>1. kind \in CommandKinds
      BY DEF CommandKinds
    <2> DEFINE chunks == <<>>
    <2>2. chunks \in Seq(Row) /\ Len(chunks) = 0
      BY EmptySeq
    <2>3. \A i \in 1 .. Len(chunks) : FALSE
      BY <2>2
    <2>4. (chunks # <<>>) = FALSE
      OBVIOUS
    <2>5. Run(p, kind, b, scope, FirstPhases(kind, chunks # <<>>), chunks)
      BY <1>2, <2>4
    <2> QED  BY <1>2, <2>1, <2>2, <2>3, <2>5, RunKeeps
  <1>3. CASE runDelete(p)
    <2>1. PICK b \in Indexes :
             \/ \E f \in Files : Run(p, "delete", b, {f}, <<"delete">>, <<>>)
             \/ Run(p, "keyword", b, {}, <<"search", "remove">>, <<>>)
             \/ Run(p, "all", b, Sources, <<"clear">>, <<>>)
      BY <1>3 DEF runDelete
    <2>2. /\ FirstPhases("delete", FALSE) = <<"delete">>
          /\ FirstPhases("keyword", FALSE) = <<"search", "remove">>
          /\ FirstPhases("all", FALSE) = <<"clear">>
      BY DEF FirstPhases
    <2>3. CASE \E f \in Files : Run(p, "delete", b, {f}, <<"delete">>, <<>>)
      <3>1. PICK f \in Files : Run(p, "delete", b, {f}, <<"delete">>, <<>>)
        BY <2>3
      <3>2. {f} \in SUBSET Sources
        BY DEF Sources
      <3> QED  BY <1>2, <2>2, <3>1, <3>2
    <2>4. CASE Run(p, "keyword", b, {}, <<"search", "remove">>, <<>>)
      <3>1. {} \in SUBSET Sources
        OBVIOUS
      <3> QED  BY <1>2, <2>2, <2>4, <3>1
    <2>5. CASE Run(p, "all", b, Sources, <<"clear">>, <<>>)
      <3>1. Sources \in SUBSET Sources
        OBVIOUS
      <3> QED  BY <1>2, <2>2, <2>5, <3>1
    <2> QED  BY <2>1, <2>3, <2>4, <2>5
  <1>4. CASE runPineconeToPgvector(p)
    <2>1. PICK scope \in {Turns, Sources} :
             Run(p, "copy", "pgvector", scope, <<"fetch", "upsert">>, <<>>)
      BY <1>4 DEF runPineconeToPgvector
    <2>2. scope \in SUBSET Sources /\ "pgvector" \in Indexes
      BY DEF Sources, Indexes
    <2> QED  BY <1>2, <2>1, <2>2 DEF FirstPhases
  <1> QED  BY <1>1, <1>3, <1>4

-----------------------------------------------------------------------------
(* The context engine stores a turn, a file is edited.                     *)

LEMMA EngineIngestKeeps ==
    ASSUME CliInv, NEW b \in Indexes, EngineIngest(b)
    PROVE  CliInv'
  <1>1. PICK t \in Turns :
           LET row == [source |-> t, chunk |-> 1, version |-> 1, staged |-> FALSE]
           IN /\ row \notin rows[b]
              /\ rows' = [rows EXCEPT ![b] = Upserted(@, {row})]
              /\ command' = [q \in Commands |->
                    IF command[q].backend = b /\ t \in command[q].scope
                    THEN [command[q] EXCEPT !.disturbed = TRUE]
                    ELSE command[q]]
    BY DEF EngineIngest
  <1> DEFINE row == [source |-> t, chunk |-> 1, version |-> 1, staged |-> FALSE]
             set == Upserted(rows[b], {row})
  <1>2. GoodRows(b, {row})
    <2>1. 1 \in 1 .. MaxChunks /\ 1 \in 1 .. MaxVersion
      BY CliAssumption
    <2>2. row \in Row
      BY <2>1 DEF Row, Sources
    <2> HIDE DEF row
    <2>3. ~row.staged
      BY DEF row
    <2> QED  BY <2>2, <2>3, FS_Singleton DEF GoodRows
  <1>3. {r.source : r \in {row}} = {t}
    OBVIOUS
  <1>4. rows' = [rows EXCEPT ![b] = set] /\ document' = document
    BY <1>1 DEF EngineIngest
  <1>5. GoodRows(b, rows[b])
    BY DEF CliInv
  <1>6. WrittenTo(b, set, {t})
    BY <1>2, <1>3, <1>4, <1>5, UpsertRows DEF WrittenTo
  <1>7. \A q \in Commands :
           command'[q] = IF command[q].backend = b /\ command[q].scope \cap {t} # {}
                         THEN [command[q] EXCEPT !.disturbed = TRUE]
                         ELSE command[q]
    BY <1>1
  <1> HIDE DEF row, set
  <1>8. \A q \in Commands : CommandInv(command'[q], rows'[command'[q].backend])
    BY <1>6, <1>7, OtherKeeps
  <1>9. command' \in [Commands -> CommandRecord]
    <2>1. \A q \in Commands : command'[q] \in CommandRecord
      BY <1>8 DEF CommandInv, CommandOK
    <2>2. command' = [q \in Commands |-> command'[q]]
      BY <1>1
    <2> QED  BY <2>1, <2>2
  <1> QED  BY <1>4, <1>6, <1>8, <1>9, RowsKept DEF CliInv

LEMMA EditKeeps ==
    ASSUME CliInv, NEW f \in Files, Edit(f)
    PROVE  CliInv'
  <1>1. PICK length \in 0..MaxChunks :
           document' = [document EXCEPT ![f] = [version |-> @.version + 1, length |-> length]]
    BY DEF Edit
  <1>2. document \in [Files -> [version : 1..MaxVersion, length : 0..MaxChunks]]
    BY DEF CliInv
  <1> DEFINE version == document[f].version
  <1>3. version \in 1 .. MaxVersion /\ version < MaxVersion /\ MaxVersion \in Nat
    BY <1>2, CliAssumption DEF Edit
  <1> HIDE DEF version
  <1>4. version + 1 \in 1 .. MaxVersion
    BY <1>3
  <1>5. document' \in [Files -> [version : 1..MaxVersion, length : 0..MaxChunks]]
    BY <1>1, <1>2, <1>4 DEF version
  <1>6. rows' = rows /\ command' = command
    BY DEF Edit
  <1> QED  BY <1>5, <1>6 DEF CliInv

LEMMA CliStep == CliInv /\ [CliNext]_cliVars => CliInv'
  <1> SUFFICES ASSUME CliInv, [CliNext]_cliVars
               PROVE  CliInv'
    OBVIOUS
  <1>1. CASE UNCHANGED cliVars
    BY <1>1 DEF cliVars, CliInv
  <1>2. CASE \E f \in Files : Edit(f)
    BY <1>2, EditKeeps
  <1>3. CASE \E b \in Indexes : EngineIngest(b)
    BY <1>3, EngineIngestKeeps
  <1>4. ASSUME NEW p \in Commands,
               \/ runFile(p) \/ runDelete(p) \/ runPineconeToPgvector(p)
               \/ Upsert(p) \/ CopyBatchFails(p) \/ deleteBySourcePg(p) \/ ListBySource(p)
               \/ SearchKeyword(p) \/ deleteMany(p) \/ DeleteStaging(p) \/ deleteNamespace(p)
               \/ Fetch(p) \/ End(p) \/ FailCommand(p)
        PROVE  CliInv'
    BY <1>4, CommandsBegin, UpsertKeeps, DeleteKeeps, ListKeeps, SearchKeeps, UnstageKeeps,
       FetchKeeps, EndKeeps
  <1> QED  BY <1>1, <1>2, <1>3, <1>4 DEF CliNext

-----------------------------------------------------------------------------
(* Commands over the same file, side by side.                              *)

\* A command has put a chunk into the index, under the final name of its source.
HasWritten(c, b, f, k) ==
    /\ c.backend = b /\ ~c.failed
    /\ \E i \in 1 .. Len(c.chunks) :
          /\ c.chunks[i].source = f /\ c.chunks[i].chunk = k
          /\ \/ c.phases \in {<<>>, <<"unstage">>}
             \/ c.phases \in {<<"upsert">>, <<"upsert", "unstage">>} /\ i < c.at

\* A command that deletes from the file has yet to write the chunk, or will not.
Owing(c, b, f, k) == Deletes(c, b, f) /\ ~HasWritten(c, b, f, k)

\* Files are all that agents, ingest-document and memory-delete by source delete;
\* what is about to be deleted is of the sources a command deletes.
Aimed(c) ==
    /\ c.step = "new" => c.kind = "none" /\ c.chunks = <<>>
    /\ c.kind \in {"agents", "ingest", "delete"} => c.scope \subseteq Files
    /\ c.phases = <<"search", "remove">> => c.scope = {}
    /\ c.phases \in {<<"remove">>, <<"remove", "upsert">>} =>
          \A s \in c.found : s.source \in Files => s.source \in Hit(c.scope \cap Files)

\* A chunk that some command has written is there, unless one that deletes from
\* its file has yet to write it.
ChunkKept(b, f, k) ==
    (\E p \in Commands : HasWritten(command[p], b, f, k))
       => \/ Stored(b, f, k)
          \/ \E p \in Commands : Owing(command[p], b, f, k)

TogetherInv ==
    /\ \A p \in Commands : Aimed(command[p])
    /\ \A b \in Indexes, f \in Files, k \in 1 .. MaxChunks : ChunkKept(b, f, k)

\* Two states of a command that differ in whether it was disturbed at most.
Like(d, c) ==
    /\ d.kind = c.kind /\ d.backend = c.backend /\ d.scope = c.scope /\ d.step = c.step
    /\ d.phases = c.phases /\ d.chunks = c.chunks /\ d.at = c.at /\ d.found = c.found
    /\ d.failed = c.failed

LEMMA LikeKeeps ==
    ASSUME NEW c, NEW d, Like(d, c)
    PROVE  /\ Aimed(c) => Aimed(d)
           /\ \A b, f, k : HasWritten(d, b, f, k) <=> HasWritten(c, b, f, k)
           /\ \A b, f : Deletes(d, b, f) <=> Deletes(c, b, f)
  BY DEF Like, Aimed, HasWritten, Deletes

LEMMA DisturbedIsLike ==
    ASSUME NEW c \in CommandRecord
    PROVE  Like([c EXCEPT !.disturbed = TRUE], c)
  BY DEF Like, CommandRecord

\* The file, the index and the number of a chunk whose row stays.
Stays(b, f, k) ==
    \A r \in rows[b] : r.source = f /\ r.chunk = k => r \in rows'[b]

\* The row of a command stays that of a command.
LEMMA StoredStays ==
    ASSUME CliInv, NEW b \in Indexes, NEW f \in Files, NEW k \in 1 .. MaxChunks,
           Stays(b, f, k), Stored(b, f, k),
           \A q \in Commands :
              \/ command[q].chunks = <<>>
              \/ /\ command'[q].chunks = command[q].chunks
                 /\ command'[q].backend = command[q].backend
    PROVE  Stored(b, f, k)'
  <1>0. PICK q \in Commands : \E i \in DOMAIN command[q].chunks :
           LET piece == command[q].chunks[i]
           IN /\ command[q].backend = b /\ piece.source = f /\ piece.chunk = k
              /\ [piece EXCEPT !.staged = FALSE] \in rows[b]
    BY DEF Stored
  <1>1. PICK i \in DOMAIN command[q].chunks :
           LET piece == command[q].chunks[i]
           IN /\ command[q].backend = b /\ piece.source = f /\ piece.chunk = k
              /\ [piece EXCEPT !.staged = FALSE] \in rows[b]
    BY <1>0
  <1> DEFINE piece == command[q].chunks[i]
             row == [piece EXCEPT !.staged = FALSE]
  <1>2. CommandOK(command[q])
    BY DEF CliInv, CommandInv
  <1>3. command[q].chunks # <<>> /\ piece \in Row
    <2>1. /\ DOMAIN command[q].chunks = 1 .. Len(command[q].chunks)
          /\ \A j \in 1 .. Len(command[q].chunks) : command[q].chunks[j] \in Row
          /\ command[q].chunks = <<>> => Len(command[q].chunks) = 0
      BY <1>2, CommandTyped
    <2> QED  BY <2>1
  <1>4. row.source = f /\ row.chunk = k
    BY <1>1, <1>3 DEF Row
  <1>5. row \in rows'[b]
    BY <1>1, <1>4 DEF Stays
  <1>6. command'[q].chunks = command[q].chunks /\ command'[q].backend = command[q].backend
    BY <1>3
  <1> QED  BY <1>1, <1>5, <1>6 DEF Stored

\* A step of one command, which leaves a chunk as it is, stores it, or owes it.
LEMMA TogetherOne ==
    ASSUME CliInv, TogetherInv, NEW p \in Commands,
           \A q \in Commands \ {p} : Like(command'[q], command[q]),
           Aimed(command'[p]),
           \/ command[p].chunks = <<>>
           \/ /\ command'[p].chunks = command[p].chunks
              /\ command'[p].backend = command[p].backend,
           \A b \in Indexes, f \in Files, k \in 1 .. MaxChunks :
              \/ Stored(b, f, k)'
              \/ Owing(command'[p], b, f, k)
              \/ /\ HasWritten(command'[p], b, f, k) => HasWritten(command[p], b, f, k)
                 /\ Deletes(command[p], b, f) => Deletes(command'[p], b, f)
                 /\ Stays(b, f, k)
    PROVE  TogetherInv'
  <1>1. \A q \in Commands : Aimed(command'[q])
    BY LikeKeeps DEF TogetherInv
  <1>2. \A q \in Commands :
           \/ command[q].chunks = <<>>
           \/ /\ command'[q].chunks = command[q].chunks
              /\ command'[q].backend = command[q].backend
    BY DEF Like
  <1>3. ASSUME NEW b \in Indexes, NEW f \in Files, NEW k \in 1 .. MaxChunks,
               NEW w \in Commands, HasWritten(command'[w], b, f, k)
        PROVE  Stored(b, f, k)' \/ \E q \in Commands : Owing(command'[q], b, f, k)
    <2>1. CASE Stored(b, f, k)' \/ Owing(command'[p], b, f, k)
      BY <2>1
    <2>2. CASE /\ HasWritten(command'[p], b, f, k) => HasWritten(command[p], b, f, k)
               /\ Deletes(command[p], b, f) => Deletes(command'[p], b, f)
               /\ Stays(b, f, k)
      <3>1. \A q \in Commands :
               /\ HasWritten(command'[q], b, f, k) => HasWritten(command[q], b, f, k)
               /\ Deletes(command[q], b, f) => Deletes(command'[q], b, f)
        BY <2>2, LikeKeeps
      <3>2. Stored(b, f, k) \/ \E q \in Commands : Owing(command[q], b, f, k)
        BY <1>3, <3>1 DEF TogetherInv, ChunkKept
      <3>3. CASE Stored(b, f, k)
        BY <1>2, <2>2, <3>3, StoredStays
      <3>4. CASE \E q \in Commands : Owing(command[q], b, f, k)
        BY <3>1, <3>4 DEF Owing
      <3> QED  BY <3>2, <3>3, <3>4
    <2> QED  BY <2>1, <2>2
  <1>4. ASSUME NEW b \in Indexes, NEW f \in Files, NEW k \in 1 .. MaxChunks
        PROVE  ChunkKept(b, f, k)'
    BY <1>3 DEF ChunkKept, HasWritten, Owing, Deletes, Hit
  <1> QED  BY <1>1, <1>4 DEF TogetherInv, Aimed, Hit

\* A command has written nothing before its first batch under the final name, and
\* once it has failed.
LEMMA NotYetWritten ==
    ASSUME NEW d, CommandOK(d),
           \/ d.failed
           \/ d.chunks = <<>>
           \/ d.phases \notin {<<>>, <<"unstage">>, <<"upsert">>, <<"upsert", "unstage">>}
           \/ d.at = 1 /\ d.phases \notin {<<>>, <<"unstage">>}
    PROVE  \A b, f, k : ~HasWritten(d, b, f, k)
  <1>1. Len(d.chunks) \in Nat /\ (d.chunks = <<>> => Len(d.chunks) = 0)
    BY CommandTyped
  <1>2. \A i \in 1 .. Len(d.chunks) : d.chunks # <<>> /\ ~(i < 1)
    BY <1>1
  <1> QED  BY <1>2 DEF HasWritten

LEMMA AloneTogether ==
    ASSUME CliInv, TogetherInv, NEW p \in Commands, NEW d,
           command' = [command EXCEPT ![p] = d], rows' = rows, Aimed(d),
           \/ command[p].chunks = <<>>
           \/ d.chunks = command[p].chunks /\ d.backend = command[p].backend,
           \A b, f, k : HasWritten(d, b, f, k) => HasWritten(command[p], b, f, k),
           \A b, f : Deletes(command[p], b, f) => Deletes(d, b, f)
    PROVE  TogetherInv'
  <1>1. command \in [Commands -> CommandRecord]
    BY DEF CliInv
  <1>2. command'[p] = d
    BY <1>1
  <1>3. \A q \in Commands \ {p} : Like(command'[q], command[q])
    BY <1>1 DEF Like
  <1>4. \A b \in Indexes, f \in Files, k \in 1 .. MaxChunks : Stays(b, f, k)
    BY DEF Stays
  <1> QED  BY <1>2, <1>3, <1>4, TogetherOne

\* A write of p, which may disturb others.
LEMMA WrittenTogether ==
    ASSUME CliInv, TogetherInv, NEW p \in Commands, NEW d, NEW e, NEW written,
           Became(p, d, e, written), Aimed(d),
           d.chunks = command[p].chunks /\ d.backend = command[p].backend,
           \A b \in Indexes, f \in Files, k \in 1 .. MaxChunks :
              \/ Stored(b, f, k)'
              \/ Owing(d, b, f, k)
              \/ /\ HasWritten(d, b, f, k) => HasWritten(command[p], b, f, k)
                 /\ Deletes(command[p], b, f) => Deletes(d, b, f)
                 /\ Stays(b, f, k)
    PROVE  TogetherInv'
  <1>1. command \in [Commands -> CommandRecord]
    BY DEF CliInv
  <1>2. command'[p] = d
    BY DEF Became
  <1>3. ASSUME NEW q \in Commands \ {p}
        PROVE  Like(command'[q], command[q])
    <2>1. Like([command[q] EXCEPT !.disturbed = TRUE], command[q])
      BY <1>1, DisturbedIsLike
    <2>2. Like(command[q], command[q])
      BY DEF Like
    <2> QED  BY <2>1, <2>2 DEF Became
  <1> QED  BY <1>2, <1>3, TogetherOne

\* Nothing a command does, at most a turn that is stored.
LEMMA NobodyTogether ==
    ASSUME CliInv, TogetherInv, \A q \in Commands : Like(command'[q], command[q]),
           \A b \in Indexes, f \in Files, k \in 1 .. MaxChunks : Stays(b, f, k)
    PROVE  TogetherInv'
  <1>1. CASE Commands = {}
    BY <1>1 DEF TogetherInv, ChunkKept
  <1>2. ASSUME NEW p \in Commands
        PROVE  TogetherInv'
    <2>1. Aimed(command'[p])
      BY LikeKeeps DEF TogetherInv
    <2>2. command'[p].chunks = command[p].chunks /\ command'[p].backend = command[p].backend
      BY DEF Like
    <2>3. /\ \A b, f, k : HasWritten(command'[p], b, f, k) => HasWritten(command[p], b, f, k)
          /\ \A b, f : Deletes(command[p], b, f) => Deletes(command'[p], b, f)
      BY LikeKeeps
    <2> QED  BY <2>1, <2>2, <2>3, TogetherOne
  <1> QED  BY <1>1, <1>2

LEMMA EndTogether ==
    ASSUME CliInv, TogetherInv, NEW p \in Commands, End(p) \/ FailCommand(p)
    PROVE  TogetherInv'
  <1> DEFINE c == command[p]
  <1>1. c \in CommandRecord /\ Aimed(c) /\ rows' = rows
    BY DEF CliInv, TogetherInv, End, FailCommand
  <1>2. PICK d \in {[c EXCEPT !.step = "ended"],
                    [[c EXCEPT !.step = "ended"] EXCEPT !.failed = TRUE]} :
           command' = [command EXCEPT ![p] = d]
    BY DEF End, FailCommand, CliInv
  <1>3. /\ d.kind = c.kind /\ d.backend = c.backend /\ d.scope = c.scope /\ d.step = "ended"
        /\ d.phases = c.phases /\ d.chunks = c.chunks /\ d.at = c.at /\ d.found = c.found
        /\ d.failed = c.failed \/ d.failed = TRUE
    BY <1>1, <1>2 DEF CommandRecord
  <1> HIDE DEF c
  <1>4. Aimed(d) /\ \A b, f : Deletes(c, b, f) => Deletes(d, b, f)
    BY <1>1, <1>3 DEF Aimed, Deletes
  <1>5. \A b, f, k : HasWritten(d, b, f, k) => HasWritten(c, b, f, k)
    BY <1>3 DEF HasWritten
  <1> QED  BY <1>1, <1>2, <1>3, <1>4, <1>5, AloneTogether DEF c

LEMMA ListTogether ==
    ASSUME CliInv, CliInv', TogetherInv, NEW p \in Commands, ListBySource(p)
    PROVE  TogetherInv'
  <1> DEFINE c == command[p]
             found == RowsOf("pinecone", Hit(c.scope))
             rest == <<"remove">> \o Tail(c.phases)
             d == command'[p]
  <1>1. /\ c \in CommandRecord /\ Aimed(c) /\ rows' = rows /\ CommandOK(d) /\ CommandOK(c)
        /\ c.kind \in CommandKinds /\ c.phases \in PhasesLeft(c.kind, c.chunks # <<>>)
        /\ c.phases # <<>> /\ Head(c.phases) = "delete" /\ c.step = "running"
    BY CommandTyped DEF CliInv, CommandInv, CommandOK, TogetherInv, ListBySource, InPhase
  <1>2. c.kind \in {"delete", "agents"} /\ rest \in {<<"remove">>, <<"remove", "upsert">>}
    <2>1. c.kind # "ingest"
      BY DEF ListBySource, CliInv, CommandInv, CommandOK
    <2> QED  BY <1>1, <2>1, HeadDecides, ListingPutsRemove DEF CommandOK
  <1>3. command' = [command EXCEPT ![p] = [[c EXCEPT !.found = found] EXCEPT !.phases = rest]]
    BY DEF ListBySource, CliInv, CommandRecord
  <1>4. d = [[c EXCEPT !.found = found] EXCEPT !.phases = rest]
    BY <1>3 DEF CliInv
  <1> HIDE DEF c, found, rest
  <1>5. /\ d.kind = c.kind /\ d.backend = c.backend /\ d.scope = c.scope /\ d.step = c.step
        /\ d.phases = rest /\ d.chunks = c.chunks /\ d.found = found
    BY <1>1, <1>4 DEF CommandRecord
  <1>6. c.scope \subseteq Files
    BY <1>1, <1>2 DEF Aimed
  <1>7. \A s \in found : s.source \in Hit(c.scope \cap Files)
    <2>1. c.scope \cap Files = c.scope
      BY <1>6
    <2> QED  BY <2>1 DEF found, RowsOf
  <1>8. command' = [command EXCEPT ![p] = d]
    BY <1>3, <1>4
  <1> HIDE DEF d
  <1>9. Aimed(d)
    <2>1. d.phases # <<"search", "remove">>
      BY <1>2, <1>5, HeadsOfPhases
    <2>2. d.step = "running" /\ d.kind \notin {"ingest"}
      BY <1>1, <1>2, <1>5
    <2> QED  BY <1>5, <1>6, <1>7, <2>1, <2>2 DEF Aimed
  <1>10. \A b, f, k : ~HasWritten(d, b, f, k)
    BY <1>1, <1>2, <1>5, PhasesDiffer, NotYetWritten
  <1>11. \A b, f : Deletes(c, b, f) => Deletes(d, b, f)
    BY <1>5 DEF Deletes
  <1> QED  BY <1>1, <1>5, <1>8, <1>9, <1>10, <1>11, AloneTogether DEF c

LEMMA SearchTogether ==
    ASSUME CliInv, CliInv', TogetherInv, NEW p \in Commands, SearchKeyword(p)
    PROVE  TogetherInv'
  <1> DEFINE c == command[p]
             d == command'[p]
  <1>1. /\ c \in CommandRecord /\ Aimed(c) /\ rows' = rows /\ CommandOK(d) /\ CommandOK(c)
        /\ c.kind \in CommandKinds /\ c.phases \in PhasesLeft(c.kind, c.chunks # <<>>)
        /\ c.phases # <<>> /\ Head(c.phases) = "search" /\ c.step = "running"
    BY CommandTyped DEF CliInv, CommandInv, CommandOK, TogetherInv, SearchKeyword, InPhase
  <1>2. c.phases = <<"search", "remove">> /\ c.kind = "keyword" /\ c.chunks = <<>>
    BY <1>1, HeadDecides
  <1>3. PICK found \in SUBSET rows[c.backend] :
           command' = [command EXCEPT ![p] =
              [NextPhase(@) EXCEPT !.found = found, !.scope = {r.source : r \in found}]]
    BY DEF SearchKeyword, kSubset
  <1> DEFINE scope == {r.source : r \in found}
             step == [c EXCEPT !.phases = Tail(@), !.at = 1]
  <1>4. d = [[step EXCEPT !.found = found] EXCEPT !.scope = scope]
    BY <1>3 DEF CliInv, NextPhase
  <1>5. command' = [command EXCEPT ![p] = d]
    BY <1>3 DEF CliInv
  <1>6. \A s \in found : s.source \in scope
    OBVIOUS
  <1> HIDE DEF c, d, scope
  <1>7. /\ d.kind = c.kind /\ d.scope = scope /\ d.step = c.step /\ d.phases = Tail(c.phases)
        /\ d.chunks = c.chunks /\ d.found = found
    BY <1>1, <1>4 DEF CommandRecord
  <1>8. d.phases = <<"remove">>
    BY <1>2, <1>7, TailsOfPhases
  <1>9. Aimed(d)
    <2>1. \A s \in d.found : s.source \in Files => s.source \in Hit(d.scope \cap Files)
      BY <1>6, <1>7 DEF Hit
    <2> QED  BY <1>1, <1>2, <1>7, <1>8, <2>1, PhasesDiffer DEF Aimed
  <1>10. \A b, f, k : ~HasWritten(d, b, f, k)
    BY <1>1, <1>8, PhasesDiffer, NotYetWritten
  <1>11. \A b, f : ~Deletes(c, b, f)
    <2>1. c.scope = {}
      BY <1>1, <1>2 DEF Aimed
    <2>2. Hit(c.scope \cap Files) = {}
      BY <2>1 DEF Hit
    <2> QED  BY <2>2 DEF Deletes
  <1> QED  BY <1>1, <1>2, <1>5, <1>9, <1>10, <1>11, AloneTogether DEF c

LEMMA UnstageTogether ==
    ASSUME CliInv, TogetherInv, NEW p \in Commands, DeleteStaging(p)
    PROVE  TogetherInv'
  <1> DEFINE c == command[p]
             d == NextPhase(c)
  <1>1. /\ Aimed(c) /\ CommandOK(c) /\ c.kind \in CommandKinds
        /\ c.phases \in PhasesLeft(c.kind, c.chunks # <<>>)
        /\ c.phases # <<>> /\ Head(c.phases) = "unstage" /\ c.step = "running"
        /\ command' = [command EXCEPT ![p] = d] /\ rows' = rows
    BY CommandTyped DEF CliInv, CommandInv, CommandOK, TogetherInv, DeleteStaging, InPhase
  <1>2. c.phases = <<"unstage">> /\ c.kind = "ingest"
    BY <1>1, HeadDecides
  <1>3. /\ d.phases = <<>> /\ d.kind = c.kind /\ d.backend = c.backend
        /\ d.scope = c.scope /\ d.chunks = c.chunks /\ d.found = c.found
        /\ d.failed = c.failed
    BY <1>1, <1>2, AfterPhase, TailsOfPhases
  <1>7. d.step = c.step
    BY <1>1 DEF NextPhase, CommandOK, CommandRecord
  <1> HIDE DEF c, d
  <1>4. Aimed(d)
    <2>1. /\ d.phases # <<"search", "remove">>
          /\ d.phases \notin {<<"remove">>, <<"remove", "upsert">>}
      BY <1>3, PhasesDiffer
    <2> QED  BY <1>1, <1>2, <1>3, <1>7, <2>1 DEF Aimed
  <1>5. \A b, f, k : HasWritten(d, b, f, k) => HasWritten(c, b, f, k)
    BY <1>2, <1>3, PhasesDiffer DEF HasWritten
  <1>6. \A b, f : Deletes(c, b, f) => Deletes(d, b, f)
    BY <1>3 DEF Deletes
  <1> QED  BY <1>1, <1>3, <1>4, <1>5, <1>6, AloneTogether DEF c

LEMMA FetchTogether ==
    ASSUME CliInv, CliInv', TogetherInv, NEW p \in Commands, Fetch(p)
    PROVE  TogetherInv'
  <1> DEFINE c == command[p]
             d == command'[p]
             chunks == SetToSeq(RowsOf("pinecone", c.scope))
             rest == IF chunks = <<>> THEN <<>> ELSE <<"upsert">>
             step == [c EXCEPT !.phases = Tail(@), !.at = 1]
  <1>1. /\ c \in CommandRecord /\ Aimed(c) /\ rows' = rows /\ CommandOK(d) /\ CommandOK(c)
        /\ c.kind \in CommandKinds /\ c.phases \in PhasesLeft(c.kind, c.chunks # <<>>)
        /\ c.phases # <<>> /\ Head(c.phases) = "fetch" /\ c.step = "running"
    BY CommandTyped DEF CliInv, CommandInv, CommandOK, TogetherInv, Fetch, InPhase
  <1>2. c.phases = <<"fetch", "upsert">> /\ c.kind = "copy" /\ c.chunks = <<>>
    BY <1>1, HeadDecides
  <1>3. d = [[step EXCEPT !.chunks = chunks] EXCEPT !.phases = rest]
    BY DEF CliInv, Fetch, NextPhase
  <1>4. command' = [command EXCEPT ![p] = d]
    BY DEF CliInv, Fetch
  <1> HIDE DEF c, d, chunks
  <1>5. /\ d.kind = c.kind /\ d.scope = c.scope /\ d.step = c.step
        /\ d.phases = rest /\ d.chunks = chunks /\ d.at = 1
    BY <1>1, <1>3 DEF CommandRecord
  <1>6. d.phases \in {<<>>, <<"upsert">>} /\ (d.phases = <<>> => d.chunks = <<>>)
    BY <1>5, PhasesDiffer
  <1>7. Aimed(d)
    BY <1>1, <1>2, <1>5, <1>6, HeadsOfPhases, PhasesDiffer DEF Aimed
  <1>8. \A b, f, k : ~HasWritten(d, b, f, k)
    BY <1>1, <1>5, <1>6, PhasesDiffer, NotYetWritten
  <1>9. \A b, f : ~Deletes(c, b, f)
    BY <1>2 DEF Deletes
  <1> QED  BY <1>1, <1>2, <1>4, <1>7, <1>8, <1>9, AloneTogether DEF c

LEMMA RunTogether ==
    ASSUME CliInv, CliInv', TogetherInv, NEW p \in Commands, NEW kind \in CommandKinds,
           kind # "none", NEW b \in Indexes, NEW scope \in SUBSET Sources, NEW chunks,
           NEW phases, phases = FirstPhases(kind, chunks # <<>>),
           kind \in {"delete", "keyword", "all", "copy"} => chunks = <<>>,
           kind \in {"agents", "ingest", "delete"} => scope \subseteq Files,
           kind = "keyword" => scope = {},
           Run(p, kind, b, scope, phases, chunks)
    PROVE  TogetherInv'
  <1> DEFINE c == command[p]
             d == command'[p]
  <1>1. /\ c.chunks = <<>> /\ c.kind = "none" /\ rows' = rows /\ CommandOK(d)
        /\ command' = [command EXCEPT ![p] = d]
        /\ d = [NotRun EXCEPT !.kind = kind, !.backend = b, !.scope = scope,
                              !.step = "running", !.phases = phases, !.chunks = chunks]
    BY DEF CliInv, CommandInv, TogetherInv, Aimed, Run
  <1>2. /\ d.kind = kind /\ d.scope = scope /\ d.step = "running"
        /\ d.phases = phases /\ d.chunks = chunks /\ d.at = 1
    BY <1>1 DEF NotRun
  <1> HIDE DEF c, d
  <1>3. /\ phases \notin {<<"unstage">>, <<"upsert", "unstage">>,
                          <<"remove">>, <<"remove", "upsert">>}
        /\ phases = <<>> => chunks = <<>>
    BY FirstPhasesLeft
  <1>4. phases = <<"search", "remove">> => kind = "keyword"
    BY HeadsOfPhases, PhasesDiffer DEF FirstPhases, CommandKinds
  <1>5. Aimed(d)
    BY <1>2, <1>3, <1>4 DEF Aimed
  <1>6. \A any, f, k : ~HasWritten(d, any, f, k)
    BY <1>1, <1>2, <1>3, NotYetWritten
  <1>7. \A any, f : ~Deletes(c, any, f)
    BY <1>1 DEF Deletes
  <1> QED  BY <1>1, <1>5, <1>6, <1>7, AloneTogether DEF c

LEMMA BeginTogether ==
    ASSUME CliInv, CliInv', TogetherInv, NEW p \in Commands,
           runFile(p) \/ runDelete(p) \/ runPineconeToPgvector(p)
    PROVE  TogetherInv'
  <1>1. CASE runFile(p)
    <2>1. PICK f \in Files, b \in Indexes :
             Run(p, CommandOf[f], b, {f}, Phases(CommandOf[f], document[f].length),
                 chunksOfFile(f))
      BY <1>1 DEF runFile
    <2> DEFINE chunks == chunksOfFile(f)
               kind == CommandOf[f]
               n == document[f].length
    <2>2. kind \in {"migrate", "agents", "ingest"}
      BY CliAssumption
    <2>3. (chunks = <<>>) <=> (n = 0)
      BY ChunksOfFileTyped DEF CliInv
    <2> HIDE DEF chunks, kind, n
    <2>4. Phases(kind, n) = FirstPhases(kind, chunks # <<>>)
      BY <2>2, <2>3 DEF Phases, FirstPhases
    <2>5. Run(p, kind, b, {f}, Phases(kind, n), chunks)
      BY <2>1 DEF kind, chunks, n
    <2>6. kind \in CommandKinds /\ {f} \in SUBSET Sources /\ {f} \subseteq Files
      BY <2>2 DEF CommandKinds, Sources
    <2> QED  BY <2>2, <2>4, <2>5, <2>6, RunTogether
  <1>2. ASSUME NEW kind \in {"delete", "keyword", "all", "copy"}, NEW b \in Indexes,
               NEW scope \in SUBSET Sources, kind = "delete" => scope \subseteq Files,
               kind = "keyword" => scope = {},
               Run(p, kind, b, scope, FirstPhases(kind, FALSE), <<>>)
        PROVE  TogetherInv'
    <2>1. kind \in CommandKinds
      BY DEF CommandKinds
    <2> DEFINE chunks == <<>>
    <2>2. (chunks # <<>>) = FALSE
      OBVIOUS
    <2>3. Run(p, kind, b, scope, FirstPhases(kind, chunks # <<>>), chunks)
      BY <1>2, <2>2
    <2> QED  BY <1>2, <2>1, <2>3, RunTogether
  <1>3. CASE runDelete(p)
    <2>1. PICK b \in Indexes :
             \/ \E f \in Files : Run(p, "delete", b, {f}, <<"delete">>, <<>>)
             \/ Run(p, "keyword", b, {}, <<"search", "remove">>, <<>>)
             \/ Run(p, "all", b, Sources, <<"clear">>, <<>>)
      BY <1>3 DEF runDelete
    <2>2. /\ FirstPhases("delete", FALSE) = <<"delete">>
          /\ FirstPhases("keyword", FALSE) = <<"search", "remove">>
          /\ FirstPhases("all", FALSE) = <<"clear">>
      BY DEF FirstPhases
    <2>3. CASE \E f \in Files : Run(p, "delete", b, {f}, <<"delete">>, <<>>)
      <3>1. PICK f \in Files : Run(p, "delete", b, {f}, <<"delete">>, <<>>)
        BY <2>3
      <3>2. {f} \in SUBSET Sources /\ {f} \subseteq Files
        BY DEF Sources
      <3> QED  BY <1>2, <2>2, <3>1, <3>2
    <2>4. CASE Run(p, "keyword", b, {}, <<"search", "remove">>, <<>>)
      <3>1. {} \in SUBSET Sources
        OBVIOUS
      <3> QED  BY <1>2, <2>2, <2>4, <3>1
    <2>5. CASE Run(p, "all", b, Sources, <<"clear">>, <<>>)
      <3>1. Sources \in SUBSET Sources
        OBVIOUS
      <3> QED  BY <1>2, <2>2, <2>5, <3>1
    <2> QED  BY <2>1, <2>3, <2>4, <2>5
  <1>4. CASE runPineconeToPgvector(p)
    <2>1. PICK scope \in {Turns, Sources} :
             Run(p, "copy", "pgvector", scope, <<"fetch", "upsert">>, <<>>)
      BY <1>4 DEF runPineconeToPgvector
    <2>2. scope \in SUBSET Sources /\ "pgvector" \in Indexes
      BY DEF Sources, Indexes
    <2> QED  BY <1>2, <2>1, <2>2 DEF FirstPhases
  <1> QED  BY <1>1, <1>3, <1>4

LEMMA EngineTogether ==
    ASSUME CliInv, TogetherInv, NEW b \in Indexes, EngineIngest(b)
    PROVE  TogetherInv'
  <1>1. PICK t \in Turns :
           LET row == [source |-> t, chunk |-> 1, version |-> 1, staged |-> FALSE]
           IN /\ rows' = [rows EXCEPT ![b] = Upserted(@, {row})]
              /\ command' = [q \in Commands |->
                    IF command[q].backend = b /\ t \in command[q].scope
                    THEN [command[q] EXCEPT !.disturbed = TRUE]
                    ELSE command[q]]
    BY DEF EngineIngest
  <1> DEFINE row == [source |-> t, chunk |-> 1, version |-> 1, staged |-> FALSE]
  <1>2. row.source \notin Files
    BY CliAssumption
  <1>3. \A e \in Indexes : rows'[e] = IF e = b THEN Upserted(rows[b], {row}) ELSE rows[e]
    BY <1>1 DEF CliInv
  <1> HIDE DEF row
  <1>4. ASSUME NEW e \in Indexes, NEW f \in Files, NEW k \in 1 .. MaxChunks
        PROVE  Stays(e, f, k)
    BY <1>2, <1>3 DEF Stays, Upserted, SameId
  <1>5. ASSUME NEW q \in Commands
        PROVE  Like(command'[q], command[q])
    <2>1. Like([command[q] EXCEPT !.disturbed = TRUE], command[q])
      BY DisturbedIsLike DEF CliInv
    <2>2. Like(command[q], command[q])
      BY DEF Like
    <2> QED  BY <1>1, <2>1, <2>2
  <1> QED  BY <1>4, <1>5, NobodyTogether

\* The fields of a command after a batch.
LEMMA AfterBatchFields ==
    ASSUME NEW c, CommandOK(c), c.step = "running", c.phases # <<>>,
           Head(c.phases) \in {"upsert", "stage"}
    PROVE  LET d == AfterBatchOf(c)
           IN /\ CommandOK(d) /\ d.step = c.step /\ d.kind = c.kind /\ d.backend = c.backend
              /\ d.scope = c.scope /\ d.chunks = c.chunks /\ d.failed = c.failed
              /\ LastOf(c) \in Nat /\ c.at \in Nat /\ c.at =< LastOf(c)
              /\ \/ d.phases = c.phases /\ d.at = LastOf(c) + 1
                 \/ d.phases = Tail(c.phases) /\ LastOf(c) = Len(c.chunks) /\ d.at = 1
  <1> DEFINE d == AfterBatchOf(c)
  <1>1. c.chunks # <<>>
    BY CommandTyped, HeadDecides DEF CommandOK
  <1>2. /\ LastOf(c) \in Nat /\ c.at =< LastOf(c) /\ LastOf(c) =< Len(c.chunks)
        /\ c.at \in Nat \ {0} /\ Len(c.chunks) \in Nat
    BY <1>1, BatchRows, CommandTyped
  <1>3. CASE LastOf(c) = Len(c.chunks)
    <2>1. d = NextPhase(c)
      BY <1>3 DEF AfterBatchOf
    <2>2. NextPhase(c).step = c.step
      BY DEF NextPhase, CommandOK, CommandRecord
    <2> HIDE DEF d
    <2> QED  BY <1>2, <1>3, <2>1, <2>2, AfterPhase DEF d
  <1>4. CASE LastOf(c) # Len(c.chunks)
    <2> DEFINE at == LastOf(c) + 1
    <2>1. d = [c EXCEPT !.at = at]
      BY <1>4 DEF AfterBatchOf
    <2>2. at \in Nat \ {0} /\ at =< Len(c.chunks)
      BY <1>2, <1>4
    <2>3. [c EXCEPT !.at = at].step = c.step
      BY DEF CommandOK, CommandRecord
    <2> HIDE DEF d, at
    <2>4. /\ CommandOK(d) /\ d.step = c.step /\ d.kind = c.kind /\ d.backend = c.backend
          /\ d.scope = c.scope /\ d.chunks = c.chunks /\ d.failed = c.failed
          /\ d.phases = c.phases /\ d.at = at
      BY <2>1, <2>2, <2>3, MoreFields
    <2> QED  BY <1>2, <2>4 DEF d, at
  <1> QED  BY <1>3, <1>4

LEMMA BatchFailsTogether ==
    ASSUME CliInv, CliInv', TogetherInv, NEW p \in Commands, CopyBatchFails(p)
    PROVE  TogetherInv'
  <1> DEFINE c == command[p]
             a == AfterBatchOf(c)
             d == [a EXCEPT !.failed = TRUE]
  <1>1. /\ Aimed(c) /\ CommandOK(c) /\ c.kind = "copy"
        /\ c.phases # <<>> /\ Head(c.phases) = "upsert" /\ c.step = "running"
        /\ command' = [command EXCEPT ![p] = d] /\ rows' = rows
    BY DEF CliInv, CommandInv, TogetherInv, CopyBatchFails, InPhase
  <1>2. c.phases = <<"upsert">>
    BY <1>1, HeadDecides, CommandTyped DEF CommandOK
  <1> HIDE DEF c, d
  <1>3. /\ CommandOK(a) /\ a.kind = c.kind /\ a.step = c.step /\ a.backend = c.backend
        /\ a.scope = c.scope /\ a.chunks = c.chunks
        /\ a.phases \in {<<"upsert">>, <<>>}
    BY <1>1, <1>2, AfterBatchFields, TailsOfPhases
  <1> HIDE DEF a
  <1>4. /\ CommandOK(d) /\ d.failed = TRUE
        /\ d.kind = c.kind /\ d.step = c.step /\ d.backend = c.backend
        /\ d.scope = c.scope /\ d.chunks = c.chunks /\ d.phases = a.phases
    <2>1. CommandOK(d) /\ d.failed = TRUE
      BY <1>3, FailedFields DEF d
    <2>2. /\ d.kind = a.kind /\ d.step = a.step /\ d.backend = a.backend
          /\ d.scope = a.scope /\ d.chunks = a.chunks /\ d.phases = a.phases
      BY <1>3 DEF d, CommandOK, CommandRecord
    <2> QED  BY <1>3, <2>1, <2>2
  <1>5. Aimed(d)
    <2>1. d.phases \notin {<<"remove">>, <<"remove", "upsert">>, <<"search", "remove">>}
      BY <1>3, <1>4, HeadsOfPhases, PhasesDiffer
    <2> QED  BY <1>1, <1>4, <2>1 DEF Aimed
  <1>6. \A b, f, k : ~HasWritten(d, b, f, k)
    BY <1>4, NotYetWritten
  <1>7. \A b, f : ~Deletes(c, b, f)
    BY <1>1 DEF Deletes
  <1> QED  BY <1>1, <1>4, <1>5, <1>6, <1>7, AloneTogether DEF c

\* What a command deletes it owes from then on.
LEMMA EraseTogether ==
    ASSUME CliInv, TogetherInv, NEW p \in Commands,
           deleteBySourcePg(p) \/ deleteMany(p) \/ deleteNamespace(p)
    PROVE  TogetherInv'
  <1> DEFINE c == command[p]
             e == c.backend
             d == NextPhase(c)
  <1>1. /\ CommandOK(c) /\ Aimed(c) /\ e \in Indexes /\ c.kind \in CommandKinds
        /\ c.phases \in PhasesLeft(c.kind, c.chunks # <<>>)
        /\ c.step = "running" /\ c.phases # <<>>
        /\ Head(c.phases) \in {"delete", "remove", "clear"}
    BY CommandTyped DEF CliInv, CommandInv, CommandOK, TogetherInv,
       deleteBySourcePg, deleteMany, deleteNamespace, InPhase
  <1>2. /\ c.kind \in {"agents", "ingest", "delete", "keyword", "all"}
        /\ \/ c.phases \in {<<"delete">>, <<"remove">>, <<"clear">>} /\ c.chunks = <<>>
           \/ c.phases \in {<<"delete", "upsert">>, <<"delete", "upsert", "unstage">>,
                            <<"remove", "upsert">>}
    BY <1>1, HeadDecides
  <1>3. /\ CommandOK(d) /\ d.phases = Tail(c.phases) /\ d.at = 1 /\ d.kind = c.kind
        /\ d.backend = e /\ d.scope = c.scope /\ d.chunks = c.chunks /\ d.found = c.found
        /\ d.step = c.step
    <2>1. d.step = c.step
      BY <1>1 DEF NextPhase, CommandOK, CommandRecord
    <2> HIDE DEF c, d
    <2> QED  BY <1>1, <2>1, AfterPhase DEF d
  <1>4. PICK dropped : /\ Erase(p, d, e, dropped)
                    /\ \A s \in dropped : s.source \in Files => s.source \in Hit(c.scope \cap Files)
    <2>1. CASE deleteBySourcePg(p)
      <3>1. c.kind # "keyword" /\ c.kind # "all"
        <4>1. Head(c.phases) = "delete"
          BY <2>1 DEF deleteBySourcePg, InPhase
        <4> QED  BY <1>1, <4>1, HeadDecides
      <3>2. c.scope \cap Files = c.scope
        BY <1>1, <1>2, <3>1 DEF Aimed
      <3>3. \A s \in RowsOf(e, Hit(c.scope)) : s.source \in Hit(c.scope \cap Files)
        BY <3>2 DEF RowsOf
      <3>4. Erase(p, d, e, RowsOf(e, Hit(c.scope)))
        BY <2>1 DEF deleteBySourcePg
      <3> QED  BY <3>3, <3>4
    <2>2. CASE deleteMany(p)
      <3>1. Head(c.phases) = "remove"
        BY <2>2 DEF deleteMany, InPhase
      <3>2. c.phases \in {<<"remove">>, <<"remove", "upsert">>}
        BY <1>1, <3>1, HeadDecides
      <3>3. Erase(p, d, e, c.found)
        BY <2>2 DEF deleteMany
      <3> QED  BY <1>1, <3>2, <3>3 DEF Aimed
    <2>3. CASE deleteNamespace(p)
      <3>1. Head(c.phases) = "clear" /\ Erase(p, d, e, rows[e])
        BY <2>3 DEF deleteNamespace, InPhase
      <3>2. c.scope = Sources
        BY <1>1, <3>1, HeadDecides DEF CommandOK
      <3>3. \A f \in Files : f \in Hit(c.scope \cap Files)
        BY <3>2 DEF Hit, Sources
      <3> QED  BY <3>1, <3>3
    <2> QED  BY <2>1, <2>2, <2>3
  <1>5. /\ Became(p, d, e, {s.source : s \in dropped})
        /\ \A b \in Indexes : rows'[b] = IF b = e THEN ErasedRows(rows[b], dropped) ELSE rows[b]
    BY <1>1, <1>4 DEF Erase, ErasedRows, CliInv
  <1> HIDE DEF c, d, e
  <1>6. \A b, f, k : ~HasWritten(d, b, f, k)
    <2>1. \/ d.chunks = <<>>
          \/ d.phases \in {<<"upsert">>, <<"upsert", "unstage">>}
      BY <1>2, <1>3, TailsOfPhases
    <2>2. d.chunks = <<>> \/ d.phases \notin {<<>>, <<"unstage">>}
      BY <2>1, PhasesDiffer
    <2> QED  BY <1>3, <2>2, NotYetWritten
  <1>7. Aimed(d)
    <2>1. d.phases \in {<<>>, <<"upsert">>, <<"upsert", "unstage">>}
      BY <1>2, <1>3, TailsOfPhases
    <2>2. d.phases \notin {<<"remove">>, <<"remove", "upsert">>, <<"search", "remove">>}
      BY <2>1, PhasesDiffer
    <2> QED  BY <1>1, <1>3, <2>2 DEF Aimed
  <1>8. \A b, f : Deletes(c, b, f) => Deletes(d, b, f)
    BY <1>3 DEF Deletes, e
  <1>9. ASSUME NEW b \in Indexes, NEW f \in Files, NEW k \in 1 .. MaxChunks
        PROVE  Owing(d, b, f, k) \/ Stays(b, f, k)
    <2>1. CASE b = e /\ f \in Hit(c.scope \cap Files)
      BY <1>2, <1>3, <1>6, <2>1 DEF Owing, Deletes
    <2>2. CASE b # e
      BY <1>5, <2>2 DEF Stays
    <2>3. CASE b = e /\ f \notin Hit(c.scope \cap Files)
      <3>1. ASSUME NEW r \in rows[b], r.source = f
            PROVE  r \in ErasedRows(rows[b], dropped)
        <4>1. \A s \in dropped : s.source # f
          BY <1>4, <2>3
        <4> QED  BY <3>1, <4>1 DEF ErasedRows, SameId
      <3>2. rows'[b] = ErasedRows(rows[b], dropped)
        BY <1>5, <2>3
      <3> QED  BY <3>1, <3>2 DEF Stays
    <2> QED  BY <2>1, <2>2, <2>3
  <1>10. d.chunks = command[p].chunks /\ d.backend = command[p].backend
    BY <1>3 DEF c, e
  <1>11. \A b, f : Deletes(command[p], b, f) => Deletes(d, b, f)
    BY <1>8 DEF c
  <1> QED  BY <1>5, <1>6, <1>7, <1>9, <1>10, <1>11, WrittenTogether

LEMMA UpsertTogether ==
    ASSUME CliInv, TogetherInv, NEW p \in Commands, Upsert(p)
    PROVE  TogetherInv'
  <1> DEFINE c == command[p]
             e == c.backend
             staging == (Head(c.phases) = "stage")
             batch == BatchOf(c, staging)
             d == AfterBatchOf(c)
             last == LastOf(c)
  <1>1. /\ CommandOK(c) /\ Aimed(c) /\ e \in Indexes /\ c.kind \in CommandKinds
        /\ c.phases \in PhasesLeft(c.kind, c.chunks # <<>>)
        /\ c.step = "running" /\ c.phases # <<>> /\ Head(c.phases) \in {"upsert", "stage"}
        /\ Became(p, d, e, {r.source : r \in batch})
        /\ rows \in [Indexes -> SUBSET Row]
        /\ rows' = [rows EXCEPT ![e] = Upserted(@, batch)]
        /\ GoodRows(e, rows[e])
    BY CommandTyped DEF CliInv, CommandInv, CommandOK, TogetherInv, Upsert, InPhase
  <1>2. /\ c.chunks # <<>>
        /\ staging => c.kind = "ingest" /\ c.phases = <<"stage", "delete", "upsert", "unstage">>
        /\ ~staging => c.phases \in {<<"upsert">>, <<"upsert", "unstage">>}
    BY <1>1, HeadDecides DEF CommandOK
  <1>3. staging => e = "pgvector"
    BY <1>1, <1>2 DEF CommandOK
  <1>4. /\ GoodRows(e, batch) /\ \A r \in batch : r.source \in c.scope
        /\ ~staging => batch = {c.chunks[i] : i \in c.at .. last}
    BY <1>1, <1>2, <1>3, BatchRows
  <1>5. /\ CommandOK(d) /\ d.step = c.step /\ d.kind = c.kind /\ d.backend = e
        /\ d.scope = c.scope /\ d.chunks = c.chunks /\ d.failed = c.failed
        /\ last \in Nat /\ c.at \in Nat /\ c.at =< last
        /\ \/ d.phases = c.phases /\ d.at = last + 1
           \/ d.phases = Tail(c.phases) /\ last = Len(c.chunks) /\ d.at = 1
    <2> HIDE DEF c, d, last
    <2> QED  BY <1>1, AfterBatchFields DEF d, last, e
  <1>6. \A b \in Indexes : rows'[b] = IF b = e THEN Upserted(rows[e], batch) ELSE rows[b]
    BY <1>1
  <1>7. /\ batch \subseteq Upserted(rows[e], batch)
        /\ \A r \in rows[e] : (\A s \in batch : ~SameId(r, s)) => r \in Upserted(rows[e], batch)
    BY DEF Upserted
  <1>8. \A i \in 1 .. Len(c.chunks) : c.chunks[i] \in Row /\ ~c.chunks[i].staged
    BY <1>1, CommandTyped DEF CommandOK, OwnChunks
  <1>9. Len(c.chunks) \in Nat /\ DOMAIN c.chunks = 1 .. Len(c.chunks) /\ last =< Len(c.chunks)
    BY <1>1, <1>2, CommandTyped, BatchRows
  <1>10. command'[p] = d
    BY <1>1 DEF Became
  <1> HIDE DEF c, d, e, batch, last
  <1>11. Aimed(d)
    <2>1. d.phases \notin {<<"remove">>, <<"remove", "upsert">>, <<"search", "remove">>}
      BY <1>2, <1>5, HeadsOfPhases, TailsOfPhases, PhasesDiffer
    <2> QED  BY <1>1, <1>5, <2>1 DEF Aimed
  <1>12. \A b, f : Deletes(c, b, f) => Deletes(d, b, f)
    BY <1>5 DEF Deletes, e
  <1>13. ASSUME NEW b \in Indexes, NEW f \in Files, NEW k \in 1 .. MaxChunks,
                b # e \/ \A r \in batch : ~(r.source = f /\ r.chunk = k)
         PROVE  Stays(b, f, k)
    <2>1. CASE b # e
      BY <1>6, <2>1 DEF Stays
    <2>2. CASE b = e
      <3>1. \A r \in rows[e] : r.source = f /\ r.chunk = k => r \in Upserted(rows[e], batch)
        BY <1>7, <1>13, <2>2 DEF SameId
      <3> QED  BY <1>6, <2>2, <3>1 DEF Stays
    <2> QED  BY <2>1, <2>2
  <1>14. ASSUME NEW b \in Indexes, NEW f \in Files, NEW k \in 1 .. MaxChunks
         PROVE  \/ Stored(b, f, k)'
                \/ Owing(d, b, f, k)
                \/ /\ HasWritten(d, b, f, k) => HasWritten(c, b, f, k)
                   /\ Stays(b, f, k)
    <2>1. CASE staging
      <3>1. \A any, g, j : ~HasWritten(d, any, g, j)
        <4>1. d.phases \notin {<<>>, <<"unstage">>, <<"upsert">>, <<"upsert", "unstage">>}
          BY <1>2, <1>5, <2>1, TailsOfPhases, PhasesDiffer
        <4> QED  BY <1>5, <4>1, NotYetWritten
      <3>2. CASE b = e /\ f \in c.scope
        <4>1. Deletes(d, b, f)
          BY <1>2, <1>5, <2>1, <3>2 DEF Deletes, Hit
        <4> QED  BY <3>1, <4>1 DEF Owing
      <3>3. CASE ~(b = e /\ f \in c.scope)
        BY <1>4, <1>13, <3>1, <3>3
      <3> QED  BY <3>2, <3>3
    <2>2. CASE ~staging /\ b = e /\ \E r \in batch : r.source = f /\ r.chunk = k
      <3>1. PICK i \in c.at .. last : c.chunks[i].source = f /\ c.chunks[i].chunk = k
        BY <1>4, <2>2
      <3>2. i \in 1 .. Len(c.chunks) /\ c.chunks[i] \in batch
        <4>1. c.at >= 1
          BY <1>1, CommandTyped
        <4> QED  BY <1>4, <1>5, <1>9, <2>2, <4>1
      <3>3. [c.chunks[i] EXCEPT !.staged = FALSE] = c.chunks[i]
        BY <1>8, <3>2 DEF Row
      <3>4. [c.chunks[i] EXCEPT !.staged = FALSE] \in rows'[b]
        BY <1>6, <1>7, <2>2, <3>2, <3>3
      <3>5. /\ command'[p].chunks = c.chunks /\ command'[p].backend = b
            /\ i \in DOMAIN c.chunks
        BY <1>5, <1>9, <1>10, <2>2, <3>2
      <3> QED  BY <3>1, <3>4, <3>5 DEF Stored
    <2>3. CASE ~staging /\ ~(b = e /\ \E r \in batch : r.source = f /\ r.chunk = k)
      <3>1. Stays(b, f, k)
        BY <1>13, <2>3
      <3>2. ASSUME HasWritten(d, b, f, k)
            PROVE  HasWritten(c, b, f, k)
        <4>1. PICK i \in 1 .. Len(d.chunks) :
                 /\ d.chunks[i].source = f /\ d.chunks[i].chunk = k
                 /\ \/ d.phases \in {<<>>, <<"unstage">>}
                    \/ d.phases \in {<<"upsert">>, <<"upsert", "unstage">>} /\ i < d.at
          BY <3>2 DEF HasWritten
        <4>2. b = e /\ ~d.failed
          BY <1>5, <3>2 DEF HasWritten
        <4>3. i \in 1 .. Len(c.chunks) /\ c.chunks[i].source = f /\ c.chunks[i].chunk = k
          BY <1>5, <4>1
        <4>4. c.chunks[i] \notin batch
          BY <2>3, <4>2, <4>3
        <4>5. i \notin c.at .. last
          BY <1>4, <2>3, <4>4
        <4>6. d.phases = c.phases => i =< last
          BY <1>2, <1>5, <1>9, <2>3, <4>1, <4>3, PhasesDiffer
        <4>7. d.phases = Tail(c.phases) /\ last = Len(c.chunks) => i =< last
          BY <4>3, <1>9
        <4>8. i =< last
          BY <1>5, <4>6, <4>7
        <4>9. i < c.at
          BY <1>5, <4>3, <4>5, <4>8
        <4> QED  BY <1>2, <1>5, <2>3, <4>2, <4>3, <4>9 DEF HasWritten, e
      <3> QED  BY <3>1, <3>2
    <2> QED  BY <2>1, <2>2, <2>3
  <1>15. d.chunks = command[p].chunks /\ d.backend = command[p].backend
    BY <1>5 DEF c, e
  <1>16. ASSUME NEW b \in Indexes, NEW f \in Files, NEW k \in 1 .. MaxChunks
         PROVE  \/ Stored(b, f, k)'
                \/ Owing(d, b, f, k)
                \/ /\ HasWritten(d, b, f, k) => HasWritten(command[p], b, f, k)
                   /\ Deletes(command[p], b, f) => Deletes(d, b, f)
                   /\ Stays(b, f, k)
    BY <1>12, <1>14 DEF c
  <1> QED  BY <1>1, <1>11, <1>15, <1>16, WrittenTogether

LEMMA TogetherInit == CliInit => TogetherInv
  <1> SUFFICES ASSUME CliInit
               PROVE  TogetherInv
    OBVIOUS
  <1>1. \A p \in Commands : command[p] = NotRun
    BY DEF CliInit
  <1>2. /\ NotRun.kind = "none" /\ NotRun.chunks = <<>> /\ NotRun.phases = <<>>
        /\ NotRun.scope = {} /\ CommandOK(NotRun)
    BY InitialCommand DEF NotRun
  <1> HIDE DEF NotRun
  <1>3. Aimed(NotRun)
    BY <1>2, HeadsOfPhases, PhasesDiffer DEF Aimed
  <1>4. \A b, f, k : ~HasWritten(NotRun, b, f, k)
    BY <1>2, NotYetWritten
  <1> QED  BY <1>1, <1>3, <1>4 DEF TogetherInv, ChunkKept

LEMMA TogetherStep == CliInv /\ TogetherInv /\ [CliNext]_cliVars => TogetherInv'
  <1> SUFFICES ASSUME CliInv, TogetherInv, [CliNext]_cliVars
               PROVE  TogetherInv'
    OBVIOUS
  <1>0. CliInv'
    BY CliStep
  <1>1. CASE rows' = rows /\ command' = command
    <2>1. \A q \in Commands : Like(command'[q], command[q])
      BY <1>1 DEF Like
    <2>2. \A b \in Indexes, f \in Files, k \in 1 .. MaxChunks : Stays(b, f, k)
      BY <1>1 DEF Stays
    <2> QED  BY <2>1, <2>2, NobodyTogether
  <1>2. CASE UNCHANGED cliVars \/ \E f \in Files : Edit(f)
    BY <1>1, <1>2 DEF cliVars, Edit
  <1>3. CASE \E b \in Indexes : EngineIngest(b)
    BY <1>3, EngineTogether
  <1>4. ASSUME NEW p \in Commands,
               \/ runFile(p) \/ runDelete(p) \/ runPineconeToPgvector(p)
               \/ Upsert(p) \/ CopyBatchFails(p) \/ deleteBySourcePg(p) \/ ListBySource(p)
               \/ SearchKeyword(p) \/ deleteMany(p) \/ DeleteStaging(p) \/ deleteNamespace(p)
               \/ Fetch(p) \/ End(p) \/ FailCommand(p)
        PROVE  TogetherInv'
    BY <1>0, <1>4, BeginTogether, UpsertTogether, BatchFailsTogether, EraseTogether,
       ListTogether, SearchTogether, UnstageTogether, FetchTogether, EndTogether
  <1> QED  BY <1>2, <1>3, <1>4 DEF CliNext

LEMMA AloneFromInv == CliInv => WholeAlone
  <1> SUFFICES ASSUME CliInv, NEW p \in Commands, Succeeded(command[p]), ~command[p].disturbed
               PROVE  LET c == command[p]
                          written == {c.chunks[i] : i \in DOMAIN c.chunks}
                      IN /\ written \subseteq rows[c.backend]
                         /\ c.kind = "ingest" \/ (c.kind = "agents" /\ written # {}) =>
                               RowsOf(c.backend, c.scope) = written
                         /\ c.kind \in {"delete", "all"} => RowsOf(c.backend, c.scope) = {}
                         /\ c.kind = "keyword" =>
                               \A r \in rows[c.backend], s \in c.found : ~SameId(r, s)
    BY DEF WholeAlone
  <1> DEFINE c == command[p]
             written == {c.chunks[i] : i \in DOMAIN c.chunks}
             own == PartFrom(rows[c.backend], c.scope)
  <1>1. CommandOK(c) /\ Progress(c, own)
    BY DEF CliInv, CommandInv, Succeeded
  <1>2. c.phases = <<>>
    BY <1>1 DEF Succeeded, CommandOK
  <1>3. /\ c.kind \in CommandKinds /\ c.backend \in Indexes
        /\ c.chunks \in Seq(Row) /\ DOMAIN c.chunks = 1 .. Len(c.chunks)
        /\ Len(c.chunks) \in Nat /\ (c.chunks # <<>> => Len(c.chunks) > 0)
    BY <1>1, CommandTyped
  <1>4. own \subseteq rows[c.backend] /\ own = RowsOf(c.backend, c.scope)
    BY DEF PartFrom, RowsOf
  <1>5. written = Range(c.chunks)
    BY DEF Range
  <1> HIDE DEF c, own, written
  <1>6. Range(c.chunks) \subseteq own
    BY <1>1, <1>2, <1>3 DEF Progress, Range
  <1>7. written # {} => c.chunks # <<>>
    <2>1. c.chunks = <<>> => Range(c.chunks) = {}
      BY DEF Range
    <2> QED  BY <1>5, <2>1
  <1>8. c.kind = "ingest" \/ (c.kind = "agents" /\ written # {}) => own = written
    BY <1>1, <1>2, <1>5, <1>6, <1>7 DEF Progress
  <1>9. c.kind \in {"delete", "all"} => own = {}
    BY <1>1, <1>2 DEF Progress
  <1>10. c.kind = "keyword" => \A r \in rows[c.backend], s \in c.found : ~SameId(r, s)
    <2>1. ASSUME c.kind = "keyword", NEW r \in rows[c.backend], NEW s \in c.found, SameId(r, s)
          PROVE  FALSE
      <3>1. s.source \in c.scope
        BY <1>1, <1>2, <2>1, PhasesDiffer DEF CommandOK
      <3>2. r \in own
        BY <2>1, <3>1 DEF SameId, own, PartFrom
      <3> QED  BY <1>1, <1>2, <2>1, <3>2 DEF Progress
    <2> QED  BY <2>1
  <1>11. written \subseteq rows[c.backend]
    BY <1>4, <1>5, <1>6
  <1> QED  BY <1>4, <1>8, <1>9, <1>10, <1>11 DEF c, written

\* An index holds at most one row for an id, and who runs has rows to write or
\* delete (CliTypeOK).
THEOREM CliTypeCorrect == CliSpec => []CliTypeOK
  <1>1. CliInv => CliTypeOK
    <2> SUFFICES ASSUME CliInv
                 PROVE  CliTypeOK
      OBVIOUS
    <2>1. \A b \in Indexes : rows[b] \subseteq Row /\ \A r, s \in rows[b] : SameId(r, s) => r = s
      BY DEF CliInv, GoodRows
    <2>2. ASSUME NEW p \in Commands
          PROVE  /\ command[p].backend \in Indexes /\ command[p].scope \subseteq Sources
                 /\ {command[p].chunks[i] : i \in DOMAIN command[p].chunks} \subseteq Row
                 /\ command[p].phases # <<>> /\ Head(command[p].phases) \in {"stage", "upsert"}
                       => command[p].at \in DOMAIN command[p].chunks
      <3> DEFINE c == command[p]
      <3>1. CommandOK(c)
        BY DEF CliInv, CommandInv
      <3> HIDE DEF c
      <3>2. /\ c.kind \in CommandKinds /\ c.phases \in PhasesLeft(c.kind, c.chunks # <<>>)
            /\ c.backend \in Indexes /\ c.scope \subseteq Sources
            /\ c.at \in Nat \ {0} /\ Len(c.chunks) \in Nat /\ DOMAIN c.chunks = 1 .. Len(c.chunks)
            /\ \A i \in 1 .. Len(c.chunks) : c.chunks[i] \in Row
            /\ c.chunks # <<>> => c.at =< Len(c.chunks)
        BY <3>1, CommandTyped DEF CommandOK
      <3>3. c.phases # <<>> /\ Head(c.phases) \in {"stage", "upsert"} => c.chunks # <<>>
        BY <3>2, HeadDecides
      <3>4. c.phases # <<>> /\ Head(c.phases) \in {"stage", "upsert"} => c.at \in DOMAIN c.chunks
        BY <3>2, <3>3
      <3> QED  BY <3>2, <3>4 DEF c
    <2> QED  BY <2>1, <2>2 DEF CliTypeOK, CliInv
  <1> QED  BY <1>1, CliInitInv, CliStep, PTL DEF CliSpec

\* A command that ended well has written every chunk it has.
LEMMA TogetherFromInv == CliInv /\ TogetherInv => WholeTogether
  <1> SUFFICES ASSUME CliInv, TogetherInv,
                      NEW b \in Indexes, NEW f \in Files, NEW k \in 1 .. MaxChunks,
                      \E p \in Commands : Puts(command[p], b, f, k) /\ Succeeded(command[p]),
                      \A p \in Commands :
                         Deletes(command[p], b, f) =>
                            Puts(command[p], b, f, k) /\ Succeeded(command[p])
               PROVE  Stored(b, f, k)
    BY DEF WholeTogether
  <1>1. ASSUME NEW p \in Commands, Puts(command[p], b, f, k), Succeeded(command[p])
        PROVE  HasWritten(command[p], b, f, k)
    <2> DEFINE c == command[p]
    <2>1. CommandOK(c)
      BY DEF CliInv, CommandInv
    <2> HIDE DEF c
    <2>2. c.phases = <<>> /\ ~c.failed /\ DOMAIN c.chunks = 1 .. Len(c.chunks)
      BY <1>1, <2>1, CommandTyped DEF Succeeded, CommandOK, c
    <2> QED  BY <1>1, <2>2 DEF Puts, HasWritten, c
  <1>2. \A p \in Commands : ~Owing(command[p], b, f, k)
    BY <1>1 DEF Owing
  <1> QED  BY <1>1, <1>2 DEF TogetherInv, ChunkKept

\* A command that ends well, and that nothing disturbed, has done what it is for;
\* of commands that write and delete the same file side by side, and end well,
\* one has each chunk in the index (SuccessMeansWhole; migrator.ts,
\* migrate-agents.ts, ingest-document.ts, deleter.ts, pinecone-to-pgvector.ts).
THEOREM SuccessIsWhole == CliSpec => []SuccessMeansWhole
  <1>1. CliInv /\ TogetherInv => SuccessMeansWhole
    BY AloneFromInv, TogetherFromInv DEF SuccessMeansWhole
  <1> QED  BY <1>1, CliInitInv, TogetherInit, CliStep, TogetherStep, PTL DEF CliSpec

-----------------------------------------------------------------------------
(* The gateway with one of its plugins or commands at work.                *)

\* What runs is one part, and leaves the others where they are.
LEMMA PartStep ==
    [PluginsNext]_pluginVars =>
       /\ [GuardNext]_guardVars /\ [ServeNext]_serveVars /\ [NotifyNext]_notifyVars
       /\ [EngineNext]_engineVars /\ [CliNext]_cliVars /\ [BulkNext]_bulkVars
  BY DEF PluginsNext, pluginVars, Guard, Serve, NotifyTool, Memory, Cli, Bulk

LEMMA PartInit ==
    PluginsInit => /\ GuardInit /\ ServeInit /\ NotifyInit
                   /\ EngineInit /\ CliInit /\ BulkInit
  BY DEF PluginsInit

\* A behaviour of the gateway is one of each part, so that what is proved of a
\* part holds of it there.
THEOREM PartsImplemented ==
    PluginsSpec => /\ GuardSpec /\ ServeSpec /\ NotifySpec
                   /\ EngineSpec /\ CliSpec /\ BulkSpec
  BY PartInit, PartStep, PTL
     DEF PluginsSpec, GuardSpec, ServeSpec, NotifySpec, EngineSpec, CliSpec, BulkSpec

\* The variables of whatever runs hold what they are for (PluginsTypeOK).
THEOREM PluginsTyped == PluginsSpec => []PluginsTypeOK
  <1>1. GuardTypeOK /\ ServeTypeOK /\ NotifyTypeOK /\ EngineTypeOK /\ CliTypeOK /\ BulkTypeOK
           => PluginsTypeOK
    BY DEF PluginsTypeOK
  <1> QED
    BY <1>1, PartsImplemented, GuardTypeCorrect, ServeTypeCorrect, NotifyTyped,
       EngineTypeCorrect, CliTypeCorrect, BulkTypeCorrect, PTL
=============================================================================
