----------------------- MODULE TranscriptAnalyzerProofs -----------------------
(***************************************************************************)
(* Theorems about transcript-analyzer.  AnalyzeTranscript, for any number  *)
(* of calls, transcripts, chunks and limits: the quotas are kept, what is  *)
(* cached is paid for, and the cap is overshot by calls in progress only.  *)
(* SpendLedger, for any number of processes and any amounts: the file      *)
(* never overcounts, and it implements an exact counter until the lock of  *)
(* a working process is removed.                                           *)
(***************************************************************************)
EXTENDS AnalyzeTranscript, SpendLedger, DataTheorems

-----------------------------------------------------------------------------
(* Quotas.                                                                 *)

\* The code's running total of a call is what Gemini charged for it.
CostsKept == \A c \in Calls : call[c] # Idle => call[c].cost = call[c].billed

Inv == TypeOK /\ CostsKept

LEMMA InitInv == Init => Inv
  BY LimitsAssumption DEF Init, Inv, TypeOK, CostsKept, Entry

\* What TypeOK says of a call in progress.
LEMMA CallTyped ==
    ASSUME TypeOK, NEW c \in Calls, call[c] # Idle
    PROVE  /\ call[c] \in CallState
           /\ call[c].session \in Sessions /\ call[c].key \in Keys
           /\ call[c].day \in 0 .. MaxDay /\ call[c].part \in Nat
           /\ call[c].entry \in Entry
           /\ call[c].cost \in Nat /\ call[c].billed \in Nat
           /\ File(c) \in Files
  <1>1. call[c] \in CallState
    BY DEF TypeOK
  <1>2. call[c].key \in Keys
    BY <1>1 DEF CallState
  <1>3. File(c) \in Files
    BY <1>2 DEF File, Keys
  <1> QED  BY <1>1, <1>3 DEF CallState

\* A call that goes on with a well-formed record, or returns, keeps Inv.
LEMMA CallStep ==
    ASSUME Inv, NEW c \in Calls, NEW new \in CallState \cup {Idle},
           new # Idle => new.cost = new.billed,
           call' = [call EXCEPT ![c] = new]
    PROVE  /\ call' \in [Calls -> CallState \cup {Idle}]
           /\ CostsKept'
  <1>1. call' \in [Calls -> CallState \cup {Idle}]
    BY DEF Inv, TypeOK
  <1>2. \A d \in Calls : call'[d] = IF d = c THEN new ELSE call[d]
    BY DEF Inv, TypeOK
  <1>3. CostsKept'
    BY <1>2 DEF Inv, CostsKept
  <1> QED  BY <1>1, <1>3

LEMMA ChargeTyped ==
    ASSUME NEW r \in CallState, NEW n \in Nat, NEW m \in Nat, n = m
    PROVE  /\ [r EXCEPT !.cost = n, !.billed = m] \in CallState
           /\ [r EXCEPT !.cost = n, !.billed = m].part = r.part
           /\ [r EXCEPT !.cost = n, !.billed = m].cost
                = [r EXCEPT !.cost = n, !.billed = m].billed
  BY DEF CallState

\* The records that the stages of runWithFallback leave behind.
LEMMA StageTyped ==
    ASSUME Inv, NEW c \in Calls, call[c] # Idle, NEW usd \in Nat
    PROVE  /\ \A place \in {"primary", "chunk", "fallback"} :
                 /\ [call[c] EXCEPT !.at = place] \in CallState
                 /\ [call[c] EXCEPT !.at = place].cost = call[c].cost
                 /\ [call[c] EXCEPT !.at = place].billed = call[c].billed
           /\ Charged(c, usd) \in CallState
           /\ Charged(c, usd).cost = Charged(c, usd).billed
           /\ Charged(c, usd).part = call[c].part
  <1> DEFINE r == call[c]
  <1>1. /\ r \in CallState /\ r.cost \in Nat /\ r.billed \in Nat /\ r.cost = r.billed
    BY CallTyped DEF Inv, CostsKept
  <1>2. \A place \in {"primary", "chunk", "fallback"} :
            /\ [r EXCEPT !.at = place] \in CallState
            /\ [r EXCEPT !.at = place].cost = r.cost
            /\ [r EXCEPT !.at = place].billed = r.billed
    BY <1>1 DEF CallState
  <1>3. r.cost + usd \in Nat /\ r.billed + usd \in Nat /\ r.cost + usd = r.billed + usd
    BY <1>1
  <1>4. /\ Charged(c, usd) \in CallState /\ Charged(c, usd).part = r.part
        /\ Charged(c, usd).cost = Charged(c, usd).billed
    BY <1>1, <1>3, ChargeTyped DEF Charged
  <1> QED  BY <1>1, <1>2, <1>4

LEMMA AnsweredTyped ==
    ASSUME NEW r \in CallState, r.cost = r.billed, NEW result \in Entry
    PROVE  /\ Answered(r, result) \in CallState
           /\ Answered(r, result).cost = Answered(r, result).billed
  BY DEF Answered, CallState, Entry

LEMMA NextPartTyped ==
    ASSUME NEW r \in CallState, r.cost = r.billed, NEW n \in Nat
    PROVE  /\ [r EXCEPT !.part = n] \in CallState
           /\ [r EXCEPT !.part = n].cost = [r EXCEPT !.part = n].billed
           /\ [r EXCEPT !.at = "chunk", !.part = n] \in CallState
           /\ [r EXCEPT !.at = "chunk", !.part = n].cost
                = [r EXCEPT !.at = "chunk", !.part = n].billed
           /\ [r EXCEPT !.at = "fallback"] \in CallState
           /\ [r EXCEPT !.at = "fallback"].cost = [r EXCEPT !.at = "fallback"].billed
  BY DEF CallState

HistoryOK == bill \in Nat /\ losses \in 0 .. MaxLosses /\ early \subseteq Calls

\* What the steps do to the history.
LEMMA HistoryKept ==
    ASSUME Inv
    PROVE  /\ UNCHANGED history => HistoryOK'
           /\ \A usd \in Nat : Bill(usd) => HistoryOK'
           /\ \A c \in Calls : Return(c) /\ UNCHANGED <<bill, losses>> => HistoryOK'
           /\ \A c \in Calls : Return(c) /\ Lose(1) /\ bill' = bill => HistoryOK'
  BY LimitsAssumption DEF Inv, TypeOK, HistoryOK, history, Bill, Return, Lose

\* A step that changes calls only.
LEMMA RecordsUnchanged ==
    ASSUME Inv, UNCHANGED records, HistoryOK',
           call' \in [Calls -> CallState \cup {Idle}], CostsKept'
    PROVE  Inv'
  BY DEF Inv, TypeOK, HistoryOK, records

LEMMA StageStep ==
    ASSUME Inv, NEW c \in Calls, NEW usd \in Costs,
           \/ PrimaryAnswers(c, usd) \/ ChunkAnswers(c, usd)
           \/ ChunkUnreadable(c, usd) \/ FallbackAnswers(c, usd)
    PROVE  Inv'
  <1>1. usd \in Nat /\ call[c] # Idle /\ UNCHANGED records
    BY CostsAssumption
       DEF PrimaryAnswers, ChunkAnswers, ChunkUnreadable, FallbackAnswers, At
  <1> DEFINE r == Charged(c, usd)
  <1>2. r \in CallState /\ r.cost = r.billed /\ r.part \in Nat
    BY <1>1, StageTyped, CallTyped DEF Inv
  <1>3. Answered(r, "success") \in CallState
        /\ Answered(r, "success").cost = Answered(r, "success").billed
    BY <1>2, AnsweredTyped DEF Entry
  <1>4. [r EXCEPT !.part = @ + 1] \in CallState
        /\ [r EXCEPT !.part = @ + 1].cost = [r EXCEPT !.part = @ + 1].billed
    <2>1. r.part + 1 \in Nat
      BY <1>2
    <2> HIDE DEF r
    <2> QED  BY <1>2, <2>1, NextPartTyped
  <1>5. [r EXCEPT !.at = "fallback"] \in CallState
        /\ [r EXCEPT !.at = "fallback"].cost = [r EXCEPT !.at = "fallback"].billed
    BY <1>2, NextPartTyped
  <1>6. PICK new \in {Answered(r, "success"), [r EXCEPT !.part = @ + 1],
                      [r EXCEPT !.at = "fallback"]} :
            call' = [call EXCEPT ![c] = new]
    BY DEF PrimaryAnswers, ChunkAnswers, ChunkUnreadable, FallbackAnswers, Go
  <1> HIDE DEF r
  <1>7. new \in CallState /\ new.cost = new.billed
    BY <1>3, <1>4, <1>5, <1>6
  <1>8. HistoryOK'
    BY <1>1, HistoryKept DEF PrimaryAnswers, ChunkAnswers, ChunkUnreadable, FallbackAnswers
  <1> QED  BY <1>1, <1>6, <1>7, <1>8, CallStep, RecordsUnchanged

LEMMA FailureStep ==
    ASSUME Inv, NEW c \in Calls,
           PrimaryFails(c) \/ KeyMissing(c) \/ ChunkFails(c) \/ FallbackFails(c)
    PROVE  Inv'
  <1>1. call[c] # Idle /\ UNCHANGED records
    BY DEF PrimaryFails, KeyMissing, ChunkFails, FallbackFails, At
  <1> DEFINE r == call[c]
  <1>2. r \in CallState /\ r.cost = r.billed
    BY <1>1, CallTyped DEF Inv, CostsKept
  <1>3. Answered(r, "failure") \in CallState
        /\ Answered(r, "failure").cost = Answered(r, "failure").billed
    BY <1>2, AnsweredTyped DEF Entry
  <1>4. /\ [r EXCEPT !.at = "chunk", !.part = 1] \in CallState
        /\ [r EXCEPT !.at = "chunk", !.part = 1].cost
             = [r EXCEPT !.at = "chunk", !.part = 1].billed
        /\ [r EXCEPT !.at = "fallback"] \in CallState
        /\ [r EXCEPT !.at = "fallback"].cost = [r EXCEPT !.at = "fallback"].billed
    BY <1>2, NextPartTyped
  <1>5. PICK new \in {Answered(r, "failure"), [r EXCEPT !.at = "chunk", !.part = 1],
                      [r EXCEPT !.at = "fallback"]} :
            call' = [call EXCEPT ![c] = new]
    BY DEF PrimaryFails, KeyMissing, ChunkFails, FallbackFails, Go
  <1> HIDE DEF r
  <1>6. new \in CallState /\ new.cost = new.billed
    BY <1>3, <1>4, <1>5
  <1>7. HistoryOK'
    BY HistoryKept DEF PrimaryFails, KeyMissing, ChunkFails, FallbackFails, history
  <1> QED  BY <1>1, <1>5, <1>6, <1>7, CallStep, RecordsUnchanged

LEMMA LookupStep ==
    ASSUME Inv, NEW c \in Calls, NEW s \in Sessions, NEW k \in Keys, Lookup(c, s, k)
    PROVE  Inv'
  <1> DEFINE new == [session |-> s, key |-> k, day |-> today, at |-> "lookup",
                     entry |-> cache[k], part |-> 0, cost |-> 0, billed |-> 0]
  <1>1. new \in CallState /\ new.cost = new.billed
    BY DEF Inv, TypeOK, CallState
  <1>2. call' = [call EXCEPT ![c] = new] /\ UNCHANGED records /\ HistoryOK'
    BY HistoryKept DEF Lookup, Go, history
  <1> HIDE DEF new
  <1> QED  BY <1>1, <1>2, CallStep, RecordsUnchanged

LEMMA ReturnStep ==
    ASSUME Inv, NEW c \in Calls, call' = [call EXCEPT ![c] = Idle]
    PROVE  call' \in [Calls -> CallState \cup {Idle}] /\ CostsKept'
  BY CallStep

\* A call is counted only below both limits.
LEMMA AdmitStep ==
    ASSUME Inv, NEW c \in Calls, Admit(c)
    PROVE  Inv'
  <1>1. call[c] # Idle /\ Allowed(c)
    BY DEF Admit, At
  <1>2. /\ call[c].session \in Sessions /\ File(c) \in Files /\ call[c].day \in 0 .. MaxDay
    BY <1>1, CallTyped DEF Inv
  <1> DEFINE new == [call[c] EXCEPT !.at = "primary"]
  <1>3. new \in CallState /\ new.cost = new.billed
    BY <1>1, StageTyped DEF Inv, CostsKept
  <1>4. call' = [call EXCEPT ![c] = new]
    BY DEF Admit, Go
  <1> HIDE DEF new
  <1>5. call' \in [Calls -> CallState \cup {Idle}] /\ CostsKept'
    BY <1>3, <1>4, CallStep
  <1>6. sessions' \in [Sessions -> 0 .. MaxPerSession]
    BY <1>1, <1>2, LimitsAssumption DEF Admit, Allowed, Inv, TypeOK
  <1>7. <<File(c), call[c].day>> \in Files \X (0 .. MaxDay)
    BY <1>2
  <1>8. fileDays' \in [Files \X (0 .. MaxDay) -> 0 .. MaxPerFileDay]
    BY <1>1, <1>7, LimitsAssumption DEF Admit, Allowed, Inv, TypeOK
  <1> QED  BY <1>5, <1>6, <1>8 DEF Admit, Inv, TypeOK, history

LEMMA RecordStep ==
    ASSUME Inv, NEW c \in Calls, Record(c) \/ EntryRefused(c)
    PROVE  Inv'
  <1>1. /\ call[c] # Idle /\ call' = [call EXCEPT ![c] = Idle]
        /\ UNCHANGED <<sessions, fileDays, today, bill, losses>>
    BY DEF Record, EntryRefused, At, Return
  <1>2. call[c].cost \in Nat /\ call[c].entry \in Entry
    BY <1>1, CallTyped DEF Inv
  <1>3. spend' \in Nat
    BY <1>2 DEF Record, EntryRefused, Inv, TypeOK
  <1>4. cache' \in [Keys -> Entry]
    BY <1>2 DEF Record, EntryRefused, Inv, TypeOK
  <1>5. early' \subseteq Calls
    BY DEF Record, EntryRefused, Return, SameKey, Inv, TypeOK
  <1> QED  BY <1>1, <1>3, <1>4, <1>5, ReturnStep DEF Inv, TypeOK

LEMMA InvStep == Inv /\ [Next]_vars => Inv'
  <1> SUFFICES ASSUME Inv, [Next]_vars PROVE Inv'
    OBVIOUS
  <1>1. ASSUME NEW c \in Calls, NEW s \in Sessions, NEW k \in Keys, Lookup(c, s, k)
        PROVE  Inv'
    BY <1>1, LookupStep
  <1>2. ASSUME NEW c \in Calls, Proceed(c)
        PROVE  Inv'
    <2>1. CASE Hit(c) \/ Refuse(c) \/ SpendRefused(c)
      <3>1. HistoryOK'
        BY <2>1, HistoryKept DEF Hit, Refuse, SpendRefused
      <3>2. UNCHANGED records /\ call' = [call EXCEPT ![c] = Idle]
        BY <2>1 DEF Hit, Refuse, SpendRefused, Return
      <3> QED  BY <3>1, <3>2, ReturnStep, RecordsUnchanged
    <2>2. CASE Admit(c)
      BY <2>2, AdmitStep
    <2>3. CASE Record(c) \/ EntryRefused(c)
      BY <2>3, RecordStep
    <2>4. CASE PrimaryFails(c) \/ KeyMissing(c) \/ ChunkFails(c) \/ FallbackFails(c)
      BY <2>4, FailureStep
    <2>5. ASSUME NEW usd \in Costs,
                 \/ PrimaryAnswers(c, usd) \/ ChunkAnswers(c, usd)
                 \/ ChunkUnreadable(c, usd) \/ FallbackAnswers(c, usd)
          PROVE  Inv'
      BY <2>5, StageStep
    <2> QED  BY <1>2, <2>1, <2>2, <2>3, <2>4, <2>5 DEF Proceed
  <1>3. ASSUME NEW k \in Keys, Expire(k)
        PROVE  Inv'
    BY <1>3 DEF Expire, Inv, TypeOK, CostsKept, Entry, history
  <1>4. CASE NextDay
    <2>1. today' \in 0 .. MaxDay
      BY <1>4, LimitsAssumption DEF NextDay, Inv, TypeOK
    <2> QED  BY <1>4, <2>1 DEF NextDay, Inv, TypeOK, CostsKept, history
  <1>5. CASE Restart
    <2>1. losses' \in 0 .. MaxLosses
      <3>1. Cardinality({c \in Calls : Admitted(c)}) \in Nat
        BY FinitelyMany, FS_Subset, FS_CardinalityType
      <3> QED  BY <1>5, <3>1, LimitsAssumption DEF Restart, Lose, Inv, TypeOK
    <2> QED  BY <1>5, <2>1, LimitsAssumption DEF Restart, Inv, TypeOK, CostsKept
  <1>6. CASE UNCHANGED vars
    BY <1>6 DEF vars, Inv, TypeOK, CostsKept
  <1> QED  BY <1>1, <1>2, <1>3, <1>4, <1>5, <1>6 DEF Next

\* The inductive invariant: types with the two call limits in them, and a
\* running cost that is what was charged.
THEOREM AnalyzeInvariant == Spec => []Inv
  BY InitInv, InvStep, PTL DEF Spec

\* No session and no transcript is ever counted beyond its limit, however
\* many calls run at a time.
THEOREM QuotasKept == Spec => []TypeOK
  <1>1. Inv => TypeOK
    BY DEF Inv
  <1> QED  BY <1>1, AnalyzeInvariant, PTL

-----------------------------------------------------------------------------
(* How far the cap can be overshot.                                        *)

MaxCost == Max(Costs)

MaxWorst == Max({WorstCost(f) : f \in Files})

\* Max is the largest element.
LEMMA MaxIsLargest ==
    ASSUME NEW S \in SUBSET Nat, IsFiniteSet(S), S # {}
    PROVE  Max(S) \in S /\ \A n \in S : n =< Max(S)
  <1>1. \E m \in S : \A n \in S : n =< m
    BY LargestExists
  <1>2. \E m \in S : \A n \in S : m >= n
    <2>1. PICK m \in S : \A n \in S : n =< m
      BY <1>1
    <2>2. \A n \in S : m >= n
      BY <2>1
    <2> QED  BY <2>2
  <1>3. Max(S) \in S /\ \A n \in S : Max(S) >= n
    BY <1>2 DEF Max
  <1> QED  BY <1>3

LEMMA MaxCostBounds == MaxCost \in Nat /\ \A usd \in Costs : usd \in Nat /\ usd =< MaxCost
  BY CostsAssumption, MaxIsLargest DEF MaxCost

LEMMA WorstCostIsNat ==
    ASSUME NEW f \in Files
    PROVE  /\ Parts[f] \in Nat \ {0}
           /\ WorstCost(f) \in Nat
           /\ WorstCost(f) = (IF Parts[f] = 1 THEN 1 ELSE Parts[f] + 1) * MaxCost
  BY PartsAssumption, MaxCostBounds DEF WorstCost, MaxCost

LEMMA MaxWorstBounds ==
    ASSUME NEW f \in Files
    PROVE  MaxWorst \in Nat /\ WorstCost(f) =< MaxWorst
  <1> DEFINE S == {WorstCost(g) : g \in Files}
             worst == [g \in Files |-> WorstCost(g)]
  <1>1. S \subseteq Nat /\ WorstCost(f) \in S
    BY WorstCostIsNat
  <1>2. worst \in Surjection(Files, S)
    BY DEF Surjection
  <1>3. IsFiniteSet(S)
    BY <1>2, FinitelyMany, FS_Surjection
  <1> QED  BY <1>1, <1>3, MaxIsLargest DEF MaxWorst

\* What a call has spent so far, by stage: the chunks before the one asked
\* about, all chunks at the fallback model, and then whatever there is.
SpentAtMost(r) ==
    CASE r.at \in {"lookup", "primary"} -> r.cost = 0
      [] r.at = "chunk" -> /\ r.part \in 1 .. Parts[r.key[1]]
                           /\ Parts[r.key[1]] # 1
                           /\ r.cost =< (r.part - 1) * MaxCost
      [] r.at = "fallback" ->
            r.cost =< (IF Parts[r.key[1]] = 1 THEN 0 ELSE Parts[r.key[1]]) * MaxCost
      [] r.at = "answer" -> r.cost =< WorstCost(r.key[1])

CostsBounded == \A c \in Calls : call[c] # Idle => SpentAtMost(call[c])

BoundedInv == Inv /\ CostsBounded

\* One more request of at most m, and the sums of k requests.
LEMMA Requests ==
    ASSUME NEW k \in Nat, NEW m \in Nat
    PROVE  /\ k * m \in Nat
           /\ (k + 1) * m = k * m + m
           /\ 0 * m = 0
           /\ 1 * m = m
  OBVIOUS

LEMMA MoreRequests ==
    ASSUME NEW k \in Nat, NEW j \in Nat, NEW m \in Nat, k =< j
    PROVE  k * m =< j * m
  <1>1. j * m = k * m + (j - k) * m
    OBVIOUS
  <1>2. (j - k) \in Nat /\ k * m \in Nat /\ j * m \in Nat
    OBVIOUS
  <1>3. (j - k) * m \in Nat
    BY <1>2
  <1> DEFINE a == j * m
             b == k * m
             d == (j - k) * m
  <1>4. a = b + d /\ a \in Nat /\ b \in Nat /\ d \in Nat
    BY <1>1, <1>2, <1>3
  <1> HIDE DEF a, b, d
  <1>5. b =< a
    BY <1>4
  <1> QED  BY <1>5 DEF a, b

\* The record of a call after a stage.
LEMMA RecordFields ==
    ASSUME NEW r \in CallState, NEW n \in Nat, NEW m \in Nat,
           NEW place \in {"primary", "chunk", "fallback", "answer"},
           NEW result \in Entry, NEW k \in Nat
    PROVE  LET s == [r EXCEPT !.at = place, !.entry = result, !.part = k,
                              !.cost = n, !.billed = m]
           IN  s.at = place /\ s.part = k /\ s.cost = n /\ s.key = r.key
  BY DEF CallState

\* The limits of a call that may still make a request.
LEMMA OneMoreRequest ==
    ASSUME NEW r \in CallState, NEW f \in Files, f = r.key[1], SpentAtMost(r)
    PROVE  /\ r.at # "answer" => r.cost + MaxCost =< WorstCost(f)
           /\ r.at = "chunk" => /\ r.part \in 1 .. Parts[f]
                                /\ Parts[f] # 1
                                /\ r.cost + MaxCost =< r.part * MaxCost
                                /\ r.cost + MaxCost =< Parts[f] * MaxCost
           /\ r.at = "primary" => r.cost = 0
  <1> DEFINE p == Parts[f]
             n == r.cost
             m == MaxCost
             w == WorstCost(f)
  <1>1. n \in Nat /\ m \in Nat /\ p \in Nat /\ p # 0 /\ w \in Nat
        /\ w = (IF p = 1 THEN 1 ELSE p + 1) * m
    BY MaxCostBounds, WorstCostIsNat DEF CallState
  <1>2. r.at \in {"lookup", "primary", "chunk", "fallback", "answer"} /\ r.part \in Nat
    BY DEF CallState
  <1>3. p * m \in Nat /\ (p + 1) * m = p * m + m /\ 1 * m = m /\ 0 * m = 0
    BY <1>1, Requests
  <1>4. CASE r.at \in {"lookup", "primary"}
    <2>1. n = 0
      BY <1>4 DEF SpentAtMost
    <2>2. m =< w
      BY <1>1, <1>3
    <2> QED  BY <1>1, <1>4, <2>1, <2>2
  <1>5. CASE r.at = "chunk"
    <2> DEFINE k == r.part - 1
    <2>1. r.part \in 1 .. p /\ p # 1 /\ n =< k * m
      BY <1>5 DEF SpentAtMost
    <2>2. k \in Nat /\ k + 1 = r.part /\ k + 1 =< p
      BY <1>1, <2>1
    <2>3. k * m \in Nat /\ (k + 1) * m = k * m + m
      BY <1>1, <2>2, Requests
    <2>4. (k + 1) * m =< p * m
      BY <1>1, <2>2, MoreRequests
    <2>5. w = p * m + m
      BY <1>1, <1>3, <2>1
    <2> DEFINE a == p * m
               b == k * m
               c == (k + 1) * m
    <2>6. a \in Nat /\ b \in Nat /\ c = b + m /\ c =< a /\ n =< b /\ w = a + m
          /\ r.part * m = c
      BY <1>3, <2>1, <2>2, <2>3, <2>4, <2>5
    <2> HIDE DEF a, b, c
    <2>7. n + m =< c /\ n + m =< a /\ n + m =< w
      BY <1>1, <2>6
    <2>8. n + m =< r.part * m /\ n + m =< p * m
      BY <2>6, <2>7 DEF a
    <2> QED  BY <1>5, <2>1, <2>7, <2>8
  <1>6. CASE r.at = "fallback"
    <2>1. n =< (IF p = 1 THEN 0 ELSE p) * m
      BY <1>6 DEF SpentAtMost
    <2>2. n + m =< w
      BY <1>1, <1>3, <2>1
    <2> QED  BY <1>6, <2>2
  <1>7. CASE r.at = "answer"
    BY <1>7
  <1> QED  BY <1>2, <1>4, <1>5, <1>6, <1>7

\* A call that goes on with a record within its limits keeps all calls so.
LEMMA BoundedCall ==
    ASSUME BoundedInv, NEW c \in Calls, NEW new \in CallState \cup {Idle},
           new # Idle => SpentAtMost(new),
           call' = [call EXCEPT ![c] = new]
    PROVE  CostsBounded'
  <1>1. \A d \in Calls : call'[d] = IF d = c THEN new ELSE call[d]
    BY DEF BoundedInv, Inv, TypeOK
  <1> QED  BY <1>1 DEF BoundedInv, CostsBounded

\* What SpentAtMost asks of a call, stage by stage.
LEMMA SpentPrimary ==
    ASSUME NEW r \in CallState, r.at \in {"lookup", "primary"}
    PROVE  SpentAtMost(r) <=> r.cost = 0
  BY DEF SpentAtMost

LEMMA SpentAnswer ==
    ASSUME NEW r \in CallState, r.at = "answer"
    PROVE  SpentAtMost(r) <=> r.cost =< WorstCost(r.key[1])
  BY DEF SpentAtMost

LEMMA SpentFallback ==
    ASSUME NEW r \in CallState, r.at = "fallback"
    PROVE  SpentAtMost(r) <=>
              r.cost =< (IF Parts[r.key[1]] = 1 THEN 0 ELSE Parts[r.key[1]]) * MaxCost
  BY DEF SpentAtMost

LEMMA SpentChunk ==
    ASSUME NEW r \in CallState, r.at = "chunk"
    PROVE  SpentAtMost(r) <=> /\ r.part \in 1 .. Parts[r.key[1]]
                              /\ Parts[r.key[1]] # 1
                              /\ r.cost =< (r.part - 1) * MaxCost
  BY DEF SpentAtMost

\* The requests that Gemini answers.
LEMMA AnswersBounded ==
    ASSUME BoundedInv, NEW c \in Calls, NEW usd \in Costs,
           \/ PrimaryAnswers(c, usd) \/ ChunkAnswers(c, usd)
           \/ ChunkUnreadable(c, usd) \/ FallbackAnswers(c, usd)
    PROVE  \E new \in CallState :
              /\ SpentAtMost(new) /\ new.key = call[c].key /\ new.at # "lookup"
              /\ new.cost = call[c].cost + usd
              /\ call' = [call EXCEPT ![c] = new]
  <1>1. /\ call[c] # Idle /\ call[c].at \in {"primary", "chunk", "fallback"}
        /\ ChunkAnswers(c, usd) \/ ChunkUnreadable(c, usd) => call[c].at = "chunk"
    BY DEF PrimaryAnswers, ChunkAnswers, ChunkUnreadable, FallbackAnswers, At
  <1> DEFINE r == call[c]
             f == File(c)
             s == Charged(c, usd)
             m == MaxCost
  <1>2. /\ r \in CallState /\ f \in Files /\ f = r.key[1] /\ r.cost \in Nat /\ r.part \in Nat
        /\ SpentAtMost(r)
    BY <1>1, CallTyped DEF BoundedInv, Inv, CostsBounded, File
  <1>3. usd \in Nat /\ usd =< m /\ m \in Nat
    BY MaxCostBounds
  <1>4. s \in CallState
    BY <1>1, <1>3, StageTyped DEF BoundedInv
  <1>5. s.cost = r.cost + usd /\ s.key = r.key /\ s.at = r.at /\ s.part = r.part
    BY <1>2, <1>3 DEF Charged, CallState
  <1>6. /\ r.cost + m =< WorstCost(f)
        /\ r.at = "chunk" => /\ r.part \in 1 .. Parts[f]
                             /\ Parts[f] # 1
                             /\ r.cost + m =< r.part * m
                             /\ r.cost + m =< Parts[f] * m
    BY <1>1, <1>2, OneMoreRequest
  <1>7. WorstCost(f) \in Nat /\ Parts[f] \in Nat
    BY <1>2, WorstCostIsNat
  <1> DEFINE answer == Answered(s, "success")
             next == [s EXCEPT !.part = @ + 1]
             retry == [s EXCEPT !.at = "fallback"]
  <1>8. \/ call' = [call EXCEPT ![c] = answer]
        \/ /\ call' = [call EXCEPT ![c] = next]
           /\ r.at = "chunk" /\ r.part # Parts[f]
        \/ call' = [call EXCEPT ![c] = retry] /\ r.at = "chunk"
    BY <1>1 DEF PrimaryAnswers, ChunkAnswers, ChunkUnreadable, FallbackAnswers, Go
  <1> HIDE DEF r, f, s, m
  <1>9. /\ answer \in CallState /\ answer.key = s.key
        /\ answer.at = "answer" /\ answer.cost = s.cost
    BY <1>4 DEF Answered, CallState, Entry
  <1>10. SpentAtMost(answer)
    <2>1. s.cost =< WorstCost(f)
      BY <1>2, <1>3, <1>5, <1>6, <1>7
    <2> HIDE DEF answer
    <2> QED  BY <1>2, <1>5, <1>9, <2>1, SpentAnswer
  <1>11. ASSUME r.at = "chunk", r.part # Parts[f]
         PROVE  /\ SpentAtMost(next) /\ next \in CallState /\ next.key = s.key
                /\ next.at = "chunk" /\ next.cost = s.cost
    <2>1. s.part \in Nat /\ s.part + 1 \in Nat
      BY <1>2, <1>5
    <2>2. /\ next \in CallState /\ next.key = s.key /\ next.at = "chunk"
          /\ next.cost = s.cost /\ next.part = s.part + 1
      BY <1>4, <1>5, <1>11, <2>1 DEF CallState
    <2>3. next.part \in 1 .. Parts[f] /\ next.part - 1 = r.part
      BY <1>2, <1>5, <1>6, <1>7, <1>11, <2>2
    <2> DEFINE k == r.part * m
    <2>4. k \in Nat /\ r.cost + m =< k
      BY <1>2, <1>3, <1>6, <1>11, Requests
    <2> HIDE DEF k
    <2>5. s.cost =< k
      BY <1>2, <1>3, <1>5, <2>4
    <2>6. next.cost =< (next.part - 1) * m
      BY <2>2, <2>3, <2>5 DEF k
    <2> HIDE DEF next
    <2> QED  BY <1>2, <1>5, <1>6, <1>11, <2>2, <2>3, <2>6, SpentChunk DEF m
  <1>12. ASSUME r.at = "chunk"
         PROVE  SpentAtMost(retry) /\ retry \in CallState /\ retry.key = s.key
                /\ retry.at = "fallback" /\ retry.cost = s.cost
    <2>1. /\ retry \in CallState /\ retry.key = s.key /\ retry.at = "fallback"
          /\ retry.cost = s.cost
      BY <1>4 DEF CallState
    <2> DEFINE k == Parts[f] * m
    <2>2. k \in Nat /\ r.cost + m =< k /\ Parts[f] # 1
      BY <1>3, <1>6, <1>7, <1>12, Requests
    <2> HIDE DEF k
    <2>3. s.cost =< k
      BY <1>2, <1>3, <1>5, <2>2
    <2> HIDE DEF retry
    <2> QED  BY <1>2, <1>5, <2>1, <2>2, <2>3, SpentFallback DEF k, m
  <1> HIDE DEF answer, next, retry
  <1> QED  BY <1>5, <1>8, <1>9, <1>10, <1>11, <1>12 DEF r

\* The requests that fail.
LEMMA FailuresBounded ==
    ASSUME BoundedInv, NEW c \in Calls,
           PrimaryFails(c) \/ KeyMissing(c) \/ ChunkFails(c) \/ FallbackFails(c)
    PROVE  \E new \in CallState :
              /\ SpentAtMost(new) /\ new.key = call[c].key /\ new.at # "lookup"
              /\ new.cost = call[c].cost
              /\ call' = [call EXCEPT ![c] = new]
  <1>1. call[c] # Idle /\ call[c].at \in {"primary", "chunk", "fallback"}
    BY DEF PrimaryFails, KeyMissing, ChunkFails, FallbackFails, At
  <1> DEFINE r == call[c]
             f == File(c)
             m == MaxCost
  <1>2. /\ r \in CallState /\ f \in Files /\ f = r.key[1] /\ r.cost \in Nat
        /\ SpentAtMost(r)
    BY <1>1, CallTyped DEF BoundedInv, Inv, CostsBounded, File
  <1>3. m \in Nat /\ WorstCost(f) \in Nat /\ Parts[f] \in Nat \ {0}
    BY <1>2, MaxCostBounds, WorstCostIsNat
  <1>4. /\ r.cost + m =< WorstCost(f)
        /\ r.at = "chunk" => Parts[f] # 1 /\ r.cost + m =< Parts[f] * m
        /\ r.at = "primary" => r.cost = 0
    BY <1>1, <1>2, OneMoreRequest
  <1> DEFINE answer == Answered(r, "failure")
             split == [r EXCEPT !.at = "chunk", !.part = 1]
             retry == [r EXCEPT !.at = "fallback"]
  <1>5. \/ call' = [call EXCEPT ![c] = answer]
        \/ call' = [call EXCEPT ![c] = split] /\ r.at = "primary" /\ Parts[f] # 1
        \/ /\ call' = [call EXCEPT ![c] = retry]
           /\ r.at = "chunk" \/ (r.at = "primary" /\ Parts[f] = 1)
    BY <1>1 DEF PrimaryFails, KeyMissing, ChunkFails, FallbackFails, Go, At
  <1> HIDE DEF r, f, m
  <1>6. /\ answer \in CallState /\ answer.key = r.key
        /\ answer.at = "answer" /\ answer.cost = r.cost
    BY <1>2 DEF Answered, CallState, Entry
  <1>7. SpentAtMost(answer)
    <2>1. r.cost =< WorstCost(f)
      BY <1>2, <1>3, <1>4
    <2> HIDE DEF answer
    <2> QED  BY <1>2, <1>6, <2>1, SpentAnswer
  <1>8. ASSUME r.at = "primary", Parts[f] # 1
        PROVE  SpentAtMost(split) /\ split \in CallState /\ split.key = r.key
               /\ split.at = "chunk" /\ split.cost = r.cost
    <2>1. /\ split \in CallState /\ split.key = r.key /\ split.at = "chunk"
          /\ split.part = 1 /\ split.cost = r.cost
      BY <1>2 DEF CallState
    <2>2. split.cost = 0 /\ (split.part - 1) * m = 0
      BY <1>3, <1>4, <1>8, <2>1
    <2>3. split.part \in 1 .. Parts[f]
      BY <1>3, <2>1
    <2> HIDE DEF split
    <2> QED  BY <1>2, <1>8, <2>1, <2>2, <2>3, SpentChunk DEF m
  <1>9. ASSUME r.at = "chunk" \/ (r.at = "primary" /\ Parts[f] = 1)
        PROVE  SpentAtMost(retry) /\ retry \in CallState /\ retry.key = r.key
               /\ retry.at = "fallback" /\ retry.cost = r.cost
    <2>1. /\ retry \in CallState /\ retry.key = r.key /\ retry.at = "fallback"
          /\ retry.cost = r.cost
      BY <1>2 DEF CallState
    <2> DEFINE k == Parts[f] * m
    <2>2. k \in Nat /\ 0 * m = 0
      BY <1>3, Requests
    <2>3. r.at = "chunk" => Parts[f] # 1 /\ r.cost + m =< k
      BY <1>4
    <2> HIDE DEF k
    <2>4. IF Parts[f] = 1 THEN r.cost = 0 ELSE r.cost =< k
      BY <1>2, <1>3, <1>4, <1>9, <2>2, <2>3
    <2>5. r.cost =< (IF Parts[f] = 1 THEN 0 ELSE Parts[f]) * m
      BY <2>2, <2>4 DEF k
    <2> HIDE DEF retry
    <2> QED  BY <1>2, <2>1, <2>5, SpentFallback DEF m
  <1> HIDE DEF answer, split, retry
  <1> QED  BY <1>5, <1>6, <1>7, <1>8, <1>9 DEF r

\* What a call with the given record may still add to the spend.
Risk(r) == IF r # Idle /\ r.at # "lookup" THEN WorstCost(r.key[1]) ELSE 0

LEMMA RiskBounds ==
    ASSUME NEW r \in CallState \cup {Idle}
    PROVE  Risk(r) \in Nat /\ Risk(r) =< MaxWorst /\ MaxWorst \in Nat
  <1>1. MaxWorst \in Nat
    BY FinitelyMany, MaxWorstBounds
  <1>2. CASE r # Idle
    <2>1. r.key[1] \in Files
      BY <1>2 DEF CallState, Keys
    <2> QED  BY <1>1, <2>1, WorstCostIsNat, MaxWorstBounds DEF Risk
  <1> QED  BY <1>1, <1>2 DEF Risk

LEMMA AtRiskIsRisk ==
    ASSUME NEW c \in Calls
    PROVE  AtRisk(c) = Risk(call[c]) /\ AtRisk(c)' = Risk(call'[c])
  BY DEF AtRisk, Risk, Admitted, File

\* One call goes on: the exposure changes by what that call may still add.
LEMMA ExposureStep ==
    ASSUME TypeOK, NEW c \in Calls, NEW new \in CallState \cup {Idle},
           call' = [call EXCEPT ![c] = new]
    PROVE  /\ Exposure \in Nat /\ Exposure' \in Nat
           /\ Exposure' = Exposure - Risk(call[c]) + Risk(new)
           /\ Exposure' =< Cardinality(Calls) * MaxWorst
  <1> DEFINE f == [d \in Calls |-> AtRisk(d)]
             g == [d \in Calls |-> AtRisk(d)']
  <1>1. \A d \in Calls : call[d] \in CallState \cup {Idle}
    BY DEF TypeOK
  <1>2. \A d \in Calls : call'[d] = IF d = c THEN new ELSE call[d]
    BY DEF TypeOK
  <1>3. \A d \in Calls : f[d] = Risk(call[d]) /\ g[d] = Risk(call'[d])
    BY AtRiskIsRisk
  <1>4. /\ \A d \in Calls : f[d] \in Nat
        /\ g[c] = Risk(new) /\ g[c] \in Nat
        /\ \A d \in Calls \ {c} : g[d] = f[d]
    BY <1>1, <1>2, <1>3, RiskBounds
  <1>5. Summable(f, Calls)
    BY <1>4, FinitelyMany DEF Summable
  <1>6. \A d \in Calls : g[d] =< MaxWorst
    BY <1>1, <1>2, <1>3, RiskBounds
  <1>7. Exposure = SumOver(f, Calls) /\ Exposure' = SumOver(g, Calls)
    BY DEF Exposure
  <1> HIDE DEF f, g
  <1>8. Summable(g, Calls) /\ SumOver(g, Calls) + f[c] = SumOver(f, Calls) + g[c]
    <2>1. g[c] \in Nat /\ \A t \in Calls \ {c} : g[t] = f[t]
      BY <1>4
    <2>2. PICK h, k : h = f /\ k = g
      OBVIOUS
    <2>3. Summable(h, Calls) /\ DifferAt(h, k, Calls, c)
      BY <1>5, <2>1, <2>2 DEF DifferAt
    <2>4. Summable(k, Calls) /\ SumOver(k, Calls) + h[c] = SumOver(h, Calls) + k[c]
      BY <2>3, SumChanges
    <2> QED  BY <2>2, <2>4
  <1>9. MaxWorst \in Nat
    BY RiskBounds
  <1>10. SumOver(g, Calls) =< Cardinality(Calls) * MaxWorst
    BY <1>6, <1>8, <1>9, SumBounded
  <1>11. SumOver(f, Calls) \in Nat /\ SumOver(g, Calls) \in Nat /\ f[c] \in Nat /\ g[c] \in Nat
    BY <1>4, <1>5, <1>8, SumIsNat
  <1>12. SumOver(g, Calls) = SumOver(f, Calls) - f[c] + g[c]
    BY <1>8, <1>11
  <1>13. f[c] = Risk(call[c]) /\ g[c] = Risk(new)
    BY <1>3, <1>4
  <1> QED  BY <1>7, <1>10, <1>11, <1>12, <1>13

LEMMA NoneExposed ==
    ASSUME \A c \in Calls : call[c] = Idle
    PROVE  Exposure = 0
  <1> DEFINE f == [d \in Calls |-> AtRisk(d)]
  <1>1. \A d \in Calls : f[d] = 0
    BY DEF AtRisk, Admitted
  <1>2. Units(f, Calls) = {}
    BY <1>1 DEF Units
  <1> QED  BY <1>2, FS_EmptySet DEF Exposure, SumOver

LEMMA ExposureIsNat ==
    ASSUME TypeOK
    PROVE  Exposure \in Nat
  <1> DEFINE f == [d \in Calls |-> AtRisk(d)]
  <1>1. \A d \in Calls : f[d] \in Nat
    BY AtRiskIsRisk, RiskBounds DEF TypeOK
  <1>2. Summable(f, Calls)
    BY <1>1, FinitelyMany DEF Summable
  <1> HIDE DEF f
  <1>3. SumOver(f, Calls) \in Nat
    BY <1>2, SumIsNat
  <1> QED  BY <1>3 DEF f, Exposure

OvershootLimit == SpendCap + Cardinality(Calls) * MaxWorst

LEMMA OvershootLimitIsNat == OvershootLimit \in Nat
  <1>1. Cardinality(Calls) \in Nat /\ MaxWorst \in Nat
    BY FinitelyMany, FS_CardinalityType, MaxWorstBounds
  <1>2. Cardinality(Calls) * MaxWorst \in Nat
    BY <1>1, Requests
  <1> QED  BY <1>2, LimitsAssumption DEF OvershootLimit

\* The arithmetic of the next two lemmas.
LEMMA CostMoves ==
    ASSUME NEW s \in Nat, NEW t \in Nat, NEW x \in Nat, NEW y \in Nat,
           NEW a \in Nat, NEW b \in Nat, y = x - a + b, t + b =< s + a
    PROVE  t + y =< s + x
  OBVIOUS

LEMMA StillBelow ==
    ASSUME NEW s \in Nat, NEW t \in Nat, NEW x \in Nat, NEW y \in Nat,
           NEW l \in Nat, t + y =< s + x, (s = 0 /\ x = 0) \/ s + x < l
    PROVE  (t = 0 /\ y = 0) \/ t + y < l
  OBVIOUS

\* A step that moves the cost of a call from its exposure to the spend.
LEMMA NoMoreExposed ==
    ASSUME TypeOK, OvershootBounded, spend' \in Nat, Exposure' \in Nat,
           spend' + Exposure' =< spend + Exposure
    PROVE  OvershootBounded'
  <1>1. spend \in Nat /\ Exposure \in Nat /\ OvershootLimit \in Nat
    BY ExposureIsNat, OvershootLimitIsNat DEF TypeOK
  <1>2. OvershootBounded <=> \/ spend = 0 /\ Exposure = 0
                             \/ spend + Exposure < OvershootLimit
    BY DEF OvershootBounded, OvershootLimit, MaxWorst
  <1>3. OvershootBounded' <=> \/ spend' = 0 /\ Exposure' = 0
                              \/ spend' + Exposure' < OvershootLimit
    BY DEF OvershootBounded, OvershootLimit, MaxWorst
  <1> DEFINE x == Exposure
             y == Exposure'
             l == OvershootLimit
  <1>4. x \in Nat /\ y \in Nat /\ l \in Nat /\ spend' + y =< spend + x
    BY <1>1
  <1>5. \/ spend = 0 /\ x = 0
        \/ spend + x < l
    BY <1>2
  <1> HIDE DEF x, y, l
  <1>6. \/ spend' = 0 /\ y = 0
        \/ spend' + y < l
    BY <1>1, <1>4, <1>5, StillBelow
  <1> QED  BY <1>3, <1>6 DEF y, l

\* A call that is only asked about next, or gives up, or is recorded.
LEMMA CallOvershoot ==
    ASSUME TypeOK, OvershootBounded, NEW c \in Calls, NEW new \in CallState \cup {Idle},
           call' = [call EXCEPT ![c] = new], spend' \in Nat,
           spend' + Risk(new) =< spend + Risk(call[c])
    PROVE  OvershootBounded'
  <1> DEFINE x == Exposure
             y == Exposure'
             a == Risk(call[c])
             b == Risk(new)
  <1>1. x \in Nat /\ y \in Nat /\ y = x - a + b
    BY ExposureStep
  <1>2. a \in Nat /\ b \in Nat /\ spend \in Nat /\ spend' + b =< spend + a
    BY RiskBounds DEF TypeOK
  <1>3. spend' + y =< spend + x
    <2> HIDE DEF x, y, a, b
    <2> QED  BY <1>1, <1>2, CostMoves
  <1> QED  BY <1>1, <1>3, NoMoreExposed

\* The quota is asked before a call is exposed at all.
LEMMA AdmittedOvershoot ==
    ASSUME BoundedInv, NEW c \in Calls, Admit(c)
    PROVE  OvershootBounded' /\ CostsBounded'
  <1> DEFINE r == call[c]
             new == [r EXCEPT !.at = "primary"]
  <1>1. /\ r # Idle /\ r.at = "lookup" /\ spend < SpendCap /\ spend' = spend
        /\ call' = [call EXCEPT ![c] = new]
    BY DEF Admit, At, Allowed, Go
  <1>2. r \in CallState /\ SpentAtMost(r)
    BY <1>1, CallTyped DEF BoundedInv, Inv, CostsBounded
  <1>3. new \in CallState /\ new.at = "primary" /\ new.cost = r.cost
    BY <1>2 DEF CallState
  <1>4. SpentAtMost(new)
    <2>1. r.cost = 0
      BY <1>1, <1>2, SpentPrimary
    <2> HIDE DEF new
    <2> QED  BY <1>3, <2>1, SpentPrimary
  <1> HIDE DEF new
  <1>5. CostsBounded'
    BY <1>1, <1>3, <1>4, BoundedCall
  <1>6. Exposure' \in Nat /\ Exposure' =< Cardinality(Calls) * MaxWorst
    BY <1>1, <1>3, ExposureStep DEF BoundedInv, Inv
  <1>7. spend \in Nat /\ SpendCap \in Nat
    BY LimitsAssumption DEF BoundedInv, Inv, TypeOK
  <1>8. Cardinality(Calls) * MaxWorst \in Nat
    BY FinitelyMany, FS_CardinalityType, MaxWorstBounds, Requests
  <1> DEFINE y == Exposure'
             k == Cardinality(Calls) * MaxWorst
  <1>9. y \in Nat /\ k \in Nat /\ y =< k
    BY <1>6, <1>8
  <1>10. spend' + y < SpendCap + k
    <2> HIDE DEF y, k
    <2> QED  BY <1>1, <1>7, <1>9
  <1> QED  BY <1>5, <1>10 DEF OvershootBounded, MaxWorst

\* One call goes on with the transcript it was admitted for.
LEMMA StageOvershoot ==
    ASSUME BoundedInv, OvershootBounded, NEW c \in Calls, NEW new \in CallState,
           call[c] # Idle, call[c].at # "lookup", UNCHANGED records,
           SpentAtMost(new), new.key = call[c].key, new.at # "lookup",
           call' = [call EXCEPT ![c] = new]
    PROVE  OvershootBounded' /\ CostsBounded'
  <1>1. CostsBounded'
    BY BoundedCall
  <1>2. new # Idle
    BY IdleAssumption
  <1>3. Risk(new) = Risk(call[c])
    BY <1>2 DEF Risk
  <1>4. TypeOK /\ spend' = spend /\ spend \in Nat /\ Risk(new) \in Nat
    BY RiskBounds DEF BoundedInv, Inv, TypeOK, records
  <1>5. spend' + Risk(new) =< spend + Risk(call[c])
    BY <1>3, <1>4
  <1> QED  BY <1>1, <1>4, <1>5, CallOvershoot

\* A call ends: what it cost is added to the spend, or thrown away.
LEMMA EndOvershoot ==
    ASSUME BoundedInv, OvershootBounded, NEW c \in Calls, call[c] # Idle,
           call' = [call EXCEPT ![c] = Idle],
           \/ spend' = spend
           \/ call[c].at = "answer" /\ spend' = spend + call[c].cost
    PROVE  OvershootBounded' /\ CostsBounded'
  <1>1. Idle \in CallState \cup {Idle}
    OBVIOUS
  <1>2. CostsBounded'
    BY <1>1, BoundedCall
  <1>3. call[c] \in CallState /\ call[c].cost \in Nat /\ spend \in Nat
    BY CallTyped DEF BoundedInv, Inv, TypeOK
  <1>4. Risk(call[c]) \in Nat /\ Risk(Idle) = 0
    BY <1>3, RiskBounds DEF Risk
  <1>5. ASSUME call[c].at = "answer"
        PROVE  call[c].cost =< Risk(call[c])
    BY <1>3, <1>5, SpentAnswer DEF BoundedInv, CostsBounded, Risk
  <1>6. spend' \in Nat /\ spend' + Risk(Idle) =< spend + Risk(call[c])
    BY <1>3, <1>4, <1>5
  <1> QED  BY <1>1, <1>2, <1>6, CallOvershoot DEF BoundedInv, Inv

LEMMA LookupOvershoot ==
    ASSUME BoundedInv, OvershootBounded, NEW c \in Calls, NEW s \in Sessions,
           NEW k \in Keys, Lookup(c, s, k)
    PROVE  OvershootBounded' /\ CostsBounded'
  <1> DEFINE new == [session |-> s, key |-> k, day |-> today, at |-> "lookup",
                     entry |-> cache[k], part |-> 0, cost |-> 0, billed |-> 0]
  <1>1. new \in CallState /\ new.at = "lookup" /\ new.cost = 0
    BY DEF BoundedInv, Inv, TypeOK, CallState
  <1>2. call' = [call EXCEPT ![c] = new] /\ call[c] = Idle /\ spend' = spend
    BY DEF Lookup, Go, records
  <1> HIDE DEF new
  <1>3. CostsBounded'
    BY <1>1, <1>2, BoundedCall, SpentPrimary
  <1>4. Risk(new) = 0 /\ Risk(call[c]) = 0 /\ spend \in Nat
    BY <1>1, <1>2 DEF Risk, BoundedInv, Inv, TypeOK
  <1>5. spend' \in Nat /\ spend' + Risk(new) =< spend + Risk(call[c])
    BY <1>2, <1>4
  <1> QED  BY <1>1, <1>2, <1>3, <1>5, CallOvershoot DEF BoundedInv, Inv

\* Nothing changes but records that the cap does not depend on.
LEMMA SameExposure ==
    ASSUME BoundedInv, OvershootBounded, UNCHANGED <<call, spend>>
    PROVE  OvershootBounded' /\ CostsBounded'
  <1>1. Exposure' = Exposure
    BY DEF Exposure, AtRisk, Admitted, File
  <1> QED  BY <1>1 DEF OvershootBounded, BoundedInv, CostsBounded

OvershootInv == BoundedInv /\ OvershootBounded

LEMMA InitOvershoot == Init => OvershootInv
  <1> SUFFICES ASSUME Init PROVE OvershootInv
    OBVIOUS
  <1>1. \A c \in Calls : call[c] = Idle
    BY DEF Init
  <1>2. OvershootBounded /\ CostsBounded
    BY <1>1, NoneExposed DEF Init, OvershootBounded, CostsBounded
  <1> QED  BY <1>2, InitInv DEF OvershootInv, BoundedInv

LEMMA OvershootStep == OvershootInv /\ [Next]_vars => OvershootInv'
  <1> SUFFICES ASSUME OvershootInv, [Next]_vars PROVE OvershootBounded' /\ CostsBounded'
    BY InvStep DEF OvershootInv, BoundedInv
  <1> USE DEF OvershootInv
  <1>1. ASSUME NEW c \in Calls, NEW s \in Sessions, NEW k \in Keys, Lookup(c, s, k)
        PROVE  OvershootBounded' /\ CostsBounded'
    BY <1>1, LookupOvershoot
  <1>2. ASSUME NEW c \in Calls, Proceed(c)
        PROVE  OvershootBounded' /\ CostsBounded'
    <2>1. CASE Hit(c) \/ Refuse(c) \/ SpendRefused(c)
      BY <2>1, EndOvershoot DEF Hit, Refuse, SpendRefused, At, Return, records
    <2>2. CASE Admit(c)
      BY <2>2, AdmittedOvershoot
    <2>3. CASE Record(c) \/ EntryRefused(c)
      BY <2>3, EndOvershoot DEF Record, EntryRefused, At, Return
    <2>4. CASE PrimaryFails(c) \/ KeyMissing(c) \/ ChunkFails(c) \/ FallbackFails(c)
      <3>1. call[c] # Idle /\ call[c].at # "lookup" /\ UNCHANGED records
        BY <2>4 DEF PrimaryFails, KeyMissing, ChunkFails, FallbackFails, At
      <3> QED  BY <2>4, <3>1, FailuresBounded, StageOvershoot
    <2>5. ASSUME NEW usd \in Costs,
                 \/ PrimaryAnswers(c, usd) \/ ChunkAnswers(c, usd)
                 \/ ChunkUnreadable(c, usd) \/ FallbackAnswers(c, usd)
          PROVE  OvershootBounded' /\ CostsBounded'
      <3>1. call[c] # Idle /\ call[c].at # "lookup" /\ UNCHANGED records
        BY <2>5 DEF PrimaryAnswers, ChunkAnswers, ChunkUnreadable, FallbackAnswers, At
      <3> QED  BY <2>5, <3>1, AnswersBounded, StageOvershoot
    <2> QED  BY <1>2, <2>1, <2>2, <2>3, <2>4, <2>5 DEF Proceed
  <1>3. CASE NextDay \/ \E k \in Keys : Expire(k)
    BY <1>3, SameExposure DEF NextDay, Expire
  <1>4. CASE Restart
    <2>1. /\ \A c \in Calls : call'[c] = Idle
          /\ spend' = spend
      BY <1>4 DEF Restart
    <2>2. Exposure' = 0
      <3> DEFINE f == [d \in Calls |-> AtRisk(d)']
      <3>1. \A d \in Calls : f[d] = 0
        BY <2>1, AtRiskIsRisk DEF Risk
      <3>2. Units(f, Calls) = {}
        BY <3>1 DEF Units
      <3> QED  BY <3>2, FS_EmptySet DEF Exposure, SumOver
    <2>3. Exposure' \in Nat /\ spend' \in Nat /\ spend' + Exposure' =< spend + Exposure
      BY <2>1, <2>2, ExposureIsNat DEF BoundedInv, Inv, TypeOK
    <2>4. CostsBounded'
      BY <2>1 DEF CostsBounded
    <2> QED  BY <2>3, <2>4, NoMoreExposed DEF BoundedInv, Inv
  <1>5. CASE UNCHANGED vars
    BY <1>5, SameExposure DEF vars
  <1> QED  BY <1>1, <1>2, <1>3, <1>4, <1>5 DEF Next

\* The monthly cap is overshot by at most what the calls in progress may
\* cost, for any number of calls, chunks, prices and restarts.
THEOREM OvershootIsBounded == Spec => []OvershootBounded
  <1>1. OvershootInv => OvershootBounded
    BY DEF OvershootInv
  <1> QED  BY <1>1, InitOvershoot, OvershootStep, PTL DEF Spec

-----------------------------------------------------------------------------
(* Who writes a cached entry. *)

\* A call that found no entry, and now would find one, is an early one.
EarlyKept ==
    \A c \in Calls :
        /\ call[c] # Idle
        /\ call[c].at = "lookup" => call[c].entry = "none"
        /\ cache[call[c].key] # "none"
        => c \in early

\* One call goes on, from a stage or from a lookup that found nothing.
LEMMA EarlyGoesOn ==
    ASSUME TypeOK, EarlyKept, UNCHANGED <<cache, early>>, NEW c \in Calls, call[c] # Idle,
           call[c].at = "lookup" => call[c].entry = "none",
           NEW new, new.key = call[c].key, call' = [call EXCEPT ![c] = new]
    PROVE  EarlyKept'
  <1>1. \A d \in Calls : call'[d] = IF d = c THEN new ELSE call[d]
    BY DEF TypeOK
  <1> QED  BY <1>1 DEF EarlyKept

LEMMA EarlyEnds ==
    ASSUME TypeOK, EarlyKept, UNCHANGED cache, NEW c \in Calls, Return(c)
    PROVE  EarlyKept'
  <1>1. \A d \in Calls : call'[d] = IF d = c THEN Idle ELSE call[d]
    BY DEF TypeOK, Return
  <1> QED  BY <1>1 DEF EarlyKept, Return

LEMMA EarlyLookup ==
    ASSUME TypeOK, EarlyKept, NEW c \in Calls, NEW s \in Sessions, NEW k \in Keys,
           Lookup(c, s, k)
    PROVE  EarlyKept'
  <1> DEFINE new == [session |-> s, key |-> k, day |-> today, at |-> "lookup",
                     entry |-> cache[k], part |-> 0, cost |-> 0, billed |-> 0]
  <1>1. /\ \A d \in Calls : call'[d] = IF d = c THEN new ELSE call[d]
        /\ UNCHANGED <<cache, early>>
    BY DEF TypeOK, Lookup, Go, records, history
  <1>2. new.at = "lookup" /\ new.key = k /\ new.entry = cache[k]
    OBVIOUS
  <1> HIDE DEF new
  <1> QED  BY <1>1, <1>2 DEF EarlyKept

LEMMA EarlyRecord ==
    ASSUME TypeOK, EarlyKept, NEW c \in Calls, Record(c)
    PROVE  EarlyKept'
  <1>1. \A d \in Calls : call'[d] = IF d = c THEN Idle ELSE call[d]
    BY DEF TypeOK, Record
  <1> SUFFICES ASSUME NEW d \in Calls, call'[d] # Idle,
                      call'[d].at = "lookup" => call'[d].entry = "none",
                      cache'[call'[d].key] # "none"
               PROVE  d \in early'
    BY DEF EarlyKept
  <1>2. d # c /\ call'[d] = call[d]
    BY <1>1
  <1>3. CASE call[d].key = call[c].key
    BY <1>2, <1>3 DEF Record, SameKey
  <1>4. CASE call[d].key # call[c].key
    <2>1. call[d].key \in Keys
      BY <1>2, CallTyped
    <2>2. cache'[call[d].key] = cache[call[d].key]
      BY <1>4, <2>1 DEF Record, TypeOK
    <2> QED  BY <1>2, <2>2 DEF EarlyKept, Record
  <1> QED  BY <1>3, <1>4

LEMMA EarlyStep == BoundedInv /\ EarlyKept /\ [Next]_vars => EarlyKept'
  <1> SUFFICES ASSUME BoundedInv, EarlyKept, [Next]_vars PROVE EarlyKept'
    OBVIOUS
  <1>1. TypeOK
    BY DEF BoundedInv, Inv
  <1>2. ASSUME NEW c \in Calls, NEW s \in Sessions, NEW k \in Keys, Lookup(c, s, k)
        PROVE  EarlyKept'
    BY <1>1, <1>2, EarlyLookup
  <1>3. ASSUME NEW c \in Calls, Proceed(c)
        PROVE  EarlyKept'
    <2>1. CASE Hit(c) \/ Refuse(c) \/ SpendRefused(c) \/ EntryRefused(c)
      BY <1>1, <2>1, EarlyEnds DEF Hit, Refuse, SpendRefused, EntryRefused, records
    <2>2. CASE Admit(c)
      <3> DEFINE new == [call[c] EXCEPT !.at = "primary"]
      <3>1. /\ call[c] # Idle /\ call[c].entry = "none"
            /\ UNCHANGED <<cache, early>> /\ call' = [call EXCEPT ![c] = new]
        BY <2>2 DEF Admit, At, Go, history
      <3>2. new.key = call[c].key
        BY <1>1, <3>1, CallTyped DEF CallState
      <3> HIDE DEF new
      <3> QED  BY <1>1, <3>1, <3>2, EarlyGoesOn
    <2>3. CASE Record(c)
      BY <1>1, <2>3, EarlyRecord
    <2>4. CASE PrimaryFails(c) \/ KeyMissing(c) \/ ChunkFails(c) \/ FallbackFails(c)
      <3>1. call[c] # Idle /\ call[c].at # "lookup" /\ UNCHANGED <<cache, early>>
        BY <2>4 DEF PrimaryFails, KeyMissing, ChunkFails, FallbackFails, At, records, history
      <3>2. PICK new \in CallState : /\ new.key = call[c].key
                                     /\ call' = [call EXCEPT ![c] = new]
        BY <2>4, FailuresBounded
      <3> QED  BY <1>1, <3>1, <3>2, EarlyGoesOn
    <2>5. ASSUME NEW usd \in Costs,
                 \/ PrimaryAnswers(c, usd) \/ ChunkAnswers(c, usd)
                 \/ ChunkUnreadable(c, usd) \/ FallbackAnswers(c, usd)
          PROVE  EarlyKept'
      <3>1. call[c] # Idle /\ call[c].at # "lookup" /\ UNCHANGED <<cache, early>>
        BY <2>5 DEF PrimaryAnswers, ChunkAnswers, ChunkUnreadable, FallbackAnswers, At,
                    records, Bill
      <3>2. PICK new \in CallState : /\ new.key = call[c].key
                                     /\ call' = [call EXCEPT ![c] = new]
        BY <2>5, AnswersBounded
      <3> QED  BY <1>1, <3>1, <3>2, EarlyGoesOn
    <2> QED  BY <1>3, <2>1, <2>2, <2>3, <2>4, <2>5 DEF Proceed
  <1>4. ASSUME NEW k \in Keys, Expire(k)
        PROVE  EarlyKept'
    BY <1>1, <1>4, CallTyped DEF Expire, history, EarlyKept, TypeOK
  <1>5. CASE NextDay
    BY <1>5 DEF NextDay, history, EarlyKept
  <1>6. CASE Restart
    BY <1>6 DEF Restart, EarlyKept
  <1>7. CASE UNCHANGED vars
    BY <1>7 DEF vars, EarlyKept
  <1> QED  BY <1>2, <1>3, <1>4, <1>5, <1>6, <1>7 DEF Next

\* Only the recording step writes the cache, and it has recorded the spend.
LEMMA PaidStep ==
    ASSUME Inv, EarlyKept, [Next]_vars, NEW k \in Keys, cache'[k] \notin {cache[k], "none"}
    PROVE  \E c \in Calls : /\ At(c, "answer")
                            /\ call[c].key = k
                            /\ spend' = spend + call[c].billed
                            /\ cache[k] # "none" => c \in early
  <1>1. PICK c \in Calls : Record(c)
    BY DEF Next, Proceed, Lookup, Hit, Refuse, Admit, PrimaryAnswers, ChunkAnswers,
           ChunkUnreadable, FallbackAnswers, PrimaryFails, KeyMissing, ChunkFails,
           FallbackFails, SpendRefused, EntryRefused, Expire, NextDay, Restart, vars,
           records, Inv, TypeOK
  <1>2. call[c].key = k
    BY <1>1 DEF Record, Inv, TypeOK
  <1>3. At(c, "answer") /\ spend' = spend + call[c].billed
    BY <1>1 DEF Record, At, Inv, CostsKept
  <1>4. cache[k] # "none" => c \in early
    BY <1>2, <1>3 DEF EarlyKept, At
  <1> QED  BY <1>2, <1>3, <1>4

\* Whatever is cached has been paid for in full, and replaces only what was
\* stored while its call ran, for any number of chunks, calls and restarts.
THEOREM CachedPaid == Spec => CachedIsPaid
  <1>1. Init => OvershootInv /\ EarlyKept
    BY InitOvershoot DEF Init, EarlyKept
  <1>2. OvershootInv /\ EarlyKept /\ [Next]_vars => OvershootInv' /\ EarlyKept'
    BY OvershootStep, EarlyStep DEF OvershootInv
  <1>3. OvershootInv => Inv
    BY DEF OvershootInv, BoundedInv
  <1>4. Inv /\ EarlyKept /\ [Next]_vars =>
            [\A k \in Keys :
                cache'[k] \notin {cache[k], "none"} =>
                    \E c \in Calls : /\ At(c, "answer")
                                     /\ call[c].key = k
                                     /\ spend' = spend + call[c].billed
                                     /\ cache[k] # "none" => c \in early]_vars
    BY PaidStep
  <1> QED  BY <1>1, <1>2, <1>3, <1>4, PTL DEF Spec, CachedIsPaid

-----------------------------------------------------------------------------
(* What the spend file does not show of the bill. *)

Billed(r) == IF r = Idle THEN 0 ELSE r.billed

\* No call is ever billed more than the worst cost of a transcript, and none
\* before it is admitted.
LEMMA BilledBounds ==
    ASSUME BoundedInv, NEW c \in Calls
    PROVE  /\ MaxWorst \in Nat
           /\ Billed(call[c]) \in Nat /\ Billed(call[c]) =< MaxWorst
           /\ ~ Admitted(c) => Billed(call[c]) = 0
  <1>1. MaxWorst \in Nat
    BY FinitelyMany, MaxWorstBounds
  <1>2. CASE call[c] = Idle
    BY <1>1, <1>2 DEF Billed
  <1>3. CASE call[c] # Idle
    <2> DEFINE r == call[c]
    <2>1. /\ r \in CallState /\ r.billed \in Nat /\ r.cost = r.billed
          /\ File(c) \in Files /\ File(c) = r.key[1] /\ SpentAtMost(r)
      BY <1>3, CallTyped DEF BoundedInv, Inv, CostsKept, CostsBounded, File
    <2>2. WorstCost(File(c)) \in Nat /\ WorstCost(File(c)) =< MaxWorst /\ MaxCost \in Nat
      BY <2>1, WorstCostIsNat, MaxWorstBounds, MaxCostBounds
    <2>3. r.cost =< WorstCost(File(c))
      <3>1. CASE r.at = "answer"
        BY <2>1, <3>1, SpentAnswer
      <3>2. CASE r.at # "answer"
        <4>1. r.cost + MaxCost =< WorstCost(File(c))
          BY <2>1, <3>2, OneMoreRequest
        <4> HIDE DEF r
        <4> QED  BY <2>1, <2>2, <4>1
      <3> QED  BY <3>1, <3>2
    <2>4. r.at = "lookup" => r.cost = 0
      BY <2>1, SpentPrimary
    <2>5. Billed(call[c]) = r.billed /\ (Admitted(c) <=> r.at # "lookup")
      BY <1>3 DEF Billed, Admitted
    <2> HIDE DEF r
    <2> QED  BY <1>1, <2>1, <2>2, <2>3, <2>4, <2>5
  <1> QED  BY <1>2, <1>3

\* One call goes on or ends: the sum changes by what it has been billed.
LEMMA UnderwayStep ==
    ASSUME TypeOK, NEW c \in Calls, NEW new \in CallState \cup {Idle},
           call' = [call EXCEPT ![c] = new]
    PROVE  /\ Underway \in Nat /\ Underway' \in Nat
           /\ Billed(call[c]) \in Nat /\ Billed(new) \in Nat
           /\ Underway' = Underway - Billed(call[c]) + Billed(new)
  <1> DEFINE f == [d \in Calls |-> IF call[d] = Idle THEN 0 ELSE call[d].billed]
             g == [d \in Calls |-> IF call'[d] = Idle THEN 0 ELSE call'[d].billed]
  <1>1. \A d \in Calls : call'[d] = IF d = c THEN new ELSE call[d]
    BY DEF TypeOK
  <1>2. \A r \in CallState \cup {Idle} : Billed(r) \in Nat
    BY DEF Billed, CallState
  <1>3. /\ \A d \in Calls : f[d] = Billed(call[d]) /\ f[d] \in Nat
        /\ g[c] = Billed(new) /\ g[c] \in Nat
        /\ \A d \in Calls \ {c} : g[d] = f[d]
    BY <1>1, <1>2 DEF Billed, TypeOK
  <1>4. Underway = SumOver(f, Calls) /\ Underway' = SumOver(g, Calls)
    BY DEF Underway
  <1> HIDE DEF f, g
  <1>5. Summable(f, Calls) /\ DifferAt(f, g, Calls, c)
    BY <1>3, FinitelyMany DEF Summable, DifferAt
  <1>6. Summable(g, Calls) /\ SumOver(g, Calls) + f[c] = SumOver(f, Calls) + g[c]
    <2>1. PICK h, k : h = f /\ k = g
      OBVIOUS
    <2>2. Summable(h, Calls) /\ DifferAt(h, k, Calls, c)
      BY <1>5, <2>1
    <2>3. Summable(k, Calls) /\ SumOver(k, Calls) + h[c] = SumOver(h, Calls) + k[c]
      BY <2>2, SumChanges
    <2> QED  BY <2>1, <2>3
  <1>7. SumOver(f, Calls) \in Nat /\ SumOver(g, Calls) \in Nat
    BY <1>5, <1>6, SumIsNat
  <1>8. f[c] = Billed(call[c]) /\ g[c] = Billed(new) /\ f[c] \in Nat /\ g[c] \in Nat
    BY <1>3
  <1> QED  BY <1>4, <1>6, <1>7, <1>8

\* At the end of the process, the calls admitted account for all of it.
LEMMA UnderwayAdmitted ==
    ASSUME BoundedInv
    PROVE  /\ Cardinality({c \in Calls : Admitted(c)}) \in Nat
           /\ Underway \in Nat
           /\ Underway =< Cardinality({c \in Calls : Admitted(c)}) * MaxWorst
  <1> DEFINE f == [d \in Calls |-> IF call[d] = Idle THEN 0 ELSE call[d].billed]
             T == {c \in Calls : Admitted(c)}
  <1>1. \A d \in Calls : /\ f[d] \in Nat /\ f[d] =< MaxWorst
                         /\ d \notin T => f[d] = 0
    BY BilledBounds DEF Billed
  <1>2. IsFiniteSet(T) /\ T \in SUBSET Calls /\ MaxWorst \in Nat
    BY FinitelyMany, FS_Subset, MaxWorstBounds
  <1>3. Units(f, Calls) = Units(f, T)
    <2>1. \A d \in Calls : d \notin T => 1 .. f[d] = {}
      BY <1>1
    <2> HIDE DEF f, T
    <2> QED  BY <1>2, <2>1 DEF Units
  <1>4. Underway = SumOver(f, T)
    BY <1>3 DEF Underway, SumOver
  <1> HIDE DEF f, T
  <1>5. Summable(f, T) /\ \A d \in T : f[d] =< MaxWorst
    BY <1>1, <1>2 DEF Summable
  <1>6. SumOver(f, T) \in Nat /\ SumOver(f, T) =< Cardinality(T) * MaxWorst
    BY <1>2, <1>5, SumIsNat, SumBounded
  <1>7. Cardinality(T) \in Nat
    BY <1>2, FS_CardinalityType
  <1> QED  BY <1>4, <1>6, <1>7 DEF T

\* The account, with the products that the provers need not look into.
Hidden(n) == n * MaxWorst

BillCovered(b, s, u, n) == b =< s + u + Hidden(n)

LEMMA AccountedMeans == BillAccounted <=> BillCovered(bill, spend, Underway, losses)
  BY DEF BillAccounted, BillCovered, Hidden, MaxWorst

LEMMA HiddenAdds ==
    ASSUME NEW n \in Nat, NEW m \in Nat
    PROVE  /\ Hidden(n) \in Nat /\ Hidden(m) \in Nat
           /\ Hidden(n + m) = Hidden(n) + Hidden(m)
           /\ Hidden(1) = MaxWorst
  <1>1. MaxWorst \in Nat
    BY FinitelyMany, MaxWorstBounds
  <1>2. /\ n * MaxWorst \in Nat /\ m * MaxWorst \in Nat
        /\ (n + m) * MaxWorst = n * MaxWorst + m * MaxWorst
        /\ 1 * MaxWorst = MaxWorst
    BY <1>1
  <1> QED  BY <1>2 DEF Hidden

AccountInv == OvershootInv /\ BillAccounted

AccountTyped == /\ bill \in Nat /\ spend \in Nat /\ losses \in Nat
                /\ Hidden(losses) \in Nat

LEMMA AccountTypes == OvershootInv => AccountTyped
  BY HiddenAdds DEF AccountTyped, OvershootInv, BoundedInv, Inv, TypeOK

\* The arithmetic of a step.
LEMMA AccountMoves ==
    ASSUME NEW b0 \in Nat, NEW b1 \in Nat, NEW s0 \in Nat, NEW s1 \in Nat,
           NEW u \in Nat, NEW v \in Nat, NEW a \in Nat, NEW b \in Nat,
           NEW h \in Nat, NEW m \in Nat,
           v = u - a + b, b0 =< s0 + u + h, b1 + s0 + a =< b0 + s1 + b + m
    PROVE  b1 =< s1 + v + (h + m)
  OBVIOUS

\* A step in which the bill, the spend, the losses and what one call has been
\* billed move so that nothing gets out of sight.
LEMMA AccountStep ==
    ASSUME AccountInv, NEW c \in Calls, NEW new \in CallState \cup {Idle},
           call' = [call EXCEPT ![c] = new], NEW more \in Nat,
           spend' \in Nat, bill' \in Nat, losses' = losses + more,
           bill' + spend + Billed(call[c])
             =< bill + spend' + Billed(new) + Hidden(more)
    PROVE  BillAccounted'
  <1>1. /\ Underway \in Nat /\ Underway' \in Nat
        /\ Billed(call[c]) \in Nat /\ Billed(new) \in Nat
        /\ Underway' = Underway - Billed(call[c]) + Billed(new)
    BY UnderwayStep DEF AccountInv, OvershootInv, BoundedInv, Inv
  <1>2. AccountTyped /\ Hidden(more) \in Nat /\ Hidden(losses + more) = Hidden(losses) + Hidden(more)
    BY AccountTypes, HiddenAdds DEF AccountInv, AccountTyped
  <1>3. bill =< spend + Underway + Hidden(losses)
    BY AccountedMeans DEF AccountInv, BillCovered
  <1> DEFINE u == Underway
             v == Underway'
             a == Billed(call[c])
             b == Billed(new)
             h == Hidden(losses)
             m == Hidden(more)
  <1>4. bill' =< spend' + v + (h + m)
    <2>1. /\ u \in Nat /\ v \in Nat /\ a \in Nat /\ b \in Nat /\ h \in Nat /\ m \in Nat
          /\ v = u - a + b /\ bill =< spend + u + h
          /\ bill' + spend + a =< bill + spend' + b + m
          /\ bill \in Nat /\ spend \in Nat
      BY <1>1, <1>2, <1>3 DEF AccountTyped
    <2> HIDE DEF u, v, a, b, h, m
    <2> QED  BY <2>1, AccountMoves
  <1>5. Hidden(losses') = h + m
    BY <1>2
  <1>6. BillAccounted' <=> bill' =< spend' + Underway' + Hidden(losses')
    BY DEF BillAccounted, Hidden, MaxWorst
  <1> HIDE DEF v
  <1>7. bill' =< spend' + v + Hidden(losses')
    BY <1>4, <1>5
  <1> QED  BY <1>6, <1>7 DEF v

\* A call that goes on, answered at some cost or at none.
LEMMA StageAccount ==
    ASSUME AccountInv, Inv', NEW c \in Calls, call[c] # Idle, NEW new \in CallState,
           call' = [call EXCEPT ![c] = new], NEW usd \in Nat, new.cost = call[c].cost + usd,
           bill' = bill + usd, UNCHANGED <<spend, losses>>
    PROVE  BillAccounted'
  <1>1. call'[c] = new /\ new # Idle
    BY IdleAssumption DEF AccountInv, OvershootInv, BoundedInv, Inv, TypeOK
  <1>2. new.cost = new.billed
    BY <1>1 DEF Inv, CostsKept
  <1>3. call[c].cost = call[c].billed /\ call[c].billed \in Nat
    BY CallTyped DEF AccountInv, OvershootInv, BoundedInv, Inv, CostsKept
  <1>4. Billed(new) = Billed(call[c]) + usd /\ Billed(call[c]) \in Nat
    BY <1>1, <1>2, <1>3 DEF Billed
  <1>5. AccountTyped /\ Hidden(0) \in Nat
    BY AccountTypes, HiddenAdds DEF AccountInv
  <1> DEFINE a == Billed(call[c])
             b == Billed(new)
             m == Hidden(0)
  <1>6. /\ spend' \in Nat /\ bill' \in Nat /\ losses' = losses + 0
        /\ bill' + spend + a =< bill + spend' + b + m
    <2>1. b = a + usd /\ a \in Nat /\ m \in Nat /\ bill \in Nat /\ spend \in Nat /\ losses \in Nat
      BY <1>4, <1>5 DEF AccountTyped
    <2> HIDE DEF a, b, m
    <2> QED  BY <2>1
  <1> QED  BY <1>6, AccountStep

\* A call that begins or ends: what it was billed goes to the spend or, when
\* it is lost, hides behind the worst cost.
LEMMA EndAccount ==
    ASSUME AccountInv, NEW c \in Calls, NEW new \in CallState \cup {Idle}, Billed(new) = 0,
           call' = [call EXCEPT ![c] = new], bill' = bill,
           \/ UNCHANGED <<spend, losses>> /\ Billed(call[c]) = 0
           \/ spend' = spend + Billed(call[c]) /\ losses' = losses
           \/ spend' = spend /\ losses' = losses + 1
    PROVE  BillAccounted'
  <1> DEFINE a == Billed(call[c])
  <1>1. AccountTyped /\ Hidden(0) \in Nat /\ Hidden(1) = MaxWorst
    BY AccountTypes, HiddenAdds DEF AccountInv
  <1>2. a \in Nat /\ a =< MaxWorst /\ MaxWorst \in Nat
    BY BilledBounds DEF AccountInv, OvershootInv
  <1>3. spend' \in Nat /\ bill' \in Nat
    BY <1>1, <1>2 DEF AccountTyped
  <1>4. CASE /\ losses' = losses
             /\ (spend' = spend /\ a = 0) \/ spend' = spend + a
    <2> DEFINE m == Hidden(0)
    <2>1. losses' = losses + 0 /\ bill' + spend + a =< bill + spend' + Billed(new) + m
      <3>1. m \in Nat /\ bill \in Nat /\ spend \in Nat /\ losses \in Nat
        BY <1>1 DEF AccountTyped
      <3> HIDE DEF a, m
      <3> QED  BY <1>2, <1>4, <3>1
    <2>2. 0 \in Nat
      OBVIOUS
    <2> HIDE DEF m
    <2>3. bill' + spend + Billed(call[c]) =< bill + spend' + Billed(new) + Hidden(0)
      BY <2>1 DEF m
    <2> QED  BY <1>3, <2>1, <2>2, <2>3, AccountStep
  <1>5. CASE spend' = spend /\ losses' = losses + 1
    <2> DEFINE m == Hidden(1)
    <2>1. bill' + spend + a =< bill + spend' + Billed(new) + m
      <3>1. m = MaxWorst /\ bill \in Nat /\ spend \in Nat
        BY <1>1 DEF AccountTyped
      <3> HIDE DEF a, m
      <3> QED  BY <1>2, <1>5, <3>1
    <2> QED  BY <1>3, <1>5, <2>1, AccountStep
  <1> QED  BY <1>4, <1>5

LEMMA RestartAccount ==
    ASSUME AccountInv, Restart
    PROVE  BillAccounted'
  <1> DEFINE n == Cardinality({c \in Calls : Admitted(c)})
  <1>1. n \in Nat /\ Underway \in Nat /\ Underway =< Hidden(n)
    BY UnderwayAdmitted DEF AccountInv, OvershootInv, Hidden
  <1>2. losses' = losses + n /\ bill' = bill /\ spend' = spend /\ \A c \in Calls : call'[c] = Idle
    BY DEF Restart, Lose
  <1>3. Underway' = 0
    <2> DEFINE g == [d \in Calls |-> IF call'[d] = Idle THEN 0 ELSE call'[d].billed]
    <2>1. \A d \in Calls : g[d] = 0
      BY <1>2
    <2>2. Units(g, Calls) = {}
      BY <2>1 DEF Units
    <2> QED  BY <2>2, FS_EmptySet DEF Underway, SumOver
  <1>4. AccountTyped
    BY AccountTypes DEF AccountInv
  <1>5. Hidden(n) \in Nat /\ Hidden(losses + n) = Hidden(losses) + Hidden(n)
    BY <1>1, <1>4, HiddenAdds DEF AccountTyped
  <1>6. bill =< spend + Underway + Hidden(losses)
    BY AccountedMeans DEF AccountInv, BillCovered
  <1> DEFINE u == Underway
             h == Hidden(losses)
             m == Hidden(n)
  <1>7. bill =< spend + 0 + (h + m)
    <2>1. /\ u \in Nat /\ h \in Nat /\ m \in Nat /\ u =< m /\ bill =< spend + u + h
          /\ bill \in Nat /\ spend \in Nat
      BY <1>1, <1>4, <1>5, <1>6 DEF AccountTyped
    <2> HIDE DEF u, h, m
    <2> QED  BY <2>1
  <1>8. BillAccounted' <=> bill' =< spend' + Underway' + Hidden(losses')
    BY DEF BillAccounted, Hidden, MaxWorst
  <1> HIDE DEF n
  <1> QED  BY <1>2, <1>3, <1>5, <1>7, <1>8

LEMMA BillStep == AccountInv /\ [Next]_vars => AccountInv'
  <1> SUFFICES ASSUME AccountInv, [Next]_vars PROVE BillAccounted'
    BY OvershootStep DEF AccountInv
  <1>1. BoundedInv /\ TypeOK /\ Inv'
    BY OvershootStep DEF AccountInv, OvershootInv, BoundedInv, Inv
  <1>2. ASSUME NEW c \in Calls, NEW s \in Sessions, NEW k \in Keys, Lookup(c, s, k)
        PROVE  BillAccounted'
    <2> DEFINE new == [session |-> s, key |-> k, day |-> today, at |-> "lookup",
                       entry |-> cache[k], part |-> 0, cost |-> 0, billed |-> 0]
    <2>1. new \in CallState /\ Billed(new) = 0
      BY <1>1 DEF TypeOK, CallState, Billed
    <2>2. /\ call' = [call EXCEPT ![c] = new] /\ Billed(call[c]) = 0
          /\ UNCHANGED <<spend, losses>> /\ bill' = bill
      BY <1>2 DEF Lookup, Go, records, history, Billed
    <2> HIDE DEF new
    <2> QED  BY <2>1, <2>2, EndAccount
  <1>3. ASSUME NEW c \in Calls, Proceed(c)
        PROVE  BillAccounted'
    <2>1. Billed(Idle) = 0
      BY DEF Billed
    <2>2. CASE Hit(c) \/ Refuse(c)
      <3>1. ~ Admitted(c) /\ Return(c) /\ UNCHANGED <<records, bill, losses>>
        BY <2>2 DEF Hit, Refuse, At, Admitted
      <3>2. Billed(call[c]) = 0
        BY <1>1, <3>1, BilledBounds
      <3> QED  BY <2>1, <3>1, <3>2, EndAccount DEF Return, records
    <2>3. CASE SpendRefused(c)
      BY <2>1, <2>3, EndAccount DEF SpendRefused, Lose, Return, records
    <2>4. CASE Record(c) \/ EntryRefused(c)
      <3>1. call[c] # Idle /\ call[c].cost = call[c].billed
        BY <1>1, <2>4 DEF Record, EntryRefused, At, BoundedInv, Inv, CostsKept
      <3>2. spend' = spend + Billed(call[c])
        BY <2>4, <3>1 DEF Record, EntryRefused, Billed
      <3> QED  BY <2>1, <2>4, <3>2, EndAccount DEF Record, EntryRefused, Return
    <2>5. CASE Admit(c)
      <3> DEFINE new == [call[c] EXCEPT !.at = "primary"]
      <3>1. /\ call[c] # Idle /\ call' = [call EXCEPT ![c] = new]
            /\ UNCHANGED <<spend, losses>> /\ bill' = bill
        BY <2>5 DEF Admit, At, Go, history
      <3>2. call[c] \in CallState /\ call[c].cost \in Nat
        BY <1>1, <3>1, CallTyped
      <3>3. new \in CallState /\ new.cost = call[c].cost
        BY <3>2 DEF CallState
      <3> HIDE DEF new
      <3>4. new.cost = call[c].cost + 0 /\ bill' = bill + 0
        BY <3>1, <3>2, <3>3 DEF AccountInv, OvershootInv, BoundedInv, Inv, TypeOK
      <3> QED  BY <1>1, <3>1, <3>3, <3>4, StageAccount
    <2>6. CASE PrimaryFails(c) \/ KeyMissing(c) \/ ChunkFails(c) \/ FallbackFails(c)
      <3>1. call[c] # Idle /\ UNCHANGED <<spend, losses>> /\ bill' = bill
        BY <2>6 DEF PrimaryFails, KeyMissing, ChunkFails, FallbackFails, At, records, history
      <3>2. PICK new \in CallState : /\ new.cost = call[c].cost
                                     /\ call' = [call EXCEPT ![c] = new]
        BY <1>1, <2>6, FailuresBounded
      <3>3. call[c].cost \in Nat /\ bill \in Nat
        BY <1>1, <3>1, CallTyped DEF TypeOK
      <3>4. new.cost = call[c].cost + 0 /\ bill' = bill + 0
        BY <3>1, <3>2, <3>3
      <3> QED  BY <1>1, <3>1, <3>2, <3>4, StageAccount
    <2>7. ASSUME NEW usd \in Costs,
                 \/ PrimaryAnswers(c, usd) \/ ChunkAnswers(c, usd)
                 \/ ChunkUnreadable(c, usd) \/ FallbackAnswers(c, usd)
          PROVE  BillAccounted'
      <3>1. /\ call[c] # Idle /\ UNCHANGED <<spend, losses>> /\ bill' = bill + usd
            /\ usd \in Nat
        BY <2>7, MaxCostBounds
           DEF PrimaryAnswers, ChunkAnswers, ChunkUnreadable, FallbackAnswers, At,
               records, Bill
      <3>2. PICK new \in CallState : /\ new.cost = call[c].cost + usd
                                     /\ call' = [call EXCEPT ![c] = new]
        BY <1>1, <2>7, AnswersBounded
      <3> QED  BY <1>1, <3>1, <3>2, StageAccount
    <2> QED  BY <1>3, <2>2, <2>3, <2>4, <2>5, <2>6, <2>7 DEF Proceed
  <1>4. CASE Restart
    BY <1>4, RestartAccount
  <1>5. CASE UNCHANGED <<call, bill, spend, losses>>
    BY <1>5 DEF AccountInv, BillAccounted, Underway
  <1> QED
    BY <1>2, <1>3, <1>4, <1>5 DEF Next, Expire, NextDay, history, vars

\* The bill exceeds what is recorded and what is in progress by at most one
\* worst cost for each call that was lost, for any number of calls, chunks,
\* prices, refusals and restarts.
THEOREM BillIsAccounted == Spec => []BillAccounted
  <1>1. Init => AccountInv
    <2> SUFFICES ASSUME Init PROVE AccountInv
      OBVIOUS
    <2>1. OvershootInv /\ bill = 0 /\ spend = 0 /\ losses = 0
      BY InitOvershoot DEF Init
    <2>2. Underway \in Nat
      BY <2>1, UnderwayAdmitted DEF OvershootInv
    <2>3. Hidden(0) \in Nat
      BY HiddenAdds
    <2>4. BillCovered(0, 0, Underway, 0)
      BY <2>2, <2>3 DEF BillCovered
    <2> QED  BY <2>1, <2>4, AccountedMeans DEF AccountInv
  <1>2. AccountInv => BillAccounted
    BY DEF AccountInv
  <1> QED  BY <1>1, <1>2, BillStep, PTL DEF Spec

-----------------------------------------------------------------------------
(* The spend file and its lock.                                            *)

\* What a process holds of the spend, without the amount it is adding.
Base(p) == IF pc[p] = "save" THEN mem[p] - amt[p] ELSE mem[p]

\* The value a process would write is at most what was recorded, and without
\* a file nothing was recorded that a process could still hold.
Accounted ==
    /\ Total =< recorded
    /\ \A p \in Procs :
          /\ pc[p] # "idle" => amt[p] \in Amounts
          /\ pc[p] = "save" => mem[p] >= amt[p]
          /\ Base(p) =< recorded
          /\ file = NoFile => Base(p) = 0

\* As long as no working process has lost its lock, every process in the
\* critical section owns the lock, and one that is about to save has added
\* its amount to what the file shows now.
Exclusive ==
    ~ overrun =>
        /\ \A p \in Procs : Holding(p) => lock # NoLock /\ lock.owner = p
        /\ \A p \in Procs : pc[p] = "save" => mem[p] = Total + amt[p]

LedgerInv == LedgerTypeOK /\ Accounted /\ Exclusive

LEMMA LedgerInitInv == LedgerInit => LedgerInv
  <1> SUFFICES ASSUME LedgerInit PROVE LedgerInv
    OBVIOUS
  <1> USE DEF LedgerInit
  <1>1. LedgerTypeOK
    BY DEF LedgerTypeOK
  <1>2. Accounted
    BY DEF Accounted, Base, Total
  <1>3. Exclusive
    BY DEF Exclusive, Holding
  <1> QED  BY <1>1, <1>2, <1>3 DEF LedgerInv

LEMMA NewLock ==
    ASSUME NEW p \in Procs
    PROVE  LET l == [owner |-> p, old |-> FALSE]
           IN  l \in Lock /\ l # NoLock /\ l.owner = p
  <1> DEFINE l == [owner |-> p, old |-> FALSE]
  <1>1. l.owner = p
    OBVIOUS
  <1>2. l \in Lock
    BY DEF Lock
  <1>3. l # NoLock
    BY <1>2, AbsentAssumption
  <1> QED  BY <1>1, <1>2, <1>3

LEMMA AmountIsNat == \A usd \in Amounts : usd \in Nat
  BY AmountsAssumption

LEMMA LedgerTypeStep ==
    ASSUME LedgerInv, [LedgerNext]_ledgerVars
    PROVE  LedgerTypeOK'
  <1> USE AmountIsNat DEF LedgerInv, LedgerTypeOK
  <1>1. ASSUME NEW p \in Procs, NEW usd \in Amounts, AddSpend(p, usd)
        PROVE  LedgerTypeOK'
    BY <1>1 DEF AddSpend, Goto
  <1>2. ASSUME NEW p \in Procs, Check(p)
        PROVE  LedgerTypeOK'
    BY <1>2 DEF Check, Reloaded
  <1>3. ASSUME NEW p \in Procs, MakeLock(p)
        PROVE  LedgerTypeOK'
    <2>1. lock' \in Lock \cup {NoLock}
      BY <1>3, NewLock DEF MakeLock
    <2>2. pc' = [pc EXCEPT ![p] = "load"] \/ pc' = [pc EXCEPT ![p] = "stat"]
      BY <1>3 DEF MakeLock, Goto
    <2> QED  BY <1>3, <2>1, <2>2 DEF MakeLock
  <1>4. ASSUME NEW p \in Procs, StatLock(p)
        PROVE  LedgerTypeOK'
    BY <1>4 DEF StatLock, Goto
  <1>5. ASSUME NEW p \in Procs, RemoveLock(p)
        PROVE  LedgerTypeOK'
    BY <1>5 DEF RemoveLock, Goto, Holding
  <1>6. ASSUME NEW p \in Procs, Retry(p) \/ LockTimeout(p)
        PROVE  LedgerTypeOK'
    BY <1>6 DEF Retry, LockTimeout, Goto
  <1>7. ASSUME NEW p \in Procs, Load(p)
        PROVE  LedgerTypeOK'
    BY <1>7 DEF Load, Goto, Reloaded
  <1>8. ASSUME NEW p \in Procs, Save(p)
        PROVE  LedgerTypeOK'
    BY <1>8 DEF Save, Goto
  <1>9. ASSUME NEW p \in Procs, SaveFails(p)
        PROVE  LedgerTypeOK'
    BY <1>9 DEF SaveFails, Goto, Accounted
  <1>10. ASSUME NEW p \in Procs, Unlock(p)
         PROVE  LedgerTypeOK'
    BY <1>10 DEF Unlock, Goto
  <1>11. ASSUME NEW p \in Procs, ProcessRestart(p)
         PROVE  LedgerTypeOK'
    BY <1>11 DEF ProcessRestart, Goto, Total
  <1>12. CASE LockAges
    BY <1>12 DEF LockAges, Lock
  <1>13. CASE UNCHANGED ledgerVars
    BY <1>13 DEF ledgerVars
  <1> QED
    BY <1>1, <1>2, <1>3, <1>4, <1>5, <1>6, <1>7, <1>8, <1>9, <1>10, <1>11, <1>12, <1>13
       DEF LedgerNext

LEMMA AccountedStep ==
    ASSUME LedgerInv, [LedgerNext]_ledgerVars
    PROVE  Accounted'
  <1> USE AbsentAssumption
      DEF LedgerInv, LedgerTypeOK, Accounted, Base, Total
  <1>1. ASSUME NEW p \in Procs, NEW usd \in Amounts, AddSpend(p, usd)
        PROVE  Accounted'
    BY <1>1 DEF AddSpend, Goto
  <1>2. ASSUME NEW p \in Procs, Check(p)
        PROVE  Accounted'
    BY <1>2 DEF Check, Reloaded
  <1>3. ASSUME NEW p \in Procs, MakeLock(p)
        PROVE  Accounted'
    BY <1>3 DEF MakeLock, Goto
  <1>4. ASSUME NEW p \in Procs, StatLock(p)
        PROVE  Accounted'
    BY <1>4 DEF StatLock, Goto
  <1>5. ASSUME NEW p \in Procs, RemoveLock(p)
        PROVE  Accounted'
    BY <1>5 DEF RemoveLock, Goto
  <1>6. ASSUME NEW p \in Procs, Retry(p) \/ LockTimeout(p)
        PROVE  Accounted'
    BY <1>6 DEF Retry, LockTimeout, Goto
  <1>7. ASSUME NEW p \in Procs, Load(p)
        PROVE  Accounted'
    BY <1>7 DEF Load, Goto, Reloaded
  <1>8. ASSUME NEW p \in Procs, Save(p)
        PROVE  Accounted'
    <2>1. /\ file' = mem[p] /\ mem' = mem /\ amt' = amt
          /\ recorded' = recorded + amt[p]
          /\ pc[p] = "save" /\ pc' = [pc EXCEPT ![p] = "unlock"]
      BY <1>8 DEF Save, Goto
    <2>2. mem[p] \in Nat /\ amt[p] \in Nat /\ amt[p] \in Amounts /\ mem[p] =< recorded + amt[p]
      BY <2>1
    <2>3. file' # NoFile /\ Total' =< recorded'
      BY <2>1, <2>2
    <2>4. ASSUME NEW q \in Procs
          PROVE  /\ pc'[q] # "idle" => amt'[q] \in Amounts
                 /\ pc'[q] = "save" => mem'[q] >= amt'[q]
                 /\ Base(q)' =< recorded'
      <3>1. CASE q = p
        BY <2>1, <2>2, <3>1
      <3>2. CASE q # p
        <4>1. pc'[q] = pc[q] /\ mem'[q] = mem[q] /\ amt'[q] = amt[q]
          BY <2>1, <3>2
        <4>2. mem[q] \in Nat /\ amt[q] \in Nat
          OBVIOUS
        <4> QED  BY <2>1, <2>2, <4>1, <4>2
      <3> QED  BY <3>1, <3>2
    <2> QED  BY <2>3, <2>4
  <1>9. ASSUME NEW p \in Procs, SaveFails(p)
        PROVE  Accounted'
    BY <1>9 DEF SaveFails, Goto
  <1>10. ASSUME NEW p \in Procs, Unlock(p)
         PROVE  Accounted'
    BY <1>10 DEF Unlock, Goto
  <1>11. ASSUME NEW p \in Procs, ProcessRestart(p)
         PROVE  Accounted'
    BY <1>11 DEF ProcessRestart, Goto
  <1>12. CASE LockAges
    BY <1>12 DEF LockAges
  <1>13. CASE UNCHANGED ledgerVars
    BY <1>13 DEF ledgerVars
  <1> QED
    BY <1>1, <1>2, <1>3, <1>4, <1>5, <1>6, <1>7, <1>8, <1>9, <1>10, <1>11, <1>12, <1>13
       DEF LedgerNext

LEMMA ExclusiveStep ==
    ASSUME LedgerInv, [LedgerNext]_ledgerVars
    PROVE  Exclusive'
  <1> USE AbsentAssumption
      DEF LedgerInv, LedgerTypeOK, Exclusive, Holding
  <1>1. ASSUME NEW p \in Procs, NEW usd \in Amounts, AddSpend(p, usd)
        PROVE  Exclusive'
    BY <1>1 DEF AddSpend, Goto, Total
  <1>2. ASSUME NEW p \in Procs, Check(p)
        PROVE  Exclusive'
    BY <1>2 DEF Check, Total
  <1>3. ASSUME NEW p \in Procs, MakeLock(p)
        PROVE  Exclusive'
    <2>1. CASE lock = NoLock
      <3>1. lock' = [owner |-> p, old |-> FALSE] /\ pc' = [pc EXCEPT ![p] = "load"]
            /\ file' = file /\ mem' = mem /\ amt' = amt /\ overrun' = overrun
        BY <1>3, <2>1 DEF MakeLock, Goto
      <3>2. lock' # NoLock /\ lock'.owner = p
        BY <3>1, NewLock
      <3>3. ~ overrun => \A q \in Procs : q # p => ~ Holding(q)'
        BY <2>1, <3>1
      <3>4. \A q \in Procs : pc'[q] = "save" => pc[q] = "save"
        BY <3>1
      <3> QED  BY <3>1, <3>2, <3>3, <3>4 DEF Total
    <2>2. CASE lock # NoLock
      BY <1>3, <2>2 DEF MakeLock, Goto, Total
    <2> QED  BY <2>1, <2>2
  <1>4. ASSUME NEW p \in Procs, StatLock(p)
        PROVE  Exclusive'
    BY <1>4 DEF StatLock, Goto, Total
  <1>5. ASSUME NEW p \in Procs, RemoveLock(p)
        PROVE  Exclusive'
    BY <1>5 DEF RemoveLock, Goto, Total
  <1>6. ASSUME NEW p \in Procs, Retry(p) \/ LockTimeout(p)
        PROVE  Exclusive'
    BY <1>6 DEF Retry, LockTimeout, Goto, Total
  <1>7. ASSUME NEW p \in Procs, Load(p)
        PROVE  Exclusive'
    <2>1. Reloaded(p) = Total
      BY <1>7 DEF Load, Reloaded, Total, Accounted, Base
    <2> QED  BY <1>7, <2>1 DEF Load, Goto, Total
  <1>8. ASSUME NEW p \in Procs, Save(p)
        PROVE  Exclusive'
    BY <1>8 DEF Save, Goto
  <1>9. ASSUME NEW p \in Procs, SaveFails(p)
        PROVE  Exclusive'
    BY <1>9 DEF SaveFails, Goto, Total
  <1>10. ASSUME NEW p \in Procs, Unlock(p)
         PROVE  Exclusive'
    BY <1>10 DEF Unlock, Goto, Total
  <1>11. ASSUME NEW p \in Procs, ProcessRestart(p)
         PROVE  Exclusive'
    BY <1>11 DEF ProcessRestart, Goto, Total
  <1>12. CASE LockAges
    BY <1>12 DEF LockAges, Lock, Total
  <1>13. CASE UNCHANGED ledgerVars
    BY <1>13 DEF ledgerVars, Total
  <1> QED
    BY <1>1, <1>2, <1>3, <1>4, <1>5, <1>6, <1>7, <1>8, <1>9, <1>10, <1>11, <1>12, <1>13
       DEF LedgerNext

\* The inductive invariant: accounting and exclusion hold together.
THEOREM LedgerInvariant == LedgerSpec => []LedgerInv
  <1>1. LedgerInv /\ [LedgerNext]_ledgerVars => LedgerInv'
    BY LedgerTypeStep, AccountedStep, ExclusiveStep DEF LedgerInv
  <1> QED  BY LedgerInitInv, <1>1, PTL DEF LedgerSpec

\* The variables keep their types; in particular a failed save never leaves
\* a negative amount in memory.
THEOREM LedgerTypeCorrect == LedgerSpec => []LedgerTypeOK
  <1>1. LedgerInv => LedgerTypeOK
    BY DEF LedgerInv
  <1> QED  BY <1>1, LedgerInvariant, PTL

\* The file never shows more than was recorded, for any number of processes
\* and whatever happens to the lock.
THEOREM LedgerNeverOvercounts == LedgerSpec => []NeverOvercounts
  <1>1. LedgerInv => NeverOvercounts
    BY DEF LedgerInv, Accounted, NeverOvercounts
  <1> QED  BY <1>1, LedgerInvariant, PTL

LEMMA StepImplementsCounter ==
    ASSUME LedgerInv, [LedgerNext]_ledgerVars
    PROVE  [Counter!CounterNext]_(Counter!counterVars)
  <1> USE DEF Counter!CounterNext, Counter!counterVars
  <1>1. ASSUME NEW p \in Procs, Save(p)
        PROVE  Counter!CounterNext
    <2>1. Total' = mem[p] /\ overrun' = overrun /\ amt[p] \in Amounts
      BY <1>1, AbsentAssumption DEF Save, Total, LedgerInv, LedgerTypeOK, Accounted
    <2>2. CASE overrun
      BY <2>1, <2>2 DEF Counter!Overwrite, LedgerInv, LedgerTypeOK
    <2>3. CASE ~ overrun
      <3>1. Total' = Total + amt[p]
        BY <1>1, <2>1, <2>3 DEF Save, LedgerInv, Exclusive
      <3> QED  BY <2>1, <3>1 DEF Counter!Record
    <2> QED  BY <2>2, <2>3 DEF LedgerInv, LedgerTypeOK
  <1>2. ASSUME NEW p \in Procs, RemoveLock(p)
        PROVE  [Counter!CounterNext]_(Counter!counterVars)
    <2>1. Total' = Total
      BY <1>2 DEF RemoveLock, Total
    <2>2. overrun' = overrun \/ overrun' = TRUE
      BY <1>2 DEF RemoveLock, LedgerInv, LedgerTypeOK, Holding
    <2> QED  BY <2>1, <2>2 DEF Counter!Lapse
  <1>3. CASE \/ \E p \in Procs, usd \in Amounts : AddSpend(p, usd)
             \/ \E p \in Procs :
                   \/ Check(p) \/ MakeLock(p) \/ StatLock(p) \/ Retry(p) \/ LockTimeout(p)
                   \/ Load(p) \/ SaveFails(p) \/ Unlock(p) \/ ProcessRestart(p)
             \/ LockAges
             \/ UNCHANGED ledgerVars
    BY <1>3 DEF AddSpend, Check, MakeLock, StatLock, Retry, LockTimeout, Load, SaveFails,
                Unlock, ProcessRestart, LockAges, ledgerVars, Total
  <1> QED  BY <1>1, <1>2, <1>3 DEF LedgerNext

\* The spend file implements the exact counter.
THEOREM LedgerImplementsCounter == LedgerSpec => ImplementsCounter
  <1>1. LedgerInit => Counter!CounterInit
    BY DEF LedgerInit, Counter!CounterInit, Total
  <1> QED
    BY <1>1, StepImplementsCounter, LedgerInvariant, PTL
       DEF LedgerSpec, ImplementsCounter, Counter!CounterSpec

=============================================================================
