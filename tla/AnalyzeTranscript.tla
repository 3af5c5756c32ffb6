-------------------------- MODULE AnalyzeTranscript --------------------------
(***************************************************************************)
(* Concurrent analyze_transcript calls in one process of transcript-       *)
(* analyzer: cache lookup, quota, the stages of the Gemini fallback, and   *)
(* the recording of spend and answer (packages/transcript-analyzer/src:    *)
(* analyze-transcript.ts, fallback.ts, quota.ts, cache.ts).                *)
(*                                                                         *)
(* A call gives up control only where it awaits: after the cache lookup,   *)
(* in every Gemini request, and after runWithFallback.  What lies between  *)
(* two awaits is one action.  The cost of an answer is the estimate made   *)
(* from its token count; a request that fails or times out reports none.   *)
(* The text of answers, citations and redactions is left out.  The models  *)
(* are the Gemini models that resolveConfig lets through, so that          *)
(* runWithFallback does not throw.  How addSpend shares its file with      *)
(* other processes is the subject of SpendLedger.                          *)
(***************************************************************************)
EXTENDS Naturals, FiniteSets, FiniteSetsExt, Sums

CONSTANTS
    Calls,              \* slots for calls in progress
    Idle,               \* an unused slot
    Sessions,           \* session ids
    Files,              \* transcripts, by hash
    Queries,            \* normalized queries
    Parts,              \* file -> chunks it splits into; 1 for a short file
    Costs,              \* cost one Gemini answer may report
    MaxPerSession,      \* maxAnalyzePerSession
    MaxPerFileDay,      \* maxAnalyzePerFilePerDay
    SpendCap,           \* monthlySpendCapUsd
    MaxDay,             \* bound: days modelled, all of one month
    MaxLosses           \* bound: admitted calls that may go unrecorded

ASSUME LimitsAssumption ==
    /\ MaxPerSession \in Nat /\ MaxPerFileDay \in Nat /\ SpendCap \in Nat
    /\ MaxDay \in Nat /\ MaxLosses \in Nat

ASSUME PartsAssumption == Parts \in [Files -> Nat \ {0}]

ASSUME CostsAssumption == Costs \subseteq Nat /\ Costs # {} /\ IsFiniteSet(Costs)

ASSUME FinitelyMany == IsFiniteSet(Calls) /\ IsFiniteSet(Files) /\ Files # {}

VARIABLES
    cache,      \* key -> what the unexpired entry holds
    sessions,   \* sessionCounts
    fileDays,   \* fileDayCounts
    spend,      \* the month's recorded spend
    today,      \* the date
    call,       \* slot -> call in progress
    \* History, which the code does not keep:
    bill,       \* all that Gemini charged for
    losses,     \* admitted calls that ended without the spend being recorded
    early       \* calls in progress that looked up before the entry now
                \* stored, or one before it, was stored

vars == <<cache, sessions, fileDays, spend, today, call, bill, losses, early>>

Keys == Files \X Queries

Entry == {"none", "success", "failure"}

\* "entry" is what the lookup found and later what is to be cached; "part" is
\* the chunk asked about.  "billed", which the code does not keep, sums the
\* costs that Gemini reported to the call.
CallState ==
    [session : Sessions, key : Keys, day : 0 .. MaxDay,
     at      : {"lookup", "primary", "chunk", "fallback", "answer"},
     entry   : Entry, part : Nat, cost : Nat, billed : Nat]

ASSUME IdleAssumption == Idle \notin CallState

TypeOK ==
    /\ cache \in [Keys -> Entry]
    /\ sessions \in [Sessions -> 0 .. MaxPerSession]
    /\ fileDays \in [Files \X (0 .. MaxDay) -> 0 .. MaxPerFileDay]
    /\ spend \in Nat
    /\ today \in 0 .. MaxDay
    /\ call \in [Calls -> CallState \cup {Idle}]
    /\ bill \in Nat /\ losses \in 0 .. MaxLosses /\ early \subseteq Calls

Init ==
    /\ cache = [k \in Keys |-> "none"]
    /\ sessions = [s \in Sessions |-> 0]
    /\ fileDays = [fd \in Files \X (0 .. MaxDay) |-> 0]
    /\ spend = 0
    /\ today = 0
    /\ call = [c \in Calls |-> Idle]
    /\ bill = 0 /\ losses = 0 /\ early = {}

-----------------------------------------------------------------------------

At(c, place) == call[c] # Idle /\ call[c].at = place

File(c) == call[c].key[1]

Return(c) ==
    /\ call' = [call EXCEPT ![c] = Idle]
    /\ early' = early \ {c}

Go(c, changed) == call' = [call EXCEPT ![c] = changed]

Admitted(c) == call[c] # Idle /\ call[c].at # "lookup"

\* Everything but the calls in progress.
records == <<cache, sessions, fileDays, spend, today>>

history == <<bill, losses, early>>

\* Gemini charges for an answer.
Bill(usd) == bill' = bill + usd /\ UNCHANGED <<losses, early>>

\* The end of the process or of its recording hides the cost of n calls.
Lose(n) == losses + n =< MaxLosses /\ losses' = losses + n

-----------------------------------------------------------------------------
(* Lookup and quota. *)

\* The entry is read, and its value used only after two awaits.
Lookup(c, s, k) ==
    /\ call[c] = Idle
    /\ Go(c, [session |-> s, key |-> k, day |-> today, at |-> "lookup",
              entry |-> cache[k], part |-> 0, cost |-> 0, billed |-> 0])
    /\ UNCHANGED <<records, history>>

\* Any entry is a hit, the failure of the last minutes too.
Hit(c) ==
    /\ At(c, "lookup")
    /\ call[c].entry # "none"
    /\ Return(c)
    /\ UNCHANGED <<records, bill, losses>>

\* MUTANT: one call too many in a session.
AllowedOnceMore(c) ==
    /\ sessions[call[c].session] =< MaxPerSession
    /\ fileDays[<<File(c), call[c].day>>] < MaxPerFileDay
    /\ spend < SpendCap

\* MUTANT: the spend cap is not looked at.
AllowedWithoutCap(c) ==
    /\ sessions[call[c].session] < MaxPerSession
    /\ fileDays[<<File(c), call[c].day>>] < MaxPerFileDay

\* QuotaStore.check
Allowed(c) ==
    /\ sessions[call[c].session] < MaxPerSession
    /\ fileDays[<<File(c), call[c].day>>] < MaxPerFileDay
    /\ spend < SpendCap

Refuse(c) ==
    /\ At(c, "lookup")
    /\ call[c].entry = "none"
    /\ ~ Allowed(c)
    /\ Return(c)
    /\ UNCHANGED <<records, bill, losses>>

\* MUTANT: a cached failure does not count as a hit.
AdmitAfterFailure(c) ==
    /\ At(c, "lookup")
    /\ call[c].entry # "success"
    /\ Allowed(c)
    /\ sessions' = [sessions EXCEPT ![call[c].session] = @ + 1]
    /\ fileDays' = [fileDays EXCEPT ![<<File(c), call[c].day>>] = @ + 1]
    /\ Go(c, [call[c] EXCEPT !.at = "primary"])
    /\ UNCHANGED <<cache, spend, today, history>>

\* check and consumeCall, with no await in between.
Admit(c) ==
    /\ At(c, "lookup")
    /\ call[c].entry = "none"
    /\ Allowed(c)
    /\ sessions' = [sessions EXCEPT ![call[c].session] = @ + 1]
    /\ fileDays' = [fileDays EXCEPT ![<<File(c), call[c].day>>] = @ + 1]
    /\ Go(c, [call[c] EXCEPT !.at = "primary"])
    /\ UNCHANGED <<cache, spend, today, history>>

-----------------------------------------------------------------------------
(* runWithFallback. *)

\* What a call is after Gemini answered at the given cost.
Charged(c, usd) == [call[c] EXCEPT !.cost = @ + usd, !.billed = @ + usd]

Answered(state, result) == [state EXCEPT !.at = "answer", !.entry = result]

\* The whole transcript is asked about once.
PrimaryAnswers(c, usd) ==
    /\ At(c, "primary")
    /\ Go(c, Answered(Charged(c, usd), "success"))
    /\ Bill(usd)
    /\ UNCHANGED records

\* A short transcript is not split.
PrimaryFails(c) ==
    /\ At(c, "primary")
    /\ Go(c, IF Parts[File(c)] = 1 THEN [call[c] EXCEPT !.at = "fallback"]
             ELSE [call[c] EXCEPT !.at = "chunk", !.part = 1])
    /\ UNCHANGED <<records, history>>

\* Without an API key no further stage is tried.
KeyMissing(c) ==
    /\ At(c, "primary") \/ At(c, "chunk") \/ At(c, "fallback")
    /\ Go(c, Answered(call[c], "failure"))
    /\ UNCHANGED <<records, history>>

ChunkAnswers(c, usd) ==
    /\ At(c, "chunk")
    /\ Go(c, IF call[c].part = Parts[File(c)] THEN Answered(Charged(c, usd), "success")
             ELSE [Charged(c, usd) EXCEPT !.part = @ + 1])
    /\ Bill(usd)
    /\ UNCHANGED records

\* The answer is paid for, but is not JSON.
ChunkUnreadable(c, usd) ==
    /\ At(c, "chunk")
    /\ Go(c, [Charged(c, usd) EXCEPT !.at = "fallback"])
    /\ Bill(usd)
    /\ UNCHANGED records

\* MUTANT: the chunks already answered are not charged.
ChunkFailsForgettingCost(c) ==
    /\ At(c, "chunk")
    /\ Go(c, [call[c] EXCEPT !.at = "fallback", !.cost = 0])
    /\ UNCHANGED <<records, history>>

\* One failed chunk ends the attempt; those answered stay charged.
ChunkFails(c) ==
    /\ At(c, "chunk")
    /\ Go(c, [call[c] EXCEPT !.at = "fallback"])
    /\ UNCHANGED <<records, history>>

FallbackAnswers(c, usd) ==
    /\ At(c, "fallback")
    /\ Go(c, Answered(Charged(c, usd), "success"))
    /\ Bill(usd)
    /\ UNCHANGED records

\* MUTANT: the stages are gone through again.
FallbackFailsStartingOver(c) ==
    /\ At(c, "fallback")
    /\ Go(c, [call[c] EXCEPT !.at = "primary"])
    /\ UNCHANGED <<records, history>>

FallbackFails(c) ==
    /\ At(c, "fallback")
    /\ Go(c, Answered(call[c], "failure"))
    /\ UNCHANGED <<records, history>>

-----------------------------------------------------------------------------
(* Recording, and the end of the call. *)

\* The calls in progress that ask the same of the same transcript.
SameKey(c) == {d \in Calls : call[d] # Idle /\ call[d].key = call[c].key}

\* Success and failure alike: the spend, then the cache entry.
Record(c) ==
    /\ At(c, "answer")
    /\ spend' = spend + call[c].cost
    /\ cache' = [cache EXCEPT ![call[c].key] = call[c].entry]
    /\ call' = [call EXCEPT ![c] = Idle]
    /\ early' = (early \cup SameKey(c)) \ {c}
    /\ UNCHANGED <<sessions, fileDays, today, bill, losses>>

\* addSpend throws (lock timeout, failed write): the answer is thrown away.
SpendRefused(c) ==
    /\ At(c, "answer")
    /\ call[c].cost > 0
    /\ Lose(1)
    /\ Return(c)
    /\ UNCHANGED <<records, bill>>

\* The write of the cache entry throws once the spend is recorded.
EntryRefused(c) ==
    /\ At(c, "answer")
    /\ spend' = spend + call[c].cost
    /\ Return(c)
    /\ UNCHANGED <<cache, sessions, fileDays, today, bill, losses>>

Proceed(c) ==
    \/ Hit(c)
    \/ Refuse(c)
    \/ Admit(c)
    \/ \E usd \in Costs : \/ PrimaryAnswers(c, usd)
                          \/ ChunkAnswers(c, usd)
                          \/ ChunkUnreadable(c, usd)
                          \/ FallbackAnswers(c, usd)
    \/ PrimaryFails(c)
    \/ KeyMissing(c)
    \/ ChunkFails(c)
    \/ FallbackFails(c)
    \/ Record(c)
    \/ SpendRefused(c)
    \/ EntryRefused(c)

-----------------------------------------------------------------------------
(* Time, and the end of the process. *)

\* An entry expires, or is found half written by another process.
Expire(k) ==
    /\ cache[k] # "none"
    /\ cache' = [cache EXCEPT ![k] = "none"]
    /\ UNCHANGED <<sessions, fileDays, spend, today, call, history>>

NextDay ==
    /\ today < MaxDay
    /\ today' = today + 1
    /\ UNCHANGED <<cache, sessions, fileDays, spend, call, history>>

\* Counts are kept in memory only; the spend file and the cache stay.  What
\* the calls in progress cost is recorded by nobody.
Restart ==
    /\ Lose(Cardinality({c \in Calls : Admitted(c)}))
    /\ sessions' = [s \in Sessions |-> 0]
    /\ fileDays' = [fd \in Files \X (0 .. MaxDay) |-> 0]
    /\ call' = [c \in Calls |-> Idle]
    /\ early' = {}
    /\ UNCHANGED <<cache, spend, today, bill>>

Next ==
    \/ \E c \in Calls, s \in Sessions, k \in Keys : Lookup(c, s, k)
    \/ \E c \in Calls : Proceed(c)
    \/ \E k \in Keys : Expire(k)
    \/ NextDay
    \/ Restart

\* The event loop resumes every call, and a Gemini request is settled by its
\* own timeout at the latest.
Fairness == \A c \in Calls : WF_vars(Proceed(c))

Spec == Init /\ [][Next]_vars /\ Fairness

-----------------------------------------------------------------------------
(* Properties. *)

\* The most that one call may be charged: every chunk answered, the last one
\* unreadable, and then the fallback model.
WorstCost(f) == (IF Parts[f] = 1 THEN 1 ELSE Parts[f] + 1) * Max(Costs)

\* What calls in progress may still add to the spend.
AtRisk(c) == IF Admitted(c) THEN WorstCost(File(c)) ELSE 0

Exposure == SumOver([c \in Calls |-> AtRisk(c)], Calls)

\* The cap can be overshot by what the calls in progress cost, and by no
\* more: once the recorded spend has reached it no call is admitted, however
\* calls, stages, failures and restarts interleave (check, addSpend).
OvershootBounded ==
    \/ spend = 0 /\ Exposure = 0
    \/ spend + Exposure < SpendCap + Cardinality(Calls) * Max({WorstCost(f) : f \in Files})

\* What Gemini has charged to the calls in progress so far.
Underway == SumOver([c \in Calls |-> IF call[c] = Idle THEN 0 ELSE call[c].billed], Calls)

\* All that Gemini charges is in the spend file, or belongs to a call in
\* progress, or to a call whose recording was refused or that the end of the
\* process cut off; and each of those hides at most the cost of one call.
\* With OvershootBounded this bounds the bill itself, which the cap is about
\* (runWithFallback, addSpend).
BillAccounted ==
    bill =< spend + Underway + losses * Max({WorstCost(f) : f \in Files})

\* An answer, or a failure, is cached only together with all that Gemini
\* charged for it, at whichever stage; and it replaces another entry, which
\* means that both were paid for, only if its call was in progress already
\* when that entry, or one since expired, was stored: calls that overlap pay
\* twice, and the late failure of one may replace the answer of another, but
\* no call goes past an entry it could have found (get, addSpend before put).
CachedIsPaid ==
    [][\A k \in Keys :
          cache'[k] \notin {cache[k], "none"} =>
              \E c \in Calls : /\ At(c, "answer")
                               /\ call[c].key = k
                               /\ spend' = spend + call[c].billed
                               /\ cache[k] # "none" => c \in early]_vars

\* Every call is answered, whatever fails on the way (runWithFallback has no
\* loop that a failing chunk could keep alive).
EveryCallAnswered == \A c \in Calls : call[c] # Idle ~> call[c] = Idle

=============================================================================
