----------------------------- MODULE PortalNotify -----------------------------
(***************************************************************************)
(* The tool notify_send (packages/portal-notify-tool/src): it posts a      *)
(* notice to the portal, which sends it to the members by LINE or mail.    *)
(* The client tries again after an error that may pass, and posts once     *)
(* more when the portal answers that deliveries are pending, with the same *)
(* idempotencyKey each time.                                               *)
(*                                                                         *)
(* The portal, modelled from what the client and the description of the    *)
(* tool say of it, sends a notice once to a member for one key.  A request *)
(* that the client has given up may still reach it, the answer of one that *)
(* did may be lost, and several calls of the tool may run at once.  Texts  *)
(* and delays are left out.                                                *)
(***************************************************************************)
EXTENDS Integers, FiniteSets

CONSTANTS
    Notices,         \* calls of the tool
    Members,
    AgentKeys,       \* values the agent passes as idempotencyKey
    MaxRetries,      \* length of retryFailedDelaysMs
    MaxPending       \* retryPendingMaxAttempts

ASSUME NotifyAssumption ==
    /\ AgentKeys \cap Notices = {}
    /\ IsFiniteSet(Members) /\ Members # {}
    /\ MaxRetries \in Nat /\ MaxPending \in Nat

VARIABLES
    call,      \* notice -> how far its call is
    portal,    \* key -> member -> what became of the notice, and for which call
    late,      \* notice -> requests the client has given up and the portal has not seen
    got        \* notice -> member -> how often a message went to the member for it

notifyVars == <<call, portal, late, got>>

NoAnswer == [status |-> "none", sent |-> 0, pending |-> 0]

NewCall == [step |-> "new", key |-> "none", phase |-> "base", attempt |-> 0,
            again |-> 0, answer |-> NoAnswer, current |-> NoAnswer, result |-> "none",
            lost |-> FALSE]

NotifyInit ==
    /\ call = [n \in Notices |-> NewCall]
    /\ portal = <<>>
    /\ late = [n \in Notices |-> 0]
    /\ got = [n \in Notices |-> [m \in Members |-> 0]]

(***************************************************************************)
(* The portal.                                                             *)
(***************************************************************************)
Unsent == [m \in Members |-> [status |-> "none", by |-> "none"]]

StatusFor(key) == IF key \in DOMAIN portal THEN portal[key] ELSE Unsent

\* What a delivery may turn into: whoever has the notice is left alone.
Outcomes(delivery, n) ==
    IF delivery.status = "sent"
    THEN {delivery}
    ELSE {[status |-> s, by |-> IF delivery.status = "pending" THEN delivery.by ELSE n] :
             s \in {"sent", "pending", "failed"}}

Count(deliveries, status) == Cardinality({m \in Members : deliveries[m].status = status})

\* The notice of a request goes out, as far as it has not under its key.
Deliver(n, key, deliveries) ==
    /\ deliveries \in [Members -> UNION {Outcomes(StatusFor(key)[m], n) : m \in Members}]
    /\ \A m \in Members : deliveries[m] \in Outcomes(StatusFor(key)[m], n)
    /\ portal' = [k \in DOMAIN portal \cup {key} |->
                     IF k = key THEN deliveries ELSE portal[k]]
    /\ got' = [c \in Notices |-> [m \in Members |->
                  got[c][m] + IF /\ StatusFor(key)[m].status # "sent"
                                 /\ deliveries[m] = [status |-> "sent", by |-> c]
                              THEN 1 ELSE 0]]

Answers(n, status, deliveries) ==
    call' = [call EXCEPT ![n].step = "answered",
                         ![n].answer = [status |-> status,
                                        sent |-> Count(deliveries, "sent"),
                                        pending |-> Count(deliveries, "pending")]]

\* A request that is handled: 502 if all deliveries failed, 200 otherwise; the
\* answer may be another 5xx or not be understood all the same.
PortalHandles(n) ==
    /\ call[n].step = "waiting"
    /\ \E deliveries \in [Members -> [status : {"sent", "pending", "failed"},
                                      by : Notices]] :
          /\ Deliver(n, call[n].key, deliveries)
          /\ LET failed == Count(deliveries, "failed") = Cardinality(Members)
             IN \E status \in {"500", "malformed"}
                                 \cup (IF failed THEN {"502", "200"} ELSE {"200"}) :
                   Answers(n, status, deliveries)
    /\ UNCHANGED late

PortalRefuses(n) ==
    /\ call[n].step = "waiting"
    /\ \E status \in {"400", "401", "404", "410", "500"} : Answers(n, status, Unsent)
    /\ UNCHANGED <<portal, late, got>>

PortalHandlesLate(n) ==
    /\ late[n] > 0
    /\ late' = [late EXCEPT ![n] = @ - 1]
    /\ \E deliveries \in [Members -> [status : {"sent", "pending", "failed"},
                                      by : Notices]] :
          Deliver(n, call[n].key, deliveries)
    /\ UNCHANGED call

(***************************************************************************)
(* The client: send, attemptSend, retryWithBackoff, retryPending.          *)
(***************************************************************************)
\* A notice without a key of the agent's gets one that is its own.
idempotencyKey(n, given) == IF given \in AgentKeys THEN given ELSE n

\* Mutant: every attempt has a key of its own.
KeyOfAttempt(n) == <<n, call[n].attempt, call[n].again>>

\* The key of a request is the one of its call.
KeyOfRequest(n) == call[n].key

Send(n) ==
    /\ call[n].step = "new"
    /\ \E given \in AgentKeys \cup {"none"} :
          call' = [call EXCEPT ![n].key = idempotencyKey(n, given), ![n].step = "ready"]
    /\ UNCHANGED <<portal, late, got>>

Post(n) ==
    /\ call[n].step = "ready"
    /\ call' = [call EXCEPT ![n].step = "waiting", ![n].key = KeyOfRequest(n)]
    /\ UNCHANGED <<portal, late, got>>

\* A timeout or a network error; the request is lost, or on its way.
NetworkError(n) ==
    /\ call[n].step = "waiting"
    /\ call' = [call EXCEPT ![n].step = "answered", ![n].lost = TRUE,
                            ![n].answer = [NoAnswer EXCEPT !.status = "network"]]
    /\ \/ late' = [late EXCEPT ![n] = @ + 1]
       \/ UNCHANGED late
    /\ UNCHANGED <<portal, got>>

Transient == {"network", "500", "502"}

Retry(n) ==
    /\ call[n].step = "answered"
    /\ call[n].answer.status \in Transient
    /\ call[n].attempt < MaxRetries
    /\ call' = [call EXCEPT ![n].attempt = @ + 1, ![n].step = "ready",
                            ![n].answer = NoAnswer,
                            ![n].lost = @ \/ call[n].answer.status = "500"]
    /\ UNCHANGED <<portal, late, got>>

Done(n, result) ==
    /\ call' = [call EXCEPT ![n].step = "done", ![n].result = result,
                            ![n].answer = IF result = "ok" THEN @ ELSE NoAnswer,
                            ![n].attempt = 0,
                            ![n].lost = @ \/ call[n].answer.status \in {"500", "malformed"}]
    /\ UNCHANGED <<portal, late, got>>

GiveUp(n) ==
    /\ call[n].step = "answered"
    /\ call[n].answer.status \in Transient
    /\ call[n].attempt = MaxRetries
    /\ Done(n, IF call[n].answer.status = "502" THEN "delivery" ELSE "unavailable")

\* 200 although all deliveries failed counts as the 502 it should have been,
\* but ends the call at once.  (There are members: if none has the notice and
\* none is to get it, all deliveries have failed.)
NothingSent(answer) == answer.status = "200" /\ answer.sent = 0 /\ answer.pending = 0

\* Mutant: whatever ends the call early counts as a failure to deliver.
RefusedAsUndelivered(n) ==
    /\ call[n].step = "answered"
    /\ \/ call[n].answer.status \in {"400", "401", "404", "410", "malformed"}
       \/ NothingSent(call[n].answer)
    /\ Done(n, "delivery")

Refused(n) ==
    /\ call[n].step = "answered"
    /\ \/ /\ call[n].answer.status \in {"400", "401", "404", "410", "malformed"}
          /\ Done(n, call[n].answer.status)
       \/ /\ NothingSent(call[n].answer)
          /\ Done(n, "delivery")

Delivered(answer) == answer.status = "200" /\ ~NothingSent(answer)

\* Deliveries are pending: the same notice is posted again, with retries of its own.
\* The answer so far is current; it is dropped if posting again throws.
PostAgain(n) ==
    /\ call[n].step = "answered"
    /\ Delivered(call[n].answer)
    /\ call[n].answer.pending > 0
    /\ call[n].again < MaxPending
    /\ call' = [call EXCEPT ![n].again = @ + 1, ![n].phase = "pending",
                            ![n].attempt = 0, ![n].step = "ready",
                            ![n].current = call[n].answer, ![n].answer = NoAnswer]
    /\ UNCHANGED <<portal, late, got>>

Succeed(n) ==
    /\ call[n].step = "answered"
    /\ Delivered(call[n].answer)
    /\ call[n].answer.pending = 0 \/ call[n].again = MaxPending
    /\ Done(n, "ok")

NotifyNext ==
    \E n \in Notices :
       \/ Send(n) \/ Post(n) \/ NetworkError(n) \/ Retry(n) \/ GiveUp(n)
       \/ Refused(n) \/ PostAgain(n) \/ Succeed(n)
       \/ PortalHandles(n) \/ PortalRefuses(n) \/ PortalHandlesLate(n)

NotifySpec == NotifyInit /\ [][NotifyNext]_notifyVars

(***************************************************************************)
(* Properties.                                                             *)
(***************************************************************************)
PortalAnswer ==
    [status : {"none", "network", "200", "400", "401", "404", "410", "500", "502",
               "malformed"},
     sent : 0..Cardinality(Members), pending : 0..Cardinality(Members)]

NoticeCall ==
    [step : {"new", "ready", "waiting", "answered", "done"},
     key : AgentKeys \cup Notices \cup {"none"},
     phase : {"base", "pending"}, attempt : 0..MaxRetries, again : 0..MaxPending,
     answer : PortalAnswer, current : PortalAnswer,
     result : {"none", "ok", "delivery", "unavailable", "400", "401", "404", "410",
               "malformed"},
     lost : BOOLEAN]

\* The calls, and what the portal has done for them.
NotifyTypeOK ==
    /\ call \in [Notices -> NoticeCall]
    /\ DOMAIN portal \subseteq AgentKeys \cup Notices
    /\ \A n \in Notices : late[n] \in 0..((MaxRetries + 1) * (MaxPending + 1))
    /\ got \in [Notices -> [Members -> Nat]]

\* However often a call posts its notice, through timeouts, errors, requests
\* that arrive late and the second post for pending deliveries, a member gets
\* it once; and once for all calls to which the agent gave the same key.
NotifiedOnce ==
    \A n, other \in Notices, m \in Members :
       /\ got[n][m] <= 1
       /\ (n # other /\ call[n].key \in AgentKeys /\ call[n].key = call[other].key)
             => got[n][m] + got[other][m] <= 1

Notified(n) == {m \in Members : got[n][m] > 0}

\* What the tool tells the agent is true.  After "delivered" the portal has sent
\* what it says, and something is sent or pending.  After a failure, unless an
\* answer was lost: no member has been notified by this call if all deliveries
\* are said to have failed, whether when the notice was first posted or posted
\* again; any other failure of posting again (retryPending throws or returns it,
\* and drops the answer it had) hides no more than what that answer counted as
\* sent or pending; and one of the first post hides nothing.
OutcomeHonest ==
    \A n \in Notices :
       call[n].step = "done" =>
          IF call[n].result = "ok"
          THEN /\ call[n].answer.sent <= Count(StatusFor(call[n].key), "sent")
               /\ call[n].answer.sent + call[n].answer.pending > 0
          ELSE \/ call[n].lost
               \/ Notified(n) = {}
               \/ /\ call[n].result # "delivery" /\ call[n].phase = "pending"
                  /\ Cardinality(Notified(n))
                        <= call[n].current.sent + call[n].current.pending
===============================================================================
