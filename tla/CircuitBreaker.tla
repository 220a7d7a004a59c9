--------------------------- MODULE CircuitBreaker ---------------------------
(***************************************************************************)
(* The circuit breakers between swarmx-api and Ollama: one per model       *)
(* (services/adaptive-timeout-config.ts) and the composer's own            *)
(* (routes/composer.ts), under composer requests, which try several models *)
(* several times each, and the services that call a model once (virality   *)
(* scorer, caption generator).                                             *)
(*                                                                         *)
(* Node is single-threaded: what a caller does between two awaits is one   *)
(* action.  (A request that fails with one candidate goes on to the next   *)
(* without an await; here other steps may come in between.)                *)
(*                                                                         *)
(* Abstractions.  Of a timestamp the model keeps whether it is younger     *)
(* than the duration it is compared with; Elapses ages it.  A failure      *)
(* count stops at its threshold, beyond which nothing depends on it, and   *)
(* successAfterHalfOpen goes back to 0 when half-open ends instead of when *)
(* the next one begins.  A call is external: it answers or fails, and may  *)
(* outlast a trip.                                                         *)
(***************************************************************************)
EXTENDS Naturals

CONSTANTS
    Tags,              \* model tags a request may try: canonical ones and aliases
    Models,            \* canonical tags
    resolveCanonicalTag, \* the canonical tag of each tag
    Requests,          \* composer requests under way at once
    Services,          \* other callers at once
    NoTag,             \* what an idle caller calls
    Threshold,         \* SWARMX_CB_FAILURE_THRESHOLD
    ComposerThreshold, \* SWARMX_COMPOSER_CB_FAILURE_THRESHOLD
    MaxAttempts        \* SWARMX_COMPOSER_RETRY_MAX_ATTEMPTS

ASSUME CircuitAssumption ==
    /\ Threshold         \in Nat \ {0}
    /\ ComposerThreshold \in Nat \ {0}
    /\ MaxAttempts       \in Nat \ {0}
    /\ NoTag \notin Tags \cup Models
    /\ resolveCanonicalTag \in [Tags -> Models]

VARIABLES
    circuit,   \* the circuit of each model
    composer,  \* composerCircuit
    request,   \* where each composer request is
    service,   \* the model each service awaits
    streak     \* history: outcomes of one kind recorded in a row, per model

vars == <<circuit, composer, request, service, streak>>

CIRCUIT_HALFOPEN_SUCCESS_THRESHOLD == 2

States == {"closed", "open", "half-open"}

Circuit ==
    [state    : States,
     failures : 0..Threshold,
     recent   : BOOLEAN,     \* now - lastFailureTs <= CIRCUIT_WINDOW_MS
     cooling  : BOOLEAN,     \* now - tripTs < CIRCUIT_OPEN_DURATION_MS
     successAfterHalfOpen : 0..(CIRCUIT_HALFOPEN_SUCCESS_THRESHOLD - 1)]

ComposerCircuit ==
    [state : States, failures : 0..ComposerThreshold,
     cooling : BOOLEAN]      \* now - openedAtMs < COMPOSER_CB_OPEN_MS

Request ==
    [at      : {"idle", "attempt", "calling", "backoff"},
     tag     : Tags \cup {NoTag},   \* the candidate
     attempt : 1..MaxAttempts,
     left    : SUBSET Tags]         \* candidates not tried yet

Streak == [bad : 0..Threshold, good : 0..CIRCUIT_HALFOPEN_SUCCESS_THRESHOLD]

TypeOK ==
    /\ circuit  \in [Models -> Circuit]
    /\ composer \in ComposerCircuit
    /\ request  \in [Requests -> Request]
    /\ service  \in [Services -> Models \cup {NoTag}]
    /\ streak   \in [Models -> Streak]

NewCircuit  == [state |-> "closed", failures |-> 0, recent |-> FALSE,
                cooling |-> FALSE, successAfterHalfOpen |-> 0]
IdleRequest == [at |-> "idle", tag |-> NoTag, attempt |-> 1, left |-> {}]

Init ==
    /\ circuit  = [m \in Models |-> NewCircuit]
    /\ composer = [state |-> "closed", failures |-> 0, cooling |-> FALSE]
    /\ request  = [r \in Requests |-> IdleRequest]
    /\ service  = [s \in Services |-> NoTag]
    /\ streak   = [m \in Models |-> [bad |-> 0, good |-> 0]]

-----------------------------------------------------------------------------
(* A model's circuit                                                       *)

(* Mutant of CountUpTo: off by one.                                        *)
CountPast(n, limit) == IF n <= limit THEN n + 1 ELSE n

CountUpTo(n, limit) == IF n < limit THEN n + 1 ELSE n

(* circuitState(): an open circuit is half-open once it has cooled down.   *)
Asked(c) ==
    IF c.state = "open" /\ ~c.cooling
    THEN [c EXCEPT !.state = "half-open"] ELSE c

(* Mutant of Succeeded: a success of a closed circuit is ignored.          *)
SucceededHalfOpenOnly(c) ==
    IF c.state # "half-open" THEN c
    ELSE IF c.successAfterHalfOpen + 1 >= CIRCUIT_HALFOPEN_SUCCESS_THRESHOLD
    THEN [c EXCEPT !.state = "closed", !.failures = 0, !.successAfterHalfOpen = 0]
    ELSE [c EXCEPT !.successAfterHalfOpen = @ + 1]

(* Mutant of Succeeded: the failures are kept when the circuit closes.     *)
SucceededKeepsFailures(c) ==
    IF c.state = "open" THEN c
    ELSE IF c.state = "closed" THEN [c EXCEPT !.failures = 0]
    ELSE IF c.successAfterHalfOpen + 1 >= CIRCUIT_HALFOPEN_SUCCESS_THRESHOLD
    THEN [c EXCEPT !.state = "closed", !.successAfterHalfOpen = 0]
    ELSE [c EXCEPT !.successAfterHalfOpen = @ + 1]

(* recordSuccess()                                                         *)
Succeeded(c) ==
    IF c.state = "open" THEN c
    ELSE IF c.state = "closed" THEN [c EXCEPT !.failures = 0]
    ELSE IF c.successAfterHalfOpen + 1 >= CIRCUIT_HALFOPEN_SUCCESS_THRESHOLD
    THEN [c EXCEPT !.state = "closed", !.failures = 0, !.successAfterHalfOpen = 0]
    ELSE [c EXCEPT !.successAfterHalfOpen = @ + 1]

FailureCounted(c) ==
    [c EXCEPT !.failures = IF c.recent THEN CountUpTo(@, Threshold) ELSE 1,
              !.recent   = TRUE]

Trips(c) ==
    \/ c.state = "half-open"
    \/ c.state = "closed" /\ FailureCounted(c).failures >= Threshold

(* recordFailure()                                                         *)
Failed(c) ==
    IF Trips(c)
    THEN [FailureCounted(c) EXCEPT !.state = "open", !.cooling = TRUE,
                                   !.successAfterHalfOpen = 0]
    ELSE FailureCounted(c)

RecordSuccess(m) ==
    /\ circuit' = [circuit EXCEPT ![m] = Succeeded(@)]
    /\ streak'  = [streak EXCEPT ![m] =
                     [bad |-> 0, good |-> CountUpTo(@.good, CIRCUIT_HALFOPEN_SUCCESS_THRESHOLD)]]

RecordFailure(m) ==
    /\ circuit' = [circuit EXCEPT ![m] = Failed(@)]
    /\ streak'  = [streak EXCEPT ![m] =
                     [bad |-> IF circuit[m].recent THEN CountUpTo(@.bad, Threshold) ELSE 1,
                      good |-> 0]]

-----------------------------------------------------------------------------
(* The composer's circuit                                                  *)

(* circuitIsOpen()                                                         *)
ComposerAsked(k) ==
    IF k.state = "open" /\ ~k.cooling THEN [k EXCEPT !.state = "half-open"] ELSE k

(* circuitRecordSuccess()                                                  *)
ComposerSucceeded(k) == [state |-> "closed", failures |-> 0, cooling |-> FALSE]

(* Mutant of ComposerFailed: an open circuit is opened again.              *)
ComposerFailedReopens(k) ==
    LET n == CountUpTo(k.failures, ComposerThreshold) IN
    IF n >= ComposerThreshold
    THEN [state |-> "open", failures |-> n, cooling |-> TRUE]
    ELSE [k EXCEPT !.failures = n]

(* circuitRecordFailure()                                                  *)
ComposerFailed(k) ==
    LET n == CountUpTo(k.failures, ComposerThreshold) IN
    IF n >= ComposerThreshold /\ k.state # "open"
    THEN [state |-> "open", failures |-> n, cooling |-> TRUE]
    ELSE [k EXCEPT !.failures = n]

-----------------------------------------------------------------------------
(* Composer requests                                                       *)

Ends(r) == request' = [request EXCEPT ![r] = IdleRequest]

Tries(r, t, left) ==
    request' = [request EXCEPT ![r] =
                  [at |-> "attempt", tag |-> t, attempt |-> 1, left |-> left]]

(* A request refused by the open circuit counts as another failure.        *)
RequestArrives(r) ==
    LET k == ComposerAsked(composer) IN
    /\ request[r].at = "idle"
    /\ IF k.state = "open" THEN composer' = ComposerFailed(k) /\ UNCHANGED request
       ELSE composer' = k /\ \E t \in Tags : Tries(r, t, Tags \ {t})
    /\ UNCHANGED <<circuit, service, streak>>

(* Mutant of GoesOn: the attempts are not counted.                         *)
GoesOnForever(r, retryable) ==
    IF retryable /\ request[r].attempt < MaxAttempts
    THEN request' = [request EXCEPT ![r].at = "backoff"] /\ UNCHANGED composer
    ELSE IF request[r].left # {}
    THEN (\E t \in request[r].left : Tries(r, t, request[r].left \ {t})) /\ UNCHANGED composer
    ELSE Ends(r) /\ composer' = ComposerFailed(composer)

(* After a failed attempt: the next one, the next candidate, or the end.   *)
GoesOn(r, retryable) ==
    IF retryable /\ request[r].attempt < MaxAttempts
    THEN /\ request' = [request EXCEPT ![r].at = "backoff", ![r].attempt = @ + 1]
         /\ UNCHANGED composer
    ELSE IF request[r].left # {}
    THEN (\E t \in request[r].left : Tries(r, t, request[r].left \ {t})) /\ UNCHANGED composer
    ELSE Ends(r) /\ composer' = ComposerFailed(composer)

(* getAdaptiveCallConfig(): an open circuit throws "... timeout circuit    *)
(* open", which shouldRetryModelError() finds worth a retry.               *)
Attempt(r) ==
    LET m == resolveCanonicalTag[request[r].tag]
        c == Asked(circuit[m])
    IN
    /\ request[r].at = "attempt"
    /\ circuit' = [circuit EXCEPT ![m] = c]
    /\ IF c.state = "open" THEN GoesOn(r, TRUE)
       ELSE request' = [request EXCEPT ![r].at = "calling"] /\ UNCHANGED composer
    /\ UNCHANGED <<service, streak>>

(* The request's time budget is used up: no attempt succeeds any more.     *)
BudgetExceeded(r) ==
    /\ request[r].at = "attempt"
    /\ GoesOn(r, FALSE)
    /\ UNCHANGED <<circuit, service, streak>>

(* requestModel() throws: no failure of the model is recorded.             *)
NotGranted(r) ==
    /\ request[r].at = "calling"
    /\ \E retryable \in BOOLEAN : GoesOn(r, retryable)
    /\ UNCHANGED <<circuit, service, streak>>

CallFails(r) ==
    /\ request[r].at = "calling"
    /\ RecordFailure(resolveCanonicalTag[request[r].tag])
    /\ \E retryable \in BOOLEAN : GoesOn(r, retryable)
    /\ UNCHANGED service

(* An empty answer is a success of the model and a failure of the request. *)
CallSucceeds(r, empty) ==
    /\ request[r].at = "calling"
    /\ RecordSuccess(resolveCanonicalTag[request[r].tag])
    /\ composer' = IF empty THEN ComposerFailed(ComposerSucceeded(composer))
                   ELSE ComposerSucceeded(composer)
    /\ Ends(r)
    /\ UNCHANGED service

BackoffOver(r) ==
    /\ request[r].at = "backoff"
    /\ request' = [request EXCEPT ![r].at = "attempt"]
    /\ UNCHANGED <<circuit, composer, service, streak>>

RequestStep(r) ==
    \/ Attempt(r) \/ BudgetExceeded(r) \/ NotGranted(r) \/ CallFails(r)
    \/ \E empty \in BOOLEAN : CallSucceeds(r, empty)
    \/ BackoffOver(r)

-----------------------------------------------------------------------------
(* Other callers                                                           *)

ServiceCalls(s, m) ==
    LET c == Asked(circuit[m]) IN
    /\ service[s] = NoTag
    /\ circuit' = [circuit EXCEPT ![m] = c]
    /\ service' = IF c.state = "open" THEN service ELSE [service EXCEPT ![s] = m]
    /\ UNCHANGED <<composer, request, streak>>

ServiceEnds(s, ok) ==
    /\ service[s] # NoTag
    /\ IF ok THEN RecordSuccess(service[s]) ELSE RecordFailure(service[s])
    /\ service' = [service EXCEPT ![s] = NoTag]
    /\ UNCHANGED <<composer, request>>

-----------------------------------------------------------------------------
(* Time passes: a window, or the duration of an open circuit.              *)
WindowElapses(m) ==
    /\ circuit[m].recent
    /\ circuit' = [circuit EXCEPT ![m].recent = FALSE]
    /\ UNCHANGED <<composer, request, service, streak>>

CoolsDown(m) ==
    /\ circuit[m].cooling
    /\ circuit' = [circuit EXCEPT ![m].cooling = FALSE]
    /\ UNCHANGED <<composer, request, service, streak>>

ComposerCoolsDown ==
    /\ composer.cooling
    /\ composer' = [composer EXCEPT !.cooling = FALSE]
    /\ UNCHANGED <<circuit, request, service, streak>>

Elapses ==
    \/ \E m \in Models : WindowElapses(m) \/ CoolsDown(m)
    \/ ComposerCoolsDown

Next ==
    \/ \E r \in Requests : RequestArrives(r) \/ RequestStep(r)
    \/ \E s \in Services, m \in Models : ServiceCalls(s, m)
    \/ \E s \in Services, ok \in BOOLEAN : ServiceEnds(s, ok)
    \/ Elapses

Spec == Init /\ [][Next]_vars

(* withTimeout() and the jittered delays end every await of a request.     *)
FairSpec == Spec /\ \A r \in Requests : WF_vars(RequestStep(r))

-----------------------------------------------------------------------------
(* Properties                                                              *)

(* A closed circuit never holds the failures that should have opened it,   *)
(* however late outcomes and half-open probes overlap.                     *)
ClosedBelowThreshold ==
    /\ \A m \in Models : circuit[m].state = "closed" => circuit[m].failures < Threshold
    /\ composer.state = "closed" => composer.failures < ComposerThreshold

(* A model's circuit opens only when Threshold failures in a row have been *)
(* recorded, and closes only on two successes in a row, although outcomes  *)
(* of calls made before it opened are counted with those of its probes.    *)
MovesOnStreaks ==
    [][\A m \in Models :
         /\ circuit[m].state = "closed" /\ circuit'[m].state = "open"
              => streak'[m].bad >= Threshold
         /\ circuit[m].state # "closed" /\ circuit'[m].state = "closed"
              => streak'[m].good >= CIRCUIT_HALFOPEN_SUCCESS_THRESHOLD]_vars

(* "a late error from a pre-open call cannot reset the openedAtMs          *)
(* countdown" (V6.2-FIX-06), of either kind of circuit.                    *)
LateErrorKeepsCountdown ==
    [][/\ \A m \in Models :
            circuit[m].state = "open" /\ circuit'[m].state = "open" /\ circuit'[m].cooling
              => circuit[m].cooling
       /\ composer.state = "open" /\ composer'.state = "open" /\ composer'.cooling
            => composer.cooling]_vars

(* A request is answered: whatever the circuits do meanwhile, attempts and *)
(* candidates run out.                                                     *)
RequestAnswered ==
    \A r \in Requests : request[r].at # "idle" ~> request[r].at = "idle"
=============================================================================
