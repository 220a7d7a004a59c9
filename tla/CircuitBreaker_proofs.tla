----------------------- MODULE CircuitBreaker_proofs -----------------------
(* Proofs about CircuitBreaker, for any models, aliases, callers and       *)
(* thresholds.                                                             *)
EXTENDS CircuitBreaker, TLAPS

-----------------------------------------------------------------------------
(* One model's circuit                                                     *)

(* What the threshold properties rest on: a closed circuit has counted no  *)
(* more failures than came in a row, a half-open one no more successes.    *)
CircuitOK(c, k) ==
    /\ c.state = "closed" => c.failures < Threshold /\ c.failures <= k.bad
    /\ c.state = "half-open" => c.successAfterHalfOpen <= k.good
    /\ c.state # "half-open" => c.successAfterHalfOpen = 0

(* How one step may move a circuit.                                        *)
CircuitMove(c, d, k) ==
    /\ c.state = "closed" /\ d.state = "open" => k.bad >= Threshold
    /\ c.state # "closed" /\ d.state = "closed"
         => k.good >= CIRCUIT_HALFOPEN_SUCCESS_THRESHOLD
    /\ c.state = "open" /\ d.state = "open" /\ d.cooling => c.cooling

(* The streak after a success, and after a failure.                        *)
GoodStreak(k) == [bad |-> 0, good |-> CountUpTo(k.good, CIRCUIT_HALFOPEN_SUCCESS_THRESHOLD)]
BadStreak(c, k) == [bad |-> IF c.recent THEN CountUpTo(k.bad, Threshold) ELSE 1, good |-> 0]

LEMMA CircuitValues ==
    /\ {"closed", "open", "half-open"} = States
    /\ 0 \in 0..Threshold
    /\ 0 \in 0..(CIRCUIT_HALFOPEN_SUCCESS_THRESHOLD - 1)
BY CircuitAssumption DEF States, CIRCUIT_HALFOPEN_SUCCESS_THRESHOLD

LEMMA AskedWell ==
    ASSUME NEW c \in Circuit, NEW k \in Streak, CircuitOK(c, k)
    PROVE  Asked(c) \in Circuit /\ CircuitOK(Asked(c), k) /\ CircuitMove(c, Asked(c), k)
BY CircuitAssumption
   DEF Asked, Circuit, Streak, States, CircuitOK, CircuitMove, CIRCUIT_HALFOPEN_SUCCESS_THRESHOLD

LEMMA SucceededWell ==
    ASSUME NEW c \in Circuit, NEW k \in Streak, CircuitOK(c, k)
    PROVE  /\ Succeeded(c) \in Circuit /\ GoodStreak(k) \in Streak
           /\ CircuitOK(Succeeded(c), GoodStreak(k))
           /\ CircuitMove(c, Succeeded(c), GoodStreak(k))
<1>1. GoodStreak(k) \in Streak
  BY CircuitAssumption DEF Streak, GoodStreak, CountUpTo, CIRCUIT_HALFOPEN_SUCCESS_THRESHOLD
<1>2. CASE c.state = "open"
  BY <1>1, <1>2 DEF Succeeded, CircuitOK, CircuitMove
<1>3. CASE c.state = "closed"
  BY <1>1, <1>3, CircuitAssumption
     DEF Succeeded, Circuit, States, CircuitOK, CircuitMove, GoodStreak
<1>4. CASE c.state = "half-open" /\ c.successAfterHalfOpen = 0
  BY <1>1, <1>4, CircuitAssumption
     DEF Succeeded, Circuit, States, Streak, CircuitOK, CircuitMove, GoodStreak, CountUpTo,
         CIRCUIT_HALFOPEN_SUCCESS_THRESHOLD
<1>5. CASE c.state = "half-open" /\ c.successAfterHalfOpen = 1
  <2>1. Succeeded(c) = [c EXCEPT !.state = "closed", !.failures = 0, !.successAfterHalfOpen = 0]
    BY <1>5 DEF Succeeded, CIRCUIT_HALFOPEN_SUCCESS_THRESHOLD
  <2>2. GoodStreak(k).good = 2 /\ GoodStreak(k).bad = 0
    BY <1>5 DEF CircuitOK, GoodStreak, CountUpTo, Streak, CIRCUIT_HALFOPEN_SUCCESS_THRESHOLD
  <2>3. Succeeded(c) \in Circuit
    BY <2>1, CircuitValues DEF Circuit
  <2> QED BY <1>1, <1>5, <2>1, <2>2, <2>3, CircuitAssumption
          DEF Circuit, CircuitOK, CircuitMove, CIRCUIT_HALFOPEN_SUCCESS_THRESHOLD
<1> QED BY <1>2, <1>3, <1>4, <1>5 DEF Circuit, States, CIRCUIT_HALFOPEN_SUCCESS_THRESHOLD

LEMMA FailureCountedWell ==
    ASSUME NEW c \in Circuit, NEW k \in Streak, CircuitOK(c, k)
    PROVE  /\ FailureCounted(c) \in Circuit /\ BadStreak(c, k) \in Streak
           /\ FailureCounted(c).state = c.state
           /\ FailureCounted(c).cooling = c.cooling
           /\ FailureCounted(c).successAfterHalfOpen = c.successAfterHalfOpen
           /\ c.state = "closed" => FailureCounted(c).failures <= BadStreak(c, k).bad
<1> DEFINE n == IF c.recent THEN CountUpTo(c.failures, Threshold) ELSE 1
           b == IF c.recent THEN CountUpTo(k.bad, Threshold) ELSE 1
<1>1. n \in 0..Threshold /\ b \in 0..Threshold
  BY CircuitAssumption DEF Circuit, Streak, CountUpTo
<1>2. c.failures <= k.bad => n <= b
  BY CircuitAssumption DEF Circuit, Streak, CountUpTo
<1>3. FailureCounted(c) = [c EXCEPT !.failures = n, !.recent = TRUE]
  BY DEF FailureCounted
<1>4. BadStreak(c, k) = [bad |-> b, good |-> 0]
  BY DEF BadStreak
<1> HIDE DEF n, b
<1>5. FailureCounted(c) \in Circuit
  BY <1>1, <1>3 DEF Circuit
<1>6. BadStreak(c, k) \in Streak
  BY <1>1, <1>4 DEF Streak, CIRCUIT_HALFOPEN_SUCCESS_THRESHOLD
<1> QED BY <1>2, <1>3, <1>4, <1>5, <1>6 DEF Circuit, CircuitOK

LEMMA FailedWell ==
    ASSUME NEW c \in Circuit, NEW k \in Streak, CircuitOK(c, k)
    PROVE  /\ Failed(c) \in Circuit /\ BadStreak(c, k) \in Streak
           /\ CircuitOK(Failed(c), BadStreak(c, k))
           /\ CircuitMove(c, Failed(c), BadStreak(c, k))
<1> DEFINE f == FailureCounted(c)
           b == BadStreak(c, k)
<1>1. /\ f \in Circuit /\ b \in Streak
      /\ f.state = c.state /\ f.cooling = c.cooling
      /\ f.successAfterHalfOpen = c.successAfterHalfOpen
      /\ c.state = "closed" => f.failures <= b.bad
  BY FailureCountedWell
<1> HIDE DEF f, b
<1>2. CASE Trips(c)
  <2>1. /\ c.state = "half-open" \/ (c.state = "closed" /\ f.failures >= Threshold)
        /\ Failed(c) = [f EXCEPT !.state = "open", !.cooling = TRUE, !.successAfterHalfOpen = 0]
    BY <1>2 DEF Trips, Failed, f
  <2>2. c.state = "closed" => b.bad >= Threshold
    BY <1>1, <2>1, CircuitAssumption DEF Circuit, Streak
  <2>3. Failed(c) \in Circuit
    BY <1>1, <2>1, CircuitValues DEF Circuit
  <2>4. Failed(c).state = "open" /\ Failed(c).successAfterHalfOpen = 0
    BY <1>1, <2>1 DEF Circuit
  <2> QED BY <1>1, <2>1, <2>2, <2>3, <2>4
          DEF Circuit, States, CircuitOK, CircuitMove, b, CIRCUIT_HALFOPEN_SUCCESS_THRESHOLD
<1>3. CASE ~Trips(c)
  <2>1. /\ c.state # "half-open" /\ (c.state = "closed" => ~(f.failures >= Threshold))
        /\ Failed(c) = f
    BY <1>3 DEF Trips, Failed, f
  <2> QED BY <1>1, <2>1, CircuitAssumption
          DEF Circuit, Streak, States, CircuitOK, CircuitMove, b
<1> QED BY <1>2, <1>3

-----------------------------------------------------------------------------
(* The composer's circuit                                                  *)

ComposerOK(k) == k.state = "closed" => k.failures < ComposerThreshold

(* With a threshold of 1 a late success whose answer is empty closes the   *)
(* circuit and opens it anew.                                              *)
ComposerMove(k, l) ==
    ComposerThreshold > 1 /\ k.state = "open" /\ l.state = "open" /\ l.cooling => k.cooling

LEMMA ComposerWell ==
    ASSUME NEW k \in ComposerCircuit, ComposerOK(k)
    PROVE  /\ ComposerAsked(k) \in ComposerCircuit /\ ComposerOK(ComposerAsked(k))
           /\ ComposerMove(k, ComposerAsked(k))
           /\ ComposerSucceeded(k) \in ComposerCircuit /\ ComposerOK(ComposerSucceeded(k))
           /\ ComposerMove(k, ComposerSucceeded(k))
           /\ ComposerFailed(k) \in ComposerCircuit /\ ComposerOK(ComposerFailed(k))
           /\ ComposerMove(k, ComposerFailed(k))
<1>1. /\ ComposerAsked(k) \in ComposerCircuit /\ ComposerOK(ComposerAsked(k))
      /\ ComposerMove(k, ComposerAsked(k))
  BY DEF ComposerAsked, ComposerCircuit, ComposerOK, ComposerMove, States
<1>2. /\ ComposerSucceeded(k) \in ComposerCircuit /\ ComposerOK(ComposerSucceeded(k))
      /\ ComposerMove(k, ComposerSucceeded(k))
  BY CircuitAssumption
     DEF ComposerSucceeded, ComposerCircuit, ComposerOK, ComposerMove, States
<1> DEFINE n == CountUpTo(k.failures, ComposerThreshold)
<1>3. n \in 0..ComposerThreshold
  BY CircuitAssumption DEF CountUpTo, ComposerCircuit
<1>4. ComposerFailed(k) = IF n >= ComposerThreshold /\ k.state # "open"
                          THEN [state |-> "open", failures |-> n, cooling |-> TRUE]
                          ELSE [k EXCEPT !.failures = n]
  BY DEF ComposerFailed
<1> HIDE DEF n
<1>5. /\ ComposerFailed(k) \in ComposerCircuit /\ ComposerOK(ComposerFailed(k))
      /\ ComposerMove(k, ComposerFailed(k))
  BY <1>3, <1>4, CircuitAssumption DEF ComposerCircuit, ComposerOK, ComposerMove, States
<1> QED BY <1>1, <1>2, <1>5

-----------------------------------------------------------------------------
(* The inductive invariant, and what a step keeps of it                    *)

Circuits ==
    /\ circuit \in [Models -> Circuit]
    /\ streak  \in [Models -> Streak]
    /\ \A m \in Models : CircuitOK(circuit[m], streak[m])

Composer == composer \in ComposerCircuit /\ ComposerOK(composer)

CallersKnown ==
    /\ request \in [Requests -> Request]
    /\ service \in [Services -> Models \cup {NoTag}]
    /\ \A r \in Requests : request[r].at # "idle" => request[r].tag \in Tags

CircuitInv == Circuits /\ Composer /\ CallersKnown

Moves ==
    /\ \A m \in Models : CircuitMove(circuit[m], circuit'[m], streak'[m])
    /\ ComposerMove(composer, composer')

(* A step that replaces the circuit of one model, well.                    *)
LEMMA OneCircuit ==
    ASSUME Circuits, NEW m \in Models, NEW d \in Circuit, NEW k \in Streak,
           CircuitOK(d, k), CircuitMove(circuit[m], d, k),
           circuit' = [circuit EXCEPT ![m] = d], streak' = [streak EXCEPT ![m] = k]
    PROVE  Circuits' /\ \A n \in Models : CircuitMove(circuit[n], circuit'[n], streak'[n])
<1>1. circuit' \in [Models -> Circuit] /\ streak' \in [Models -> Streak]
  BY DEF Circuits
<1>2. circuit'[m] = d /\ streak'[m] = k
  BY DEF Circuits
<1>3. \A n \in Models \ {m} : circuit'[n] = circuit[n] /\ streak'[n] = streak[n]
  BY DEF Circuits
<1>4. \A n \in Models \ {m} : CircuitMove(circuit[n], circuit'[n], streak'[n])
  BY <1>3 DEF CircuitMove
<1>5. \A n \in Models : CircuitOK(circuit'[n], streak'[n])
  BY <1>2, <1>3 DEF Circuits
<1> QED BY <1>1, <1>2, <1>4, <1>5 DEF Circuits

LEMMA NoCircuit ==
    ASSUME Circuits, UNCHANGED <<circuit, streak>>
    PROVE  Circuits' /\ \A n \in Models : CircuitMove(circuit[n], circuit'[n], streak'[n])
BY DEF Circuits, CircuitMove

LEMMA RecordSuccessWell ==
    ASSUME Circuits, NEW m \in Models, RecordSuccess(m)
    PROVE  Circuits' /\ \A n \in Models : CircuitMove(circuit[n], circuit'[n], streak'[n])
<1> DEFINE c == circuit[m]
           k == streak[m]
<1>1. c \in Circuit /\ k \in Streak /\ CircuitOK(c, k)
  BY DEF Circuits
<1>2. /\ circuit' = [circuit EXCEPT ![m] = Succeeded(c)]
      /\ streak'  = [streak EXCEPT ![m] = GoodStreak(k)]
  BY DEF RecordSuccess, GoodStreak, Circuits
<1> HIDE DEF k
<1>3. /\ Succeeded(c) \in Circuit /\ GoodStreak(k) \in Streak
      /\ CircuitOK(Succeeded(c), GoodStreak(k))
      /\ CircuitMove(c, Succeeded(c), GoodStreak(k))
  BY <1>1, SucceededWell
<1> QED BY <1>2, <1>3, OneCircuit

LEMMA RecordFailureWell ==
    ASSUME Circuits, NEW m \in Models, RecordFailure(m)
    PROVE  Circuits' /\ \A n \in Models : CircuitMove(circuit[n], circuit'[n], streak'[n])
<1> DEFINE c == circuit[m]
           k == streak[m]
<1>1. c \in Circuit /\ k \in Streak /\ CircuitOK(c, k)
  BY DEF Circuits
<1>2. /\ circuit' = [circuit EXCEPT ![m] = Failed(c)]
      /\ streak'  = [streak EXCEPT ![m] = BadStreak(c, k)]
  BY DEF RecordFailure, BadStreak, Circuits
<1> HIDE DEF k
<1>3. /\ Failed(c) \in Circuit /\ BadStreak(c, k) \in Streak
      /\ CircuitOK(Failed(c), BadStreak(c, k))
      /\ CircuitMove(c, Failed(c), BadStreak(c, k))
  BY <1>1, FailedWell
<1> QED BY <1>2, <1>3, OneCircuit

LEMMA AskingWell ==
    ASSUME Circuits, NEW m \in Models, UNCHANGED streak,
           circuit' = [circuit EXCEPT ![m] = Asked(circuit[m])]
    PROVE  Circuits' /\ \A n \in Models : CircuitMove(circuit[n], circuit'[n], streak'[n])
<1>1. circuit[m] \in Circuit /\ streak[m] \in Streak /\ CircuitOK(circuit[m], streak[m])
  BY DEF Circuits
<1>2. streak' = [streak EXCEPT ![m] = streak[m]]
  BY DEF Circuits
<1> QED BY <1>1, <1>2, AskedWell, OneCircuit

(* What a failed attempt may lead to.                                      *)
LEMMA GoesOnWell ==
    ASSUME CallersKnown, Composer, NEW r \in Requests, request[r].at # "idle",
           NEW retryable \in BOOLEAN, GoesOn(r, retryable), UNCHANGED service
    PROVE  CallersKnown' /\ Composer' /\ ComposerMove(composer, composer')
<1>1. CASE retryable /\ request[r].attempt < MaxAttempts
  <2>1. /\ request' = [request EXCEPT ![r].at = "backoff", ![r].attempt = @ + 1]
        /\ UNCHANGED composer
    BY <1>1 DEF GoesOn
  <2>2. request[r].attempt + 1 \in 1..MaxAttempts
    BY <1>1, CircuitAssumption DEF CallersKnown, Request
  <2>3. CallersKnown'
    BY <2>1, <2>2 DEF CallersKnown, Request
  <2> QED BY <2>1, <2>3 DEF Composer, ComposerMove
<1>2. CASE ~(retryable /\ request[r].attempt < MaxAttempts) /\ request[r].left # {}
  <2>1. PICK t \in request[r].left :
          request' = [request EXCEPT ![r] =
            [at |-> "attempt", tag |-> t, attempt |-> 1, left |-> request[r].left \ {t}]]
    BY <1>2 DEF GoesOn, Tries
  <2>2. UNCHANGED composer
    BY <1>2 DEF GoesOn
  <2>3. t \in Tags /\ request[r].left \ {t} \in SUBSET Tags /\ 1 \in 1..MaxAttempts
    BY CircuitAssumption DEF CallersKnown, Request
  <2>4. CallersKnown'
    BY <2>1, <2>3 DEF CallersKnown, Request
  <2> QED BY <2>2, <2>4 DEF Composer, ComposerMove
<1>3. CASE ~(retryable /\ request[r].attempt < MaxAttempts) /\ request[r].left = {}
  <2>1. request' = [request EXCEPT ![r] = IdleRequest] /\ composer' = ComposerFailed(composer)
    BY <1>3 DEF GoesOn, Ends
  <2>2. CallersKnown'
    BY <2>1, CircuitAssumption DEF CallersKnown, Request, IdleRequest
  <2> QED BY <2>1, <2>2, ComposerWell DEF Composer
<1> QED BY <1>1, <1>2, <1>3

LEMMA CircuitInit == Init => CircuitInv
<1> SUFFICES ASSUME Init PROVE CircuitInv
  OBVIOUS
<1>1. NewCircuit \in Circuit
  BY CircuitValues DEF NewCircuit, Circuit
<1>2. [bad |-> 0, good |-> 0] \in Streak
  BY CircuitValues DEF Streak, CIRCUIT_HALFOPEN_SUCCESS_THRESHOLD
<1>3. CircuitOK(NewCircuit, [bad |-> 0, good |-> 0])
  BY CircuitAssumption DEF CircuitOK, NewCircuit
<1>4. Circuits
  BY <1>1, <1>2, <1>3 DEF Init, Circuits
<1>5. Composer
  BY CircuitAssumption DEF Init, Composer, ComposerCircuit, ComposerOK, States
<1>6. CallersKnown
  BY CircuitAssumption DEF Init, CallersKnown, Request, IdleRequest
<1> QED BY <1>4, <1>5, <1>6 DEF CircuitInv

(* Time passes: a circuit that is only aged stays as it should be.         *)
LEMMA AgedWell ==
    ASSUME Circuits, NEW m \in Models, NEW d \in Circuit, UNCHANGED streak,
           circuit' = [circuit EXCEPT ![m] = d],
           d.state = circuit[m].state, d.failures = circuit[m].failures,
           d.successAfterHalfOpen = circuit[m].successAfterHalfOpen,
           d.cooling => circuit[m].cooling
    PROVE  Circuits' /\ \A n \in Models : CircuitMove(circuit[n], circuit'[n], streak'[n])
<1>1. streak[m] \in Streak /\ CircuitOK(d, streak[m])
  BY DEF Circuits, CircuitOK
<1>2. CircuitMove(circuit[m], d, streak[m])
  BY DEF CircuitMove
<1>3. streak' = [streak EXCEPT ![m] = streak[m]]
  BY DEF Circuits
<1> QED BY <1>1, <1>2, <1>3, OneCircuit

(* Every step keeps the invariant and moves the circuits as it may.        *)
LEMMA CircuitStep == CircuitInv /\ [Next]_vars => CircuitInv' /\ Moves
<1> SUFFICES ASSUME CircuitInv, [Next]_vars
             PROVE  CircuitInv' /\ Moves
  OBVIOUS
<1>0. Circuits /\ Composer /\ CallersKnown
  BY DEF CircuitInv
<1> DEFINE CircuitsMove == Circuits' /\ \A n \in Models :
                             CircuitMove(circuit[n], circuit'[n], streak'[n])
           ComposerMoves == Composer' /\ ComposerMove(composer, composer')
<1>q. CircuitsMove /\ ComposerMoves /\ CallersKnown' => CircuitInv' /\ Moves
  BY DEF CircuitInv, Moves
<1>s. UNCHANGED <<circuit, streak>> => CircuitsMove
  BY <1>0, NoCircuit
<1>c. UNCHANGED composer => ComposerMoves
  BY <1>0 DEF Composer, ComposerMove
<1>w. composer' \in {ComposerAsked(composer), ComposerSucceeded(composer), ComposerFailed(composer)}
        => ComposerMoves
  BY <1>0, ComposerWell DEF Composer
<1>t. ASSUME NEW r \in Requests, request[r].at # "idle"
      PROVE  resolveCanonicalTag[request[r].tag] \in Models
  BY <1>0, <1>t, CircuitAssumption DEF CallersKnown
<1> HIDE DEF CircuitsMove, ComposerMoves
<1>1. ASSUME NEW r \in Requests, RequestArrives(r)
      PROVE  CircuitInv' /\ Moves
  <2> DEFINE k == ComposerAsked(composer)
  <2>1. UNCHANGED <<circuit, service, streak>>
    BY <1>1 DEF RequestArrives
  <2>2. k \in ComposerCircuit /\ ComposerOK(k) /\ ComposerMove(composer, k)
    BY <1>0, ComposerWell DEF Composer
  <2>3. CASE k.state = "open"
    <3>1. composer' = ComposerFailed(k) /\ UNCHANGED request
      BY <1>1, <2>3 DEF RequestArrives
    <3>2. composer.state = "open" /\ k = composer
      BY <1>0, <2>3 DEF ComposerAsked, Composer, ComposerCircuit
    <3>3. ComposerMoves
      BY <1>w, <3>1, <3>2
    <3>4. CallersKnown'
      BY <1>0, <2>1, <3>1 DEF CallersKnown
    <3> QED BY <1>q, <1>s, <2>1, <3>3, <3>4
  <2>4. CASE k.state # "open"
    <3>1. composer' = k /\ \E t \in Tags : Tries(r, t, Tags \ {t})
      BY <1>1, <2>4 DEF RequestArrives
    <3>2. PICK t \in Tags : request' = [request EXCEPT ![r] =
             [at |-> "attempt", tag |-> t, attempt |-> 1, left |-> Tags \ {t}]]
      BY <3>1 DEF Tries
    <3>3. CallersKnown'
      BY <1>0, <2>1, <3>2, CircuitAssumption DEF CallersKnown, Request
    <3> QED BY <1>q, <1>s, <1>w, <2>1, <3>1, <3>3
  <2> QED BY <2>3, <2>4
<1>2. ASSUME NEW r \in Requests, Attempt(r)
      PROVE  CircuitInv' /\ Moves
  <2> DEFINE m == resolveCanonicalTag[request[r].tag]
  <2>1. /\ request[r].at = "attempt" /\ UNCHANGED <<service, streak>>
        /\ circuit' = [circuit EXCEPT ![m] = Asked(circuit[m])]
        /\ \/ GoesOn(r, TRUE)
           \/ request' = [request EXCEPT ![r].at = "calling"] /\ UNCHANGED composer
    BY <1>2 DEF Attempt
  <2>2. m \in Models
    BY <1>t, <2>1
  <2>3. CircuitsMove
    BY <1>0, <2>1, <2>2, AskingWell DEF CircuitsMove
  <2>4. CASE GoesOn(r, TRUE)
    BY <1>0, <1>q, <2>1, <2>3, <2>4, GoesOnWell DEF ComposerMoves
  <2>5. CASE request' = [request EXCEPT ![r].at = "calling"] /\ UNCHANGED composer
    <3>1. CallersKnown'
      BY <1>0, <2>1, <2>5 DEF CallersKnown, Request
    <3> QED BY <1>q, <1>c, <2>3, <2>5, <3>1
  <2> QED BY <2>1, <2>4, <2>5
<1>3. ASSUME NEW r \in Requests, BudgetExceeded(r) \/ NotGranted(r)
      PROVE  CircuitInv' /\ Moves
  <2>1. PICK retryable \in BOOLEAN : GoesOn(r, retryable)
    BY <1>3 DEF BudgetExceeded, NotGranted
  <2>2. request[r].at # "idle" /\ UNCHANGED <<circuit, service, streak>>
    BY <1>3 DEF BudgetExceeded, NotGranted
  <2> QED BY <1>0, <1>q, <1>s, <2>1, <2>2, GoesOnWell DEF ComposerMoves
<1>4. ASSUME NEW r \in Requests, CallFails(r)
      PROVE  CircuitInv' /\ Moves
  <2>1. PICK retryable \in BOOLEAN : GoesOn(r, retryable)
    BY <1>4 DEF CallFails
  <2>2. /\ request[r].at # "idle" /\ UNCHANGED service
        /\ RecordFailure(resolveCanonicalTag[request[r].tag])
    BY <1>4 DEF CallFails
  <2>3. CircuitsMove
    BY <1>0, <1>t, <2>2, RecordFailureWell DEF CircuitsMove
  <2> QED BY <1>0, <1>q, <2>1, <2>2, <2>3, GoesOnWell DEF ComposerMoves
<1>5. ASSUME NEW r \in Requests, NEW empty \in BOOLEAN, CallSucceeds(r, empty)
      PROVE  CircuitInv' /\ Moves
  <2>1. /\ request[r].at # "idle" /\ UNCHANGED service
        /\ RecordSuccess(resolveCanonicalTag[request[r].tag])
        /\ request' = [request EXCEPT ![r] = IdleRequest]
        /\ \/ composer' = ComposerSucceeded(composer)
           \/ composer' = ComposerFailed(ComposerSucceeded(composer))
    BY <1>5 DEF CallSucceeds, Ends
  <2>2. CircuitsMove
    BY <1>0, <1>t, <2>1, RecordSuccessWell DEF CircuitsMove
  <2>3. CallersKnown'
    BY <1>0, <2>1, CircuitAssumption DEF CallersKnown, Request, IdleRequest
  <2>4. CASE composer' = ComposerSucceeded(composer)
    BY <1>q, <1>w, <2>2, <2>3, <2>4
  <2>5. CASE composer' = ComposerFailed(ComposerSucceeded(composer))
    <3> DEFINE k == ComposerSucceeded(composer)
    <3>1. k \in ComposerCircuit /\ ComposerOK(k)
      BY <1>0, ComposerWell DEF Composer
    <3>2. ComposerFailed(k) \in ComposerCircuit /\ ComposerOK(ComposerFailed(k))
      BY <3>1, ComposerWell
    <3>3. ComposerMoves
      <4>1. ComposerThreshold > 1 => ComposerFailed(k).state = "closed"
        BY CircuitAssumption DEF ComposerFailed, ComposerSucceeded, CountUpTo
      <4> QED BY <2>5, <3>2, <4>1 DEF ComposerMoves, ComposerMove, Composer
    <3> QED BY <1>q, <2>2, <2>3, <3>3
  <2> QED BY <2>1, <2>4, <2>5
<1>6. ASSUME NEW r \in Requests, BackoffOver(r)
      PROVE  CircuitInv' /\ Moves
  <2>1. CallersKnown'
    BY <1>0, <1>6 DEF BackoffOver, CallersKnown, Request
  <2> QED BY <1>q, <1>s, <1>c, <1>6, <2>1 DEF BackoffOver
<1>7. ASSUME NEW s \in Services, NEW m \in Models, ServiceCalls(s, m)
      PROVE  CircuitInv' /\ Moves
  <2>1. CircuitsMove
    BY <1>0, <1>7, AskingWell DEF ServiceCalls, CircuitsMove
  <2>2. CallersKnown'
    BY <1>0, <1>7 DEF ServiceCalls, CallersKnown
  <2> QED BY <1>q, <1>c, <1>7, <2>1, <2>2 DEF ServiceCalls
<1>8. ASSUME NEW s \in Services, NEW ok \in BOOLEAN, ServiceEnds(s, ok)
      PROVE  CircuitInv' /\ Moves
  <2>1. service[s] \in Models
    BY <1>0, <1>8 DEF ServiceEnds, CallersKnown
  <2>2. CircuitsMove
    BY <1>0, <1>8, <2>1, RecordSuccessWell, RecordFailureWell DEF ServiceEnds, CircuitsMove
  <2>3. CallersKnown'
    BY <1>0, <1>8 DEF ServiceEnds, CallersKnown
  <2> QED BY <1>q, <1>c, <1>8, <2>2, <2>3 DEF ServiceEnds
<1>9. ASSUME NEW m \in Models, WindowElapses(m) \/ CoolsDown(m)
      PROVE  CircuitInv' /\ Moves
  <2>1. PICK d \in Circuit :
          /\ circuit' = [circuit EXCEPT ![m] = d]
          /\ d.state = circuit[m].state /\ d.failures = circuit[m].failures
          /\ d.successAfterHalfOpen = circuit[m].successAfterHalfOpen
          /\ d.cooling => circuit[m].cooling
    <3>1. CASE WindowElapses(m)
      <4> DEFINE d == [circuit[m] EXCEPT !.recent = FALSE]
      <4>1. circuit[m] \in Circuit /\ circuit' = [circuit EXCEPT ![m] = d]
        BY <1>0, <3>1 DEF WindowElapses, Circuits
      <4>2. /\ d \in Circuit /\ d.cooling = circuit[m].cooling
            /\ d.state = circuit[m].state /\ d.failures = circuit[m].failures
            /\ d.successAfterHalfOpen = circuit[m].successAfterHalfOpen
        BY <4>1 DEF Circuit
      <4> QED BY <4>1, <4>2
    <3>2. CASE CoolsDown(m)
      <4> DEFINE d == [circuit[m] EXCEPT !.cooling = FALSE]
      <4>1. circuit[m] \in Circuit /\ circuit' = [circuit EXCEPT ![m] = d]
        BY <1>0, <3>2 DEF CoolsDown, Circuits
      <4>2. /\ d \in Circuit /\ d.cooling = FALSE
            /\ d.state = circuit[m].state /\ d.failures = circuit[m].failures
            /\ d.successAfterHalfOpen = circuit[m].successAfterHalfOpen
        BY <4>1 DEF Circuit
      <4> QED BY <4>1, <4>2
    <3> QED BY <1>9, <3>1, <3>2
  <2>2. UNCHANGED <<composer, request, service, streak>>
    BY <1>9 DEF WindowElapses, CoolsDown
  <2>3. CircuitsMove
    BY <1>0, <2>1, <2>2, AgedWell DEF CircuitsMove
  <2>4. CallersKnown'
    BY <1>0, <2>2 DEF CallersKnown
  <2> QED BY <1>q, <1>c, <2>2, <2>3, <2>4
<1>10. CASE ComposerCoolsDown
  <2>1. UNCHANGED <<circuit, request, service, streak>>
    BY <1>10 DEF ComposerCoolsDown
  <2>2. ComposerMoves
    BY <1>0, <1>10 DEF ComposerCoolsDown, ComposerMoves, ComposerMove, Composer,
                      ComposerCircuit, ComposerOK
  <2>3. CallersKnown'
    BY <1>0, <2>1 DEF CallersKnown
  <2> QED BY <1>q, <1>s, <2>1, <2>2, <2>3
<1>11. CASE UNCHANGED vars
  <2>1. CallersKnown'
    BY <1>0, <1>11 DEF vars, CallersKnown
  <2> QED BY <1>q, <1>s, <1>c, <1>11, <2>1 DEF vars
<1> QED BY <1>1, <1>2, <1>3, <1>4, <1>5, <1>6, <1>7, <1>8, <1>9, <1>10, <1>11
        DEF Next, RequestStep, Elapses

-----------------------------------------------------------------------------
(* The theorems                                                            *)

(* Every circuit, request and service has its type, for any thresholds.    *)
THEOREM CircuitTypeCorrect == Spec => []TypeOK
<1>1. CircuitInv => TypeOK
  BY DEF CircuitInv, Circuits, Composer, CallersKnown, TypeOK
<1> QED BY <1>1, CircuitInit, CircuitStep, PTL DEF Spec

(* A closed circuit never holds the failures that should have opened it:   *)
(* recordFailure() and circuitRecordFailure() leave none behind.           *)
THEOREM CircuitClosedBelowThreshold == Spec => []ClosedBelowThreshold
<1>1. CircuitInv => ClosedBelowThreshold
  BY DEF CircuitInv, Circuits, CircuitOK, Composer, ComposerOK, ClosedBelowThreshold
<1> QED BY <1>1, CircuitInit, CircuitStep, PTL DEF Spec

(* A model's circuit opens on a streak of failures and closes on a streak  *)
(* of successes only, however late outcomes and probes overlap.            *)
THEOREM CircuitMovesOnStreaks == Spec => MovesOnStreaks
<1> DEFINE A == \A m \in Models :
         /\ circuit[m].state = "closed" /\ circuit'[m].state = "open"
              => streak'[m].bad >= Threshold
         /\ circuit[m].state # "closed" /\ circuit'[m].state = "closed"
              => streak'[m].good >= CIRCUIT_HALFOPEN_SUCCESS_THRESHOLD
<1>1. Moves => A
  BY DEF Moves, CircuitMove
<1>2. CircuitInv /\ [Next]_vars => [A]_vars
  BY <1>1, CircuitStep
<1> QED BY <1>2, CircuitInit, CircuitStep, PTL DEF Spec, MovesOnStreaks

(* No late outcome restarts the countdown of an open circuit, as long as   *)
(* the composer's threshold is not 1.                                      *)
THEOREM CircuitLateErrorKeepsCountdown ==
    ASSUME ComposerThreshold > 1
    PROVE  Spec => LateErrorKeepsCountdown
<1> DEFINE A ==
       /\ \A m \in Models :
            circuit[m].state = "open" /\ circuit'[m].state = "open" /\ circuit'[m].cooling
              => circuit[m].cooling
       /\ composer.state = "open" /\ composer'.state = "open" /\ composer'.cooling
            => composer.cooling
<1>1. Moves => A
  BY DEF Moves, CircuitMove, ComposerMove
<1>2. CircuitInv /\ [Next]_vars => [A]_vars
  BY <1>1, CircuitStep
<1> QED BY <1>2, CircuitInit, CircuitStep, PTL DEF Spec, LateErrorKeepsCountdown
=============================================================================
