---------------------- MODULE ModelOrchestrator_proofs ----------------------
(***************************************************************************)
(* Proofs about ModelOrchestrator, for any number of callers and models.   *)
(* First that an eviction and a sweep leave the callers in good order,     *)
(* then one inductive invariant for the type, the bookkeeping of the       *)
(* active models and the queue of evictions; then the SINGLE-7B LOCK and   *)
(* the headroom rule, for one caller at a time and an Ollama that answers; *)
(* last that no step sets a request back.                                  *)
(***************************************************************************)
EXTENDS ModelOrchestrator, TLAPS

(* What the orchestrator knows is well-typed, its 7B model an active one.  *)
Consistent(t) ==
    /\ t \in Tracked
    /\ t.seven # NoModel => t.seven \in t.models

(* With inFlightEviction q and callers b, whoever waits waits for an       *)
(* eviction under way, and whoever is busy is with some model.             *)
Orderly(q, b) ==
    /\ q \in Callers \cup {NoCaller}
    /\ b \in [Callers -> Call]
    /\ q # NoCaller => b[q].pc = "evicting"
    /\ \A w \in Callers : b[w].pc = "waiting" =>
          b[w].awaits \in Callers /\ b[b[w].awaits].pc = "evicting"
    /\ \A w \in Callers : b[w].pc # "idle" => b[w].model \in Models

(* Nobody waits, or would wait, for an eviction of c.                      *)
Unawaited(c, q, b) ==
    /\ q # c
    /\ \A w \in Callers : b[w].pc = "waiting" => b[w].awaits # c

(* A model that is granted or preloaded becomes an active one.             *)
LEMMA TrackConsistent ==
    ASSUME NEW t, Consistent(t), NEW m \in Models
    PROVE  Consistent(Track(t, m))
BY OrchestratorAssumption DEF Consistent, Track, Tracked

(* A model that is evicted is no longer the active 7B one.                 *)
LEMMA ForgetConsistent ==
    ASSUME NEW t, Consistent(t), NEW m
    PROVE  Consistent(Forget(t, m))
BY OrchestratorAssumption DEF Consistent, Forget, Tracked

(* Whatever /api/ps answers, the active 7B model is one of those listed.   *)
LEMMA SyncConsistent ==
    ASSUME resident \subseteq Models, Consistent(tracked), NEW t \in SyncAnswers
    PROVE  Consistent(t)
BY OrchestratorAssumption DEF Consistent, SyncAnswers, Tracked

(* An eviction begins or queues up behind one that is under way.           *)
LEMMA EvictOrderly ==
    ASSUME NEW c \in Callers, NEW q, NEW b, NEW k \in Call,
           NEW v \in Models \cup {NoModel}, k.model \in Models,
           Orderly(q, b), Unawaited(c, q, b), Evict(c, q, b, k, v)
    PROVE  Orderly(inFlight', call')
<1>1. CASE q = NoCaller
  <2> DEFINE n == [k EXCEPT !.pc = "evicting", !.victim = v]
  <2>1. n \in Call /\ n.pc = "evicting" /\ n.model \in Models
    BY DEF Call
  <2>2. call' = [b EXCEPT ![c] = n] /\ inFlight' = c
    BY <1>1 DEF Evict
  <2> HIDE DEF n
  <2> QED BY <2>1, <2>2 DEF Orderly, Unawaited
<1>2. CASE q # NoCaller
  <2> DEFINE n == [k EXCEPT !.pc = "waiting", !.victim = v, !.awaits = q]
  <2>1. q \in Callers
    BY <1>2 DEF Orderly
  <2>2. n \in Call /\ n.pc = "waiting" /\ n.awaits = q /\ n.model \in Models
    BY <2>1 DEF Call
  <2>3. call' = [b EXCEPT ![c] = n] /\ inFlight' = q
    BY <1>2 DEF Evict
  <2> HIDE DEF n
  <2>4. q # c /\ b[q].pc = "evicting" /\ b \in [Callers -> Call]
    BY <1>2, <2>1 DEF Orderly, Unawaited
  <2>5. call' \in [Callers -> Call] /\ call'[c] = n
    BY <2>2, <2>3, <2>4
  <2>6. \A w \in Callers \ {c} : call'[w] = b[w]
    BY <2>3, <2>4
  <2>7. call'[q].pc = "evicting"
    BY <2>1, <2>4, <2>6
  <2>8. ASSUME NEW w \in Callers, call'[w].pc = "waiting"
        PROVE  call'[w].awaits \in Callers /\ call'[call'[w].awaits].pc = "evicting"
    <3>1. CASE w = c
      BY <3>1, <2>1, <2>2, <2>5, <2>7
    <3>2. CASE w # c
      <4>1. b[w].awaits \in Callers \ {c} /\ b[b[w].awaits].pc = "evicting"
        BY <3>2, <2>6, <2>8 DEF Orderly, Unawaited
      <4> QED BY <4>1, <3>2, <2>6
    <3> QED BY <3>1, <3>2
  <2>9. \A w \in Callers : call'[w].pc # "idle" => call'[w].model \in Models
    BY <2>2, <2>5, <2>6 DEF Orderly
  <2> QED BY <2>1, <2>3, <2>5, <2>7, <2>8, <2>9 DEF Orderly
<1> QED BY <1>1, <1>2

(* So does every round of the sweep, until the grant.                      *)
LEMMA SweepOrderly ==
    ASSUME NEW c \in Callers, NEW t, NEW q, NEW b, NEW k \in Call,
           k.model \in Models, Consistent(t),
           Orderly(q, b), Unawaited(c, q, b), Sweep(c, t, q, b, k)
    PROVE  Orderly(inFlight', call') /\ Consistent(tracked')
<1> DEFINE mustGo == {a \in k.todo : MustGo(k.model, a, k.projected)}
           n == [IdleCall EXCEPT !.pc = "granted", !.model = k.model,
                                 !.projected = k.projected]
<1>1. CASE /\ tracked' = Track(t, k.model)
           /\ inFlight' = q
           /\ call' = [b EXCEPT ![c] = n]
  <2>1. n \in Call /\ n.pc = "granted" /\ n.model \in Models
    BY DEF Call, IdleCall
  <2> HIDE DEF n
  <2>2. Orderly(inFlight', call')
    BY <1>1, <2>1 DEF Orderly, Unawaited
  <2> QED BY <1>1, <2>2, TrackConsistent
<1>2. ASSUME NEW v \in mustGo, NEW s \in SUBSET (k.todo \ mustGo),
             tracked' = t,
             Evict(c, q, b, [k EXCEPT !.next = "sweep", !.todo = @ \ ({v} \cup s),
                                      !.projected = @ + Size[v]], v)
      PROVE  Orderly(inFlight', call') /\ Consistent(tracked')
  <2> DEFINE r == [k EXCEPT !.next = "sweep", !.todo = @ \ ({v} \cup s),
                            !.projected = @ + Size[v]]
  <2>1. v \in Models /\ k.projected + Size[v] \in Nat
    BY OrchestratorAssumption DEF Call
  <2>2. r \in Call /\ r.model \in Models
    BY <2>1 DEF Call
  <2> HIDE DEF r
  <2>3. Orderly(inFlight', call')
    BY <1>2, <2>1, <2>2, EvictOrderly DEF r
  <2> QED BY <1>2, <2>3
<1> QED BY <1>1, <1>2 DEF Sweep

(* What a request knows when its sweep begins.                             *)
LEMMA SnapshotTaken ==
    ASSUME NEW k \in Call, NEW t \in Tracked, ram \in Nat
    PROVE  /\ Snapshot(k, t) \in Call
           /\ Snapshot(k, t).model = k.model
           /\ Snapshot(k, t).todo = t.models \ {k.model}
<1>1. t.models \ {k.model} \in SUBSET Models
  BY DEF Tracked
<1>2. Snapshot(k, t) = [k EXCEPT !.todo = t.models \ {k.model}, !.projected = ram]
  BY DEF Snapshot
<1> QED BY <1>1, <1>2 DEF Call

-----------------------------------------------------------------------------
(* The inductive invariant: the bookkeeping of the active models and the   *)
(* queue of evictions do not depend on each other.                         *)
IInv == TypeOK /\ Consistent(tracked) /\ Orderly(inFlight, call)

(* Who is not evicting is not awaited.                                     *)
LEMMA OnlyEvictionsAwaited ==
    ASSUME NEW c \in Callers, Orderly(inFlight, call), call[c].pc # "evicting"
    PROVE  Unawaited(c, inFlight, call)
BY OrchestratorAssumption DEF Orderly, Unawaited

(* The end of an eviction leaves nobody waiting for it.                    *)
LEMMA WokenOrderly ==
    ASSUME NEW c \in Callers, Orderly(inFlight, call), call[c].pc = "evicting",
           NEW q \in LastWoken(c)
    PROVE  Orderly(q, Woken(c)) /\ Unawaited(c, q, Woken(c)) /\ Woken(c)[c] = call[c]
<1> DEFINE b == Woken(c)
           woken(w) == [call[w] EXCEPT !.pc = "evicting", !.awaits = NoCaller]
<1>1. c \notin Waiters(c)
  BY DEF Waiters
<1>2. \A w \in Waiters(c) : b[w] = woken(w)
  BY DEF Woken, Waiters
<1>3. \A w \in Callers \ Waiters(c) : b[w] = call[w]
  BY DEF Woken
<1>4. \A w \in Waiters(c) :
        woken(w) \in Call /\ woken(w).pc = "evicting" /\ woken(w).model \in Models
  <2> SUFFICES ASSUME NEW w \in Waiters(c)
               PROVE  /\ woken(w) \in Call /\ woken(w).pc = "evicting"
                      /\ woken(w).model \in Models
    OBVIOUS
  <2>1. call[w] \in Call /\ call[w].model \in Models
    BY DEF Waiters, Orderly
  <2> QED BY <2>1, Zenon DEF Call
<1>5. b \in [Callers -> Call]
  BY <1>2, <1>3, <1>4 DEF Woken, Waiters, Orderly
<1>6. q # c /\ q \in Callers \cup {NoCaller} /\ (q # NoCaller => b[q].pc = "evicting")
  BY <1>1, <1>2, <1>4, OrchestratorAssumption DEF LastWoken, Waiters
<1>7. ASSUME NEW w \in Callers, b[w].pc = "waiting"
      PROVE  b[w].awaits \in Callers \ {c} /\ b[b[w].awaits].pc = "evicting"
  <2>1. w \notin Waiters(c) /\ b[w] = call[w]
    BY <1>2, <1>3, <1>4, <1>7
  <2>2. call[w].awaits \in Callers \ {c} /\ call[call[w].awaits].pc = "evicting"
    BY <1>7, <2>1 DEF Orderly, Waiters
  <2>3. call[w].awaits \notin Waiters(c)
    BY <2>2 DEF Waiters
  <2> QED BY <1>3, <2>1, <2>2, <2>3
<1>8. \A w \in Callers : b[w].pc # "idle" => b[w].model \in Models
  BY <1>2, <1>3, <1>4 DEF Orderly
<1> HIDE DEF b
<1>9. Orderly(q, b) /\ Unawaited(c, q, b)
  BY <1>5, <1>6, <1>7, <1>8 DEF Orderly, Unawaited
<1> QED BY <1>1, <1>3, <1>9 DEF b

(* The invariant holds initially.                                          *)
LEMMA InitIInv == Init => IInv
BY OrchestratorAssumption
   DEF Init, IInv, TypeOK, Consistent, Orderly, Tracked, Modes, Call, IdleCall

(* Every step preserves the invariant.                                     *)
LEMMA StepIInv == IInv /\ [Next]_vars => IInv'
<1> SUFFICES ASSUME IInv, [Next]_vars PROVE IInv'
  OBVIOUS
<1> USE DEF IInv
<1>1. ASSUME NEW c \in Callers, NEW m \in Models, Request(c, m) PROVE IInv'
  <2> DEFINE n == [IdleCall EXCEPT !.pc = "ps", !.model = m]
  <2>1. n \in Call /\ n.pc = "ps" /\ n.model = m
    BY DEF Call, IdleCall
  <2>2. call' = [call EXCEPT ![c] = n] /\ call[c].pc = "idle"
    BY <1>1 DEF Request
  <2> HIDE DEF n
  <2>3. Orderly(inFlight', call')
    BY <1>1, <2>1, <2>2, OnlyEvictionsAwaited DEF Orderly, Unawaited, Request
  <2>4. ram' \in Nat /\ mode' \in Modes
    BY <1>1, OrchestratorAssumption DEF Request, RefreshRam, host, ModeFor, Modes, TypeOK
  <2> QED BY <1>1, <2>3, <2>4 DEF Request, TypeOK, Orderly, Consistent, warmup, ollama
<1>2. ASSUME NEW c \in Callers, PsArrives(c) PROVE IInv'
  <2> DEFINE k == call[c]
  <2>1. PICK t \in SyncAnswers :
          IF ViolatesLock(k.model, t)
          THEN /\ tracked' = t
               /\ Evict(c, inFlight, call, [k EXCEPT !.next = "snapshot"], t.seven)
          ELSE Sweep(c, t, inFlight, call, Snapshot(k, t))
    BY <1>2 DEF PsArrives
  <2>2. Consistent(t)
    BY SyncConsistent DEF TypeOK
  <2>3. k \in Call /\ k.pc = "ps" /\ k.model \in Models
    BY <1>2 DEF PsArrives, TypeOK, Orderly
  <2>4. Unawaited(c, inFlight, call)
    BY <2>3, OnlyEvictionsAwaited
  <2> HIDE DEF k
  <2> SUFFICES Orderly(inFlight', call') /\ Consistent(tracked')
    BY <1>2 DEF PsArrives, TypeOK, Orderly, Consistent, host, warmup, ollama
  <2>5. CASE ViolatesLock(k.model, t)
    <3> DEFINE n == [k EXCEPT !.next = "snapshot"]
    <3>1. n \in Call /\ n.model \in Models /\ t.seven \in Models \cup {NoModel}
      BY <2>2, <2>3, OrchestratorAssumption DEF Call, Consistent, Tracked
    <3>2. Evict(c, inFlight, call, n, t.seven) /\ tracked' = t
      BY <2>1, <2>5
    <3> HIDE DEF n
    <3> QED BY <2>2, <2>4, <3>1, <3>2, EvictOrderly
  <2>6. CASE ~ViolatesLock(k.model, t)
    <3>1. Snapshot(k, t) \in Call /\ Snapshot(k, t).model \in Models
      BY <2>2, <2>3, SnapshotTaken DEF Consistent, TypeOK
    <3>2. Sweep(c, t, inFlight, call, Snapshot(k, t))
      BY <2>1, <2>6
    <3> QED BY <2>2, <2>4, <3>1, <3>2, SweepOrderly
  <2> QED BY <2>5, <2>6
<1>3. ASSUME NEW c \in Callers, EvictionEnds(c) PROVE IInv'
  <2> DEFINE k == call[c]
             t == Forget(tracked, k.victim)
             b == Woken(c)
  <2>1. k \in Call /\ k.pc = "evicting" /\ k.model \in Models
    BY <1>3 DEF EvictionEnds, TypeOK, Orderly
  <2>2. PICK q \in LastWoken(c) :
          \/ Sweep(c, t, q, b, Snapshot(k, t))
          \/ Sweep(c, t, q, b, k)
          \/ call' = [b EXCEPT ![c] = IdleCall] /\ inFlight' = q /\ tracked' = t
    BY <1>3 DEF EvictionEnds
  <2>3. Consistent(t)
    BY ForgetConsistent
  <2>4. Orderly(q, b) /\ Unawaited(c, q, b)
    BY <2>1, WokenOrderly
  <2>5. resident' \subseteq Models
    BY <1>3 DEF EvictionEnds, TypeOK
  <2> HIDE DEF k, t, b
  <2> SUFFICES Orderly(inFlight', call') /\ Consistent(tracked')
    BY <1>3, <2>5 DEF EvictionEnds, TypeOK, Orderly, Consistent, host, warmup
  <2>6. CASE Sweep(c, t, q, b, Snapshot(k, t))
    <3>1. Snapshot(k, t) \in Call /\ Snapshot(k, t).model \in Models
      BY <2>1, <2>3, SnapshotTaken DEF Consistent, TypeOK
    <3> QED BY <2>3, <2>4, <2>6, <3>1, SweepOrderly
  <2>7. CASE Sweep(c, t, q, b, k)
    BY <2>1, <2>3, <2>4, <2>7, SweepOrderly
  <2>8. CASE call' = [b EXCEPT ![c] = IdleCall] /\ inFlight' = q /\ tracked' = t
    <3>1. IdleCall \in Call /\ IdleCall.pc = "idle"
      BY DEF IdleCall, Call
    <3> QED BY <2>3, <2>4, <2>8, <3>1 DEF Orderly, Unawaited
  <2> QED BY <2>2, <2>6, <2>7, <2>8
<1>4. ASSUME NEW c \in Callers, Generate(c) PROVE IInv'
  <2> DEFINE n == [call[c] EXCEPT !.pc = "inferring"]
  <2>1. call[c].pc = "granted" /\ call[c].model \in Models
    BY <1>4 DEF Generate, Orderly
  <2>2. n \in Call /\ n.pc = "inferring" /\ n.model \in Models
    BY <2>1 DEF Call, TypeOK
  <2>3. call' = [call EXCEPT ![c] = n]
    BY <1>4 DEF Generate
  <2>4. Unawaited(c, inFlight, call)
    BY <2>1, OnlyEvictionsAwaited
  <2> HIDE DEF n
  <2>5. Orderly(inFlight', call')
    BY <1>4, <2>2, <2>3, <2>4 DEF Orderly, Unawaited, Generate
  <2> QED BY <1>4, <2>1, <2>5 DEF Generate, TypeOK, Orderly, Consistent, host, warmup
<1>5. ASSUME NEW c \in Callers, Complete(c) PROVE IInv'
  <2>1. call[c] \in Call /\ call[c].pc = "inferring" /\ call[c].model \in Models
    BY <1>5 DEF Complete, Orderly
  <2>2. Unawaited(c, inFlight, call)
    BY <2>1, OnlyEvictionsAwaited
  <2> SUFFICES Orderly(inFlight', call')
    BY <1>5 DEF Complete, Warmed, TypeOK, Orderly, Consistent, host, ollama
  <2>3. CASE call' = [call EXCEPT ![c] = IdleCall] /\ UNCHANGED inFlight
    <3>1. IdleCall \in Call /\ IdleCall.pc = "idle"
      BY DEF IdleCall, Call
    <3> QED BY <2>2, <2>3, <3>1 DEF Orderly, Unawaited
  <2>4. CASE Evict(c, inFlight, call, [call[c] EXCEPT !.next = "done"], call[c].model)
    <3>1. [call[c] EXCEPT !.next = "done"] \in Call
      BY <2>1 DEF Call
    <3>2. [call[c] EXCEPT !.next = "done"].model \in Models
      BY <2>1 DEF Call
    <3> QED BY <2>1, <2>2, <2>4, <3>1, <3>2, EvictOrderly
  <2> QED BY <1>5, <2>3, <2>4 DEF Complete
<1>6. CASE StatusPoll
  <2>1. Consistent(tracked')
    BY <1>6, SyncConsistent DEF StatusPoll, TypeOK
  <2> QED BY <1>6, <2>1 DEF StatusPoll, TypeOK, Orderly, Consistent, host, warmup, ollama
<1>7. ASSUME NEW md \in SetModes, SetMode(md) PROVE IInv'
  BY <1>7, CallsAssumption DEF SetMode, TypeOK, Orderly, Consistent, warmup, ollama
<1>8. ASSUME NEW m \in Predicted, PreloadNextSpecialist(m) PROVE IInv'
  BY <1>8, CallsAssumption
     DEF PreloadNextSpecialist, TypeOK, Orderly, Consistent, host, ollama
<1>9. ASSUME NEW m \in Models, PreloadEnds(m) PROVE IInv'
  <2>1. Consistent(tracked')
    BY <1>9, TrackConsistent DEF PreloadEnds
  <2>2. preloads' \subseteq Models /\ resident' \subseteq Models
    BY <1>9 DEF PreloadEnds, TypeOK
  <2> QED BY <1>9, <2>1, <2>2 DEF PreloadEnds, TypeOK, Orderly, Consistent, host
<1>10. ASSUME NEW m \in Models, OllamaDrops(m) PROVE IInv'
  BY <1>10 DEF OllamaDrops, TypeOK, Orderly, Consistent, host, warmup
<1>11. ASSUME NEW c \in Callers, TimeOut(c) PROVE IInv'
  <2>1. call' = [call EXCEPT ![c] = IdleCall] /\ inFlight' = inFlight
    BY <1>11 DEF TimeOut
  <2>2. call[c].pc = "inferring" /\ call[c].model \in Models
    BY <1>11 DEF TimeOut, Orderly
  <2>3. IdleCall \in Call /\ IdleCall.pc = "idle"
    BY DEF IdleCall, Call
  <2>4. Unawaited(c, inFlight, call)
    BY <2>2, OnlyEvictionsAwaited
  <2>5. Orderly(inFlight', call')
    BY <2>1, <2>3, <2>4 DEF Orderly, Unawaited
  <2> QED BY <1>11, <2>2, <2>5 DEF TimeOut, Warmed, TypeOK, Orderly, Consistent, host
<1>12. ASSUME NEW m \in Models, OrphanEnds(m) PROVE IInv'
  BY <1>12 DEF OrphanEnds, TypeOK, Orderly, Consistent, host, warmup
<1>13. CASE UNCHANGED vars
  BY <1>13 DEF vars, TypeOK, Orderly, Consistent
<1> QED
  BY <1>1, <1>2, <1>3, <1>4, <1>5, <1>6, <1>7, <1>8, <1>9, <1>10, <1>11, <1>12, <1>13
     DEF Next, Serve

-----------------------------------------------------------------------------
(* The orchestrator's state stays well-typed for any number of callers and *)
(* models, whatever overlaps and fails.                                    *)
THEOREM OrchestratorTypeCorrect == Spec => []TypeOK
<1>1. IInv => TypeOK
  BY DEF IInv
<1> QED BY InitIInv, StepIInv, <1>1, PTL DEF Spec

(* active7BModel is always one of activeModels, whatever requests,         *)
(* evictions, failed probes and speculative loads overlap.                 *)
THEOREM OrchestratorBookkeeping == Spec => []ActiveSevenIsActive
<1>1. IInv => ActiveSevenIsActive
  BY DEF IInv, Consistent, ActiveSevenIsActive
<1> QED BY InitIInv, StepIInv, <1>1, PTL DEF Spec

(* No caller waits for an eviction that is over, however many callers      *)
(* queue up on the single inFlightEviction promise.                        *)
THEOREM OrchestratorWaits == Spec => []AwaitedEvictionRuns
<1>1. IInv => AwaitedEvictionRuns
  BY DEF IInv, Orderly, AwaitedEvictionRuns
<1> QED BY InitIInv, StepIInv, <1>1, PTL DEF Spec

-----------------------------------------------------------------------------
(* The SINGLE-7B LOCK, where it holds: one caller at a time that never     *)
(* gives up on a generation, probes and evictions that succeed, no         *)
(* speculative load.                                                       *)
Alone ==
    /\ \A a, b \in Callers : a = b
    /\ ~PsMayFail /\ ~EvictionMayFail /\ ~MayTimeOut
    /\ Predicted = {}

(* The only 7B model that may be resident is m.                            *)
OnlySeven(m) == resident \cap Seven \subseteq {m}

(* A caller k that is about to be granted a 7B model has made room for it. *)
RoomMade(k) ==
    /\ k.pc # "waiting"
    /\ k.pc = "granted" /\ k.model \in Seven => OnlySeven(k.model)
    /\ k.pc = "evicting" /\ k.next = "snapshot" => OnlySeven(k.victim)
    /\ k.pc = "evicting" /\ k.next = "sweep" => k.model \in Seven /\ OnlySeven(k.model)

AloneInv ==
    /\ IInv
    /\ preloads = {} /\ orphans = {}
    /\ Single7BResident
    /\ \A c \in Callers : RoomMade(call[c])

(* A sweep begun with only its own 7B model resident makes room for it.    *)
LEMMA SweepMakesRoom ==
    ASSUME NEW c \in Callers, NEW t, NEW b \in [Callers -> Call], NEW k \in Call,
           k.model \in Seven => resident' \cap Seven \subseteq {k.model},
           Sweep(c, t, NoCaller, b, k)
    PROVE  RoomMade(call[c])'
<1> DEFINE mustGo == {a \in k.todo : MustGo(k.model, a, k.projected)}
           n == [IdleCall EXCEPT !.pc = "granted", !.model = k.model,
                                 !.projected = k.projected]
<1>1. CASE call' = [b EXCEPT ![c] = n]
  <2>1. n.pc = "granted" /\ n.model = k.model
    BY DEF IdleCall
  <2> HIDE DEF n
  <2>2. call'[c] = n
    BY <1>1
  <2> QED BY <2>1, <2>2 DEF RoomMade, OnlySeven
<1>2. ASSUME NEW v \in mustGo, NEW s \in SUBSET (k.todo \ mustGo),
             Evict(c, NoCaller, b, [k EXCEPT !.next = "sweep", !.todo = @ \ ({v} \cup s),
                                             !.projected = @ + Size[v]], v)
      PROVE  RoomMade(call[c])'
  <2> DEFINE r == [k EXCEPT !.next = "sweep", !.todo = @ \ ({v} \cup s),
                            !.projected = @ + Size[v]]
             e == [r EXCEPT !.pc = "evicting", !.victim = v]
  <2>1. call'[c] = e
    BY <1>2 DEF Evict
  <2>2. e.pc = "evicting" /\ e.next = "sweep" /\ e.model = k.model
    BY DEF Call
  <2>3. k.model \in Seven
    BY DEF MustGo
  <2> HIDE DEF e
  <2> QED BY <2>1, <2>2, <2>3 DEF RoomMade, OnlySeven
<1> QED BY <1>1, <1>2 DEF Sweep

(* /api/ps answers the lone caller with what is resident: an eviction, or  *)
(* the sweep, begins from there.                                           *)
LEMMA PsAlone ==
    ASSUME Alone, AloneInv, NEW c \in Callers, PsArrives(c)
    PROVE  /\ call \in [Callers -> Call] /\ ram \in Nat
           /\ UNCHANGED <<resident, orphans, preloads>>
           /\ \E t \in Tracked :
                /\ t.models = resident
                /\ IF resident \cap Seven = {} THEN t.seven = NoModel
                   ELSE t.seven \in resident \cap Seven
                /\ \/ /\ ViolatesLock(call[c].model, t) /\ tracked' = t
                      /\ Evict(c, NoCaller, call, [call[c] EXCEPT !.next = "snapshot"], t.seven)
                   \/ /\ ~ViolatesLock(call[c].model, t)
                      /\ Sweep(c, t, NoCaller, call, Snapshot(call[c], t))
<1>1. call \in [Callers -> Call] /\ inFlight = NoCaller /\ ram \in Nat /\ resident \subseteq Models
  <2>1. /\ TypeOK /\ call[c].pc = "ps"
        /\ inFlight # NoCaller => inFlight \in Callers /\ call[inFlight].pc = "evicting"
    BY DEF PsArrives, AloneInv, IInv, Orderly
  <2> QED BY <2>1 DEF TypeOK, Alone
<1>2. PICK t \in SyncAnswers :
        IF ViolatesLock(call[c].model, t)
        THEN /\ tracked' = t
             /\ Evict(c, NoCaller, call, [call[c] EXCEPT !.next = "snapshot"], t.seven)
        ELSE Sweep(c, t, NoCaller, call, Snapshot(call[c], t))
  BY <1>1 DEF PsArrives
<1>3. /\ t \in Tracked /\ t.models = resident
      /\ IF resident \cap Seven = {} THEN t.seven = NoModel ELSE t.seven \in resident \cap Seven
  BY <1>1 DEF SyncAnswers, Alone, Tracked
<1>4. UNCHANGED <<resident, orphans, preloads>>
  BY DEF PsArrives, warmup, ollama
<1> QED BY <1>1, <1>2, <1>3, <1>4

(* The lone caller's eviction unloads its victim, and nobody waited for it.*)
LEMMA EvictionEndsAlone ==
    ASSUME Alone, AloneInv, NEW c \in Callers, EvictionEnds(c),
           NEW k, NEW t, k = call[c], t = Forget(tracked, k.victim)
    PROVE  /\ call \in [Callers -> Call] /\ k.pc = "evicting" /\ ram \in Nat
           /\ Consistent(t) /\ tracked \in Tracked
           /\ resident' = resident \ {k.victim} /\ UNCHANGED <<orphans, preloads>>
           /\ \/ k.next = "snapshot" /\ Sweep(c, t, NoCaller, call, Snapshot(k, t))
              \/ k.next = "sweep" /\ Sweep(c, t, NoCaller, call, k)
              \/ call' = [call EXCEPT ![c] = IdleCall]
<1>1. TypeOK /\ Consistent(tracked) /\ k.pc = "evicting" /\ RoomMade(k)
  BY DEF EvictionEnds, AloneInv, IInv
<1>2. Waiters(c) = {} /\ ~InUse(k.victim)
  BY <1>1 DEF Waiters, InUse, Alone, AloneInv
<1>3. resident' = resident \ {k.victim} /\ UNCHANGED <<orphans, preloads>>
  BY <1>2 DEF EvictionEnds, Alone, warmup
<1>4. Woken(c) = call /\ LastWoken(c) = {NoCaller}
  BY <1>1, <1>2 DEF Woken, LastWoken, TypeOK
<1>5. \/ k.next = "snapshot" /\ Sweep(c, t, NoCaller, call, Snapshot(k, t))
      \/ k.next = "sweep" /\ Sweep(c, t, NoCaller, call, k)
      \/ call' = [call EXCEPT ![c] = IdleCall]
  BY <1>4 DEF EvictionEnds
<1>6. Consistent(t)
  BY <1>1, ForgetConsistent
<1> QED BY <1>1, <1>3, <1>5, <1>6 DEF TypeOK

(* Every step of the lone caller, of Ollama and of the pollers.            *)
LEMMA StepAlone == ASSUME Alone PROVE AloneInv /\ [Next]_vars => AloneInv'
<1> SUFFICES ASSUME AloneInv, [Next]_vars PROVE AloneInv'
  OBVIOUS
<1>0. IInv /\ IInv'
  BY StepIInv DEF AloneInv
<1> DEFINE Quiet == preloads' = {} /\ orphans' = {} /\ Single7BResident'
<1> SUFFICES /\ Quiet
             /\ \A c \in Callers : RoomMade(call[c])'
  BY <1>0 DEF AloneInv
<1>1. ASSUME NEW c \in Callers, NEW m \in Models, Request(c, m)
      PROVE  Quiet /\ RoomMade(call[c])'
  <2>1. call'[c].pc = "ps"
    BY <1>0, <1>1 DEF Request, IInv, TypeOK, IdleCall
  <2> QED BY <1>1, <2>1 DEF Request, AloneInv, RoomMade, Single7BResident, warmup, ollama
<1>2. ASSUME NEW c \in Callers, PsArrives(c)
      PROVE  Quiet /\ RoomMade(call[c])'
  <2>1. Quiet /\ resident' = resident
    BY <1>2, PsAlone DEF AloneInv, Single7BResident
  <2>2. call \in [Callers -> Call] /\ ram \in Nat
    BY <1>2, PsAlone
  <2>3. PICK t \in Tracked :
          /\ IF resident \cap Seven = {} THEN t.seven = NoModel
             ELSE t.seven \in resident \cap Seven
          /\ \/ /\ ViolatesLock(call[c].model, t)
                /\ Evict(c, NoCaller, call, [call[c] EXCEPT !.next = "snapshot"], t.seven)
             \/ /\ ~ViolatesLock(call[c].model, t)
                /\ Sweep(c, t, NoCaller, call, Snapshot(call[c], t))
    BY <1>2, PsAlone
  <2>5. CASE ViolatesLock(call[c].model, t)
    <3> DEFINE r == [call[c] EXCEPT !.next = "snapshot"]
               e == [r EXCEPT !.pc = "evicting", !.victim = t.seven]
    <3>1. e.pc = "evicting" /\ e.next = "snapshot" /\ e.victim = t.seven
      BY <2>2 DEF Call
    <3>2. call'[c] = e
      BY <2>2, <2>3, <2>5 DEF Evict
    <3>3. OnlySeven(t.seven)'
      BY <2>1, <2>3 DEF OnlySeven, AloneInv, Single7BResident
    <3> HIDE DEF e
    <3> QED BY <2>1, <3>1, <3>2, <3>3 DEF RoomMade, OnlySeven
  <2>6. CASE ~ViolatesLock(call[c].model, t)
    <3> DEFINE k == Snapshot(call[c], t)
    <3>1. k \in Call /\ k.model = call[c].model
      BY <2>2, SnapshotTaken
    <3>2. k.model \in Seven => resident' \cap Seven \subseteq {k.model}
      BY <2>1, <2>3, <2>6, <3>1, OrchestratorAssumption
         DEF OnlySeven, ViolatesLock, AloneInv, Single7BResident
    <3>3. Sweep(c, t, NoCaller, call, k)
      BY <2>3, <2>6
    <3> HIDE DEF k
    <3> QED BY <2>1, <2>2, <3>1, <3>2, <3>3, SweepMakesRoom
  <2> QED BY <2>5, <2>6
<1>3. ASSUME NEW c \in Callers, EvictionEnds(c)
      PROVE  Quiet /\ RoomMade(call[c])'
  <2> SUFFICES ASSUME NEW k, NEW t, k = call[c], t = Forget(tracked, k.victim)
               PROVE  Quiet /\ RoomMade(call[c])'
    OBVIOUS
  <2>1. k \in Call /\ k.pc = "evicting" /\ RoomMade(k)
    BY <1>3, EvictionEndsAlone DEF AloneInv
  <2>3. resident' = resident \ {k.victim}
    BY <1>3, EvictionEndsAlone
  <2>4. Quiet
    BY <1>3, <2>3, EvictionEndsAlone DEF AloneInv, Single7BResident
  <2>6. \/ k.next = "snapshot" /\ Sweep(c, t, NoCaller, call, Snapshot(k, t))
        \/ k.next = "sweep" /\ Sweep(c, t, NoCaller, call, k)
        \/ call' = [call EXCEPT ![c] = IdleCall]
    BY <1>3, EvictionEndsAlone
  <2>7. call \in [Callers -> Call] /\ Consistent(t) /\ ram \in Nat
    BY <1>3, EvictionEndsAlone
  <2>8. CASE k.next = "snapshot" /\ Sweep(c, t, NoCaller, call, Snapshot(k, t))
    <3>1. Snapshot(k, t) \in Call
      BY <2>1, <2>7, SnapshotTaken DEF Consistent
    <3>2. resident' \cap Seven \subseteq {Snapshot(k, t).model}
      BY <2>1, <2>3, <2>8 DEF RoomMade, OnlySeven
    <3> QED BY <2>4, <2>7, <2>8, <3>1, <3>2, SweepMakesRoom
  <2>9. CASE k.next = "sweep" /\ Sweep(c, t, NoCaller, call, k)
    <3>1. resident' \cap Seven \subseteq {k.model}
      BY <2>1, <2>3, <2>9 DEF RoomMade, OnlySeven
    <3> QED BY <2>1, <2>4, <2>7, <2>9, <3>1, SweepMakesRoom
  <2>10. CASE call' = [call EXCEPT ![c] = IdleCall]
    <3>1. call'[c].pc = "idle"
      BY <2>7, <2>10 DEF IdleCall
    <3> QED BY <2>4, <3>1 DEF RoomMade
  <2> QED BY <2>6, <2>8, <2>9, <2>10
<1>4. ASSUME NEW c \in Callers, Generate(c)
      PROVE  Quiet /\ RoomMade(call[c])'
  <2>1. call[c].pc = "granted" /\ RoomMade(call[c]) /\ call'[c].pc = "inferring"
    BY <1>0, <1>4 DEF Generate, AloneInv, IInv, TypeOK, Call
  <2>2. Single7BResident'
    BY <1>4, <2>1 DEF Generate, AloneInv, RoomMade, OnlySeven, Single7BResident
  <2> QED BY <1>4, <2>1, <2>2 DEF Generate, AloneInv, RoomMade, warmup
<1>5. ASSUME NEW c \in Callers, Complete(c)
      PROVE  Quiet /\ RoomMade(call[c])'
  <2>1. Quiet
    BY <1>5 DEF Complete, AloneInv, Single7BResident, ollama
  <2>2. inFlight = NoCaller /\ call \in [Callers -> Call]
    BY <1>0, <1>5 DEF Complete, IInv, Orderly, Alone
  <2>3. CASE call' = [call EXCEPT ![c] = IdleCall]
    BY <2>1, <2>2, <2>3 DEF RoomMade, IdleCall
  <2>4. CASE Evict(c, NoCaller, call, [call[c] EXCEPT !.next = "done"], call[c].model)
    <3> DEFINE r == [call[c] EXCEPT !.next = "done"]
               e == [r EXCEPT !.pc = "evicting", !.victim = call[c].model]
    <3>1. e.pc = "evicting" /\ e.next = "done"
      BY <2>2 DEF Call
    <3>2. call'[c] = e
      BY <2>2, <2>4 DEF Evict
    <3> HIDE DEF e
    <3> QED BY <2>1, <3>1, <3>2 DEF RoomMade
  <2> QED BY <1>5, <2>2, <2>3, <2>4 DEF Complete
<1>6. CASE /\ preloads' = {} /\ orphans' = {} /\ call' = call
           /\ resident' \subseteq resident
  BY <1>6 DEF AloneInv, RoomMade, OnlySeven, Single7BResident
<1>7. CASE StatusPoll \/ \E md \in SetModes : SetMode(md)
  BY <1>6, <1>7 DEF StatusPoll, SetMode, AloneInv, warmup, ollama
<1>8. ~(\E m \in Models : PreloadEnds(m) \/ OrphanEnds(m)) /\ ~(\E c \in Callers : TimeOut(c))
  BY DEF PreloadEnds, OrphanEnds, TimeOut, AloneInv, Alone
<1>9. CASE \E m \in Models : OllamaDrops(m)
  BY <1>6, <1>9 DEF OllamaDrops, AloneInv, warmup
<1>10. CASE UNCHANGED vars
  BY <1>6, <1>10 DEF vars, AloneInv
<1>11. ASSUME NEW c \in Callers, RoomMade(call[c])'
       PROVE  \A d \in Callers : RoomMade(call[d])'
  BY <1>11 DEF Alone
<1> QED
  BY <1>1, <1>2, <1>3, <1>4, <1>5, <1>7, <1>8, <1>9, <1>10, <1>11 DEF Next, Serve, Alone

(* "Enforce SINGLE-7B LOCK" (model-orchestrator.ts:10) holds as long as    *)
(* one caller at a time uses the orchestrator, waits for its generations   *)
(* to end, and Ollama answers.                                             *)
THEOREM OrchestratorSingle7B == ASSUME Alone PROVE Spec => []Single7BResident
<1>1. Init => AloneInv
  <2> SUFFICES ASSUME Init PROVE AloneInv
    OBVIOUS
  <2>1. \A c \in Callers : call[c].pc = "idle"
    BY DEF Init, IdleCall
  <2> QED BY <2>1, InitIInv DEF Init, AloneInv, RoomMade, Single7BResident
<1>2. AloneInv /\ [Next]_vars => AloneInv'
  BY StepAlone
<1>3. AloneInv => Single7BResident
  BY DEF AloneInv
<1> QED BY <1>1, <1>2, <1>3, PTL DEF Spec

-----------------------------------------------------------------------------
(* The headroom of the lone caller                                         *)

(* The sweep for k has not found the headroom yet: projectedAvailableMb is *)
(* still too low for its 7B model.                                         *)
Needs(k) == k.model \in Seven /\ NeedsHeadroom(k.model, k.projected)

(* As long as it has not, nothing resident is hidden from the sweep: it is *)
(* yet to be looked at, being evicted, or the wanted model itself.  Before *)
(* the snapshot is taken, all that is resident is an active model.         *)
HeadroomMade(k) ==
    /\ k.pc = "granted" /\ Needs(k) => resident \subseteq {k.model}
    /\ k.pc = "evicting" /\ k.next = "snapshot" => resident \subseteq tracked.models
    /\ k.pc = "evicting" /\ k.next = "sweep" /\ Needs(k) =>
         resident \subseteq k.todo \cup {k.model, k.victim}

HeadroomInv ==
    /\ AloneInv
    /\ \A c \in Callers : HeadroomMade(call[c])

(* An eviction only adds to projectedAvailableMb: who needs headroom after *)
(* it needed headroom before it.                                           *)
LEMMA ProjectedGrows ==
    ASSUME NEW m \in Models, NEW v \in Models, NEW p \in Nat,
           NeedsHeadroom(m, p + Size[v])
    PROVE  NeedsHeadroom(m, p)
<1>1. Size[m] \in Nat /\ Size[v] \in Nat /\ Reserve \in Nat
  BY OrchestratorAssumption
<1> QED BY <1>1 DEF NeedsHeadroom

(* A sweep that still needs headroom skips nobody: it evicts on, and       *)
(* grants once there is nobody left.                                       *)
LEMMA SweepMakesHeadroom ==
    ASSUME NEW c \in Callers, NEW t, NEW b \in [Callers -> Call], NEW k \in Call,
           Needs(k) => resident' \subseteq k.todo \cup {k.model},
           Sweep(c, t, NoCaller, b, k)
    PROVE  HeadroomMade(call[c])'
<1> DEFINE mustGo == {a \in k.todo : MustGo(k.model, a, k.projected)}
           n == [IdleCall EXCEPT !.pc = "granted", !.model = k.model,
                                 !.projected = k.projected]
<1>1. Needs(k) => mustGo = k.todo
  BY DEF MustGo, Needs
<1>2. CASE mustGo = {} /\ call' = [b EXCEPT ![c] = n]
  <2>1. n.pc = "granted" /\ n.model = k.model /\ n.projected = k.projected
    BY DEF IdleCall
  <2> HIDE DEF n, mustGo
  <2>2. call'[c] = n
    BY <1>2
  <2>3. Needs(n) => Needs(k)
    BY <2>1 DEF Needs
  <2>4. Needs(n) => resident' \subseteq {n.model}
    BY <1>1, <1>2, <2>1, <2>3
  <2> QED BY <2>1, <2>2, <2>4 DEF HeadroomMade, Needs, NeedsHeadroom
<1>3. ASSUME NEW v \in mustGo, NEW s \in SUBSET (k.todo \ mustGo),
             Evict(c, NoCaller, b, [k EXCEPT !.next = "sweep", !.todo = @ \ ({v} \cup s),
                                             !.projected = @ + Size[v]], v)
      PROVE  HeadroomMade(call[c])'
  <2> DEFINE r == [k EXCEPT !.next = "sweep", !.todo = @ \ ({v} \cup s),
                            !.projected = @ + Size[v]]
             e == [r EXCEPT !.pc = "evicting", !.victim = v]
  <2>1. call'[c] = e
    BY <1>3 DEF Evict
  <2>2. /\ e.pc = "evicting" /\ e.next = "sweep" /\ e.model = k.model /\ e.victim = v
        /\ e.todo = k.todo \ ({v} \cup s) /\ e.projected = k.projected + Size[v]
    BY DEF Call
  <2>3. k.projected \in Nat /\ v \in Models /\ Seven \subseteq Models
    BY OrchestratorAssumption DEF Call
  <2> HIDE DEF e
  <2>4. Needs(e) => Needs(k)
    BY <2>2, <2>3, ProjectedGrows DEF Needs
  <2>5. Needs(k) => s = {}
    BY <1>1
  <2>6. Needs(e) => resident' \subseteq e.todo \cup {e.model, e.victim}
    BY <2>2, <2>4, <2>5
  <2> QED BY <2>1, <2>2, <2>6 DEF HeadroomMade, Needs, NeedsHeadroom
<1> QED BY <1>2, <1>3 DEF Sweep

LEMMA StepHeadroom == ASSUME Alone PROVE HeadroomInv /\ [Next]_vars => HeadroomInv'
<1> SUFFICES ASSUME HeadroomInv, [Next]_vars PROVE HeadroomInv'
  OBVIOUS
<1>0. /\ AloneInv /\ AloneInv' /\ TypeOK
      /\ preloads = {} /\ orphans = {}
  BY StepAlone DEF HeadroomInv, AloneInv, IInv
<1> SUFFICES \A c \in Callers : HeadroomMade(call[c])'
  BY <1>0 DEF HeadroomInv
<1>1. ASSUME NEW c \in Callers, NEW m \in Models, Request(c, m)
      PROVE  HeadroomMade(call[c])'
  <2>1. call'[c].pc = "ps"
    BY <1>0, <1>1 DEF Request, TypeOK, IdleCall
  <2> QED BY <2>1 DEF HeadroomMade
<1>2. ASSUME NEW c \in Callers, PsArrives(c)
      PROVE  HeadroomMade(call[c])'
  <2>1. /\ call \in [Callers -> Call] /\ ram \in Nat
        /\ resident' = resident
    BY <1>0, <1>2, PsAlone
  <2>2. PICK t \in Tracked :
          /\ t.models = resident
          /\ \/ /\ tracked' = t
                /\ Evict(c, NoCaller, call, [call[c] EXCEPT !.next = "snapshot"], t.seven)
             \/ Sweep(c, t, NoCaller, call, Snapshot(call[c], t))
    BY <1>0, <1>2, PsAlone
  <2>3. CASE /\ tracked' = t
             /\ Evict(c, NoCaller, call, [call[c] EXCEPT !.next = "snapshot"], t.seven)
    <3> DEFINE r == [call[c] EXCEPT !.next = "snapshot"]
               e == [r EXCEPT !.pc = "evicting", !.victim = t.seven]
    <3>1. e.pc = "evicting" /\ e.next = "snapshot"
      BY <2>1 DEF Call
    <3>2. call'[c] = e
      BY <2>1, <2>3 DEF Evict
    <3> HIDE DEF e
    <3> QED BY <2>1, <2>2, <2>3, <3>1, <3>2 DEF HeadroomMade
  <2>4. CASE Sweep(c, t, NoCaller, call, Snapshot(call[c], t))
    <3> DEFINE k == Snapshot(call[c], t)
    <3>1. k \in Call /\ k.todo = resident \ {k.model}
      BY <2>1, <2>2, SnapshotTaken
    <3> HIDE DEF k
    <3>2. Sweep(c, t, NoCaller, call, k)
      BY <2>4 DEF k
    <3> QED BY <2>1, <3>1, <3>2, SweepMakesHeadroom
  <2> QED BY <2>2, <2>3, <2>4
<1>3. ASSUME NEW c \in Callers, EvictionEnds(c)
      PROVE  HeadroomMade(call[c])'
  <2> SUFFICES ASSUME NEW k, NEW t, k = call[c], t = Forget(tracked, k.victim)
               PROVE  HeadroomMade(call[c])'
    OBVIOUS
  <2>1. /\ call \in [Callers -> Call] /\ ram \in Nat /\ k \in Call /\ k.pc = "evicting"
        /\ resident' = resident \ {k.victim} /\ Consistent(t)
    BY <1>0, <1>3, EvictionEndsAlone
  <2>2. HeadroomMade(k)
    BY DEF HeadroomInv
  <2>3. CASE k.next = "snapshot" /\ Sweep(c, t, NoCaller, call, Snapshot(k, t))
    <3> DEFINE n == Snapshot(k, t)
    <3>1. n \in Call /\ n.todo = t.models \ {n.model}
      BY <2>1, SnapshotTaken DEF Consistent
    <3>2. resident' \subseteq t.models
      BY <2>1, <2>2, <2>3 DEF HeadroomMade, Forget
    <3> HIDE DEF n
    <3>3. Sweep(c, t, NoCaller, call, n)
      BY <2>3 DEF n
    <3> QED BY <2>1, <3>1, <3>2, <3>3, SweepMakesHeadroom
  <2>4. CASE k.next = "sweep" /\ Sweep(c, t, NoCaller, call, k)
    <3>1. Needs(k) => resident' \subseteq k.todo \cup {k.model}
      BY <2>1, <2>2, <2>4 DEF HeadroomMade
    <3> QED BY <2>1, <2>4, <3>1, SweepMakesHeadroom
  <2>5. CASE call' = [call EXCEPT ![c] = IdleCall]
    <3>1. call'[c].pc = "idle"
      BY <2>1, <2>5 DEF IdleCall
    <3> QED BY <3>1 DEF HeadroomMade
  <2> QED BY <1>0, <1>3, <2>3, <2>4, <2>5, EvictionEndsAlone
<1>4. ASSUME NEW c \in Callers, Generate(c)
      PROVE  HeadroomMade(call[c])'
  <2>1. call'[c].pc = "inferring"
    BY <1>0, <1>4 DEF Generate, TypeOK, Call
  <2> QED BY <2>1 DEF HeadroomMade
<1>5. ASSUME NEW c \in Callers, Complete(c)
      PROVE  HeadroomMade(call[c])'
  <2>1. call \in [Callers -> Call] /\ inFlight = NoCaller
    BY <1>0, <1>5 DEF Complete, AloneInv, IInv, Orderly, Alone
  <2>2. CASE call' = [call EXCEPT ![c] = IdleCall]
    BY <2>1, <2>2 DEF HeadroomMade, IdleCall
  <2>3. CASE Evict(c, NoCaller, call, [call[c] EXCEPT !.next = "done"], call[c].model)
    <3> DEFINE r == [call[c] EXCEPT !.next = "done"]
               e == [r EXCEPT !.pc = "evicting", !.victim = call[c].model]
    <3>1. e.pc = "evicting" /\ e.next = "done"
      BY <2>1 DEF Call
    <3>2. call'[c] = e
      BY <2>1, <2>3 DEF Evict
    <3> HIDE DEF e
    <3> QED BY <3>1, <3>2 DEF HeadroomMade
  <2> QED BY <1>5, <2>1, <2>2, <2>3 DEF Complete
<1>6. ASSUME call' = call, resident' \subseteq resident,
             tracked' = tracked \/ resident' \subseteq tracked'.models
      PROVE  \A c \in Callers : HeadroomMade(call[c])'
  BY <1>6 DEF HeadroomInv, HeadroomMade, Needs, NeedsHeadroom
<1>7. CASE StatusPoll
  <2>1. tracked'.models = resident
    BY <1>7 DEF StatusPoll, SyncAnswers, Alone
  <2> QED BY <1>6, <1>7, <2>1 DEF StatusPoll, ollama
<1>8. CASE \E md \in SetModes : SetMode(md)
  BY <1>6, <1>8 DEF SetMode, ollama
<1>9. CASE \E m \in Models : OllamaDrops(m)
  BY <1>6, <1>9 DEF OllamaDrops
<1>10. CASE UNCHANGED vars
  BY <1>6, <1>10 DEF vars
<1>11. ~(\E m \in Models : PreloadEnds(m) \/ OrphanEnds(m)) /\ ~(\E c \in Callers : TimeOut(c))
  BY <1>0 DEF PreloadEnds, OrphanEnds, TimeOut, Alone
<1>12. ASSUME NEW c \in Callers, HeadroomMade(call[c])'
       PROVE  \A d \in Callers : HeadroomMade(call[d])'
  BY <1>12 DEF Alone
<1> QED
  BY <1>1, <1>2, <1>3, <1>4, <1>5, <1>7, <1>8, <1>9, <1>10, <1>11, <1>12 DEF Next, Serve, Alone

(* A granted 7B model finds the headroom it needs, or nothing else is      *)
(* resident: the same caller, for any models, sizes and RAM readings.      *)
THEOREM OrchestratorHeadroom == ASSUME Alone PROVE Spec => []HeadroomBeforeLoad
<1>1. Init => HeadroomInv
  <2> SUFFICES ASSUME Init PROVE HeadroomInv
    OBVIOUS
  <2>1. \A c \in Callers : call[c].pc = "idle"
    BY DEF Init, IdleCall
  <2> QED BY <2>1, InitIInv DEF Init, HeadroomInv, HeadroomMade, AloneInv, RoomMade, Single7BResident
<1>2. HeadroomInv /\ [Next]_vars => HeadroomInv'
  BY StepHeadroom
<1>3. HeadroomInv => HeadroomBeforeLoad
  BY DEF HeadroomInv, HeadroomMade, Needs, HeadroomBeforeLoad
<1> QED BY <1>1, <1>2, <1>3, PTL DEF Spec

-----------------------------------------------------------------------------
(* What a request still has before it.                                     *)

(* A request that has neither been granted nor is over.                    *)
UnderWay(k) == k.pc = "ps" \/ (k.pc \in {"waiting", "evicting"} /\ k.next # "done")

(* From k to n a request comes nearer to its grant: it has the answer of   *)
(* /api/ps, its turn at the promise, its snapshot, or fewer models to look *)
(* at.                                                                     *)
Nearer(k, n) ==
    \/ n.pc = "granted"
    \/ /\ n.pc \in {"waiting", "evicting"}
       /\ \/ k.pc = "ps"
          \/ k.pc = "waiting" /\ n.pc = "evicting" /\ n.next = k.next /\ n.todo = k.todo
          \/ k.pc = "evicting" /\ k.next = "snapshot" /\ n.next = "sweep"
          \/ /\ k.pc = "evicting" /\ k.next = "sweep" /\ n.next = "sweep"
             /\ n.todo \subseteq k.todo /\ n.todo # k.todo

(* No step sets a request back: whatever the others request, evict, load   *)
(* and time out, a request awaits each eviction of its own once, and evicts*)
(* a model of its snapshot once.  This is the measure behind               *)
(* RequestsGranted.                                                        *)
RequestsAdvance ==
    [][\A c \in Callers : UnderWay(call[c]) =>
          call'[c] = call[c] \/ Nearer(call[c], call'[c])]_vars

(* An eviction moves its caller only.                                      *)
LEMMA EvictMovesOne ==
    ASSUME NEW c \in Callers, NEW q, NEW b \in [Callers -> Call], NEW k \in Call, NEW v,
           Evict(c, q, b, k, v)
    PROVE  /\ \A w \in Callers \ {c} : call'[w] = b[w]
           /\ call'[c].pc \in {"waiting", "evicting"}
           /\ call'[c].next = k.next /\ call'[c].todo = k.todo
<1> DEFINE e == [k EXCEPT !.pc = "evicting", !.victim = v]
           n == [k EXCEPT !.pc = "waiting", !.victim = v, !.awaits = q]
<1>1. e.pc = "evicting" /\ e.next = k.next /\ e.todo = k.todo
  BY DEF Call
<1>2. n.pc = "waiting" /\ n.next = k.next /\ n.todo = k.todo
  BY DEF Call
<1>3. call' = [b EXCEPT ![c] = e] \/ call' = [b EXCEPT ![c] = n]
  BY DEF Evict
<1> HIDE DEF e, n
<1> QED BY <1>1, <1>2, <1>3

(* A round of the sweep grants, or evicts a model it will not see again.   *)
LEMMA SweepMovesOne ==
    ASSUME NEW c \in Callers, NEW t, NEW q, NEW b \in [Callers -> Call], NEW k \in Call,
           Sweep(c, t, q, b, k)
    PROVE  /\ \A w \in Callers \ {c} : call'[w] = b[w]
           /\ \/ call'[c].pc = "granted"
              \/ /\ call'[c].pc \in {"waiting", "evicting"} /\ call'[c].next = "sweep"
                 /\ call'[c].todo \subseteq k.todo /\ call'[c].todo # k.todo
<1> DEFINE mustGo == {a \in k.todo : MustGo(k.model, a, k.projected)}
           n == [IdleCall EXCEPT !.pc = "granted", !.model = k.model,
                                 !.projected = k.projected]
<1>1. CASE call' = [b EXCEPT ![c] = n]
  <2>1. n.pc = "granted"
    BY DEF IdleCall
  <2> HIDE DEF n
  <2> QED BY <1>1, <2>1
<1>2. ASSUME NEW v \in mustGo, NEW s \in SUBSET (k.todo \ mustGo),
             Evict(c, q, b, [k EXCEPT !.next = "sweep", !.todo = @ \ ({v} \cup s),
                                      !.projected = @ + Size[v]], v)
      PROVE  /\ \A w \in Callers \ {c} : call'[w] = b[w]
             /\ call'[c].pc \in {"waiting", "evicting"} /\ call'[c].next = "sweep"
             /\ call'[c].todo \subseteq k.todo /\ call'[c].todo # k.todo
  <2> DEFINE r == [k EXCEPT !.next = "sweep", !.todo = @ \ ({v} \cup s),
                            !.projected = @ + Size[v]]
  <2>1. v \in Models /\ v \in k.todo /\ k.projected + Size[v] \in Nat
    BY OrchestratorAssumption DEF Call
  <2>2. r \in Call /\ r.next = "sweep" /\ r.todo = k.todo \ ({v} \cup s)
    BY <2>1 DEF Call
  <2>3. Evict(c, q, b, r, v)
    BY <1>2
  <2> HIDE DEF r, mustGo
  <2>4. /\ \A w \in Callers \ {c} : call'[w] = b[w]
        /\ call'[c].pc \in {"waiting", "evicting"}
        /\ call'[c].next = "sweep" /\ call'[c].todo = k.todo \ ({v} \cup s)
    BY <2>2, <2>3, EvictMovesOne
  <2> QED BY <2>1, <2>4
<1> QED BY <1>1, <1>2 DEF Sweep

(* It moves nobody else.                                                   *)
LEMMA SweepLeavesOthers ==
    ASSUME NEW c \in Callers, NEW t, NEW q, NEW b \in [Callers -> Call], NEW k \in Call,
           Sweep(c, t, q, b, k), NEW d \in Callers, d # c
    PROVE  call'[d] = b[d]
BY SweepMovesOne

(* The end of an eviction gives their turn to those who waited for it.     *)
LEMMA WokenNear ==
    ASSUME call \in [Callers -> Call], NEW c \in Callers
    PROVE  /\ Woken(c) \in [Callers -> Call]
           /\ \A w \in Callers : UnderWay(call[w]) =>
                 Woken(c)[w] = call[w] \/ Nearer(call[w], Woken(c)[w])
<1> DEFINE woken(w) == [call[w] EXCEPT !.pc = "evicting", !.awaits = NoCaller]
<1>1. ASSUME NEW w \in Waiters(c)
      PROVE  woken(w) \in Call /\ (UnderWay(call[w]) => Nearer(call[w], woken(w)))
  <2>1. call[w] \in Call /\ call[w].pc = "waiting"
    BY <1>1 DEF Waiters
  <2>2. woken(w) \in Call /\ woken(w).pc = "evicting"
    BY <2>1 DEF Call
  <2>3. woken(w).next = call[w].next /\ woken(w).todo = call[w].todo
    BY <2>1 DEF Call
  <2> HIDE DEF woken
  <2> QED BY <2>1, <2>2, <2>3 DEF Nearer
<1>2. \A w \in Callers : Woken(c)[w] = IF w \in Waiters(c) THEN woken(w) ELSE call[w]
  BY DEF Woken
<1> HIDE DEF woken
<1>3. Woken(c) \in [Callers -> Call]
  <2>1. \A w \in Callers : Woken(c)[w] \in Call
    BY <1>1, <1>2
  <2> QED BY <2>1 DEF Woken
<1> QED BY <1>1, <1>2, <1>3

(* A request under way is only moved forward, by its own steps and by the  *)
(* end of the eviction it waits for.                                       *)
LEMMA StepAdvances ==
    ASSUME IInv, [Next]_vars, NEW w \in Callers, UnderWay(call[w])
    PROVE  call'[w] = call[w] \/ Nearer(call[w], call'[w])
<1>0. call \in [Callers -> Call] /\ ram \in Nat
  BY DEF IInv, TypeOK
<1>1. ASSUME NEW c \in Callers, PsArrives(c)
      PROVE  call'[w] = call[w] \/ Nearer(call[w], call'[w])
  <2>1. call[c].pc = "ps" /\ call[c] \in Call
    BY <1>0, <1>1 DEF PsArrives
  <2>2. PICK t \in SyncAnswers :
          \/ Evict(c, inFlight, call, [call[c] EXCEPT !.next = "snapshot"], t.seven)
          \/ Sweep(c, t, inFlight, call, Snapshot(call[c], t))
    BY <1>1 DEF PsArrives
  <2>3. t \in Tracked
    BY SyncConsistent DEF IInv, TypeOK, Consistent
  <2>4. [call[c] EXCEPT !.next = "snapshot"] \in Call /\ Snapshot(call[c], t) \in Call
    BY <1>0, <2>1, <2>3, SnapshotTaken DEF Call
  <2>5. /\ \A d \in Callers \ {c} : call'[d] = call[d]
        /\ call'[c].pc \in {"granted", "waiting", "evicting"}
    <3>1. CASE Evict(c, inFlight, call, [call[c] EXCEPT !.next = "snapshot"], t.seven)
      BY <1>0, <2>4, <3>1, EvictMovesOne
    <3>2. CASE Sweep(c, t, inFlight, call, Snapshot(call[c], t))
      <4> DEFINE k == Snapshot(call[c], t)
      <4>1. k \in Call /\ Sweep(c, t, inFlight, call, k)
        BY <2>4, <3>2
      <4> HIDE DEF k
      <4>2. \A d \in Callers \ {c} : call'[d] = call[d]
        BY <1>0, <4>1, SweepLeavesOthers
      <4>3. call'[c].pc \in {"granted", "waiting", "evicting"}
        BY <1>0, <4>1, SweepMovesOne
      <4> QED BY <4>2, <4>3
    <3> QED BY <2>2, <3>1, <3>2
  <2> QED BY <2>1, <2>5 DEF Nearer
<1>2. ASSUME NEW c \in Callers, EvictionEnds(c)
      PROVE  call'[w] = call[w] \/ Nearer(call[w], call'[w])
  <2> DEFINE k == call[c]
             t == Forget(tracked, k.victim)
             b == Woken(c)
             n == Snapshot(k, t)
  <2>1. k.pc = "evicting" /\ k \in Call
    BY <1>0, <1>2 DEF EvictionEnds
  <2>2. b \in [Callers -> Call] /\ (b[w] = call[w] \/ Nearer(call[w], b[w]))
    BY <1>0, WokenNear
  <2>3. n \in Call
    BY <1>0, <2>1, SnapshotTaken, ForgetConsistent DEF IInv, Consistent
  <2>4. PICK q \in LastWoken(c) :
          \/ k.next = "snapshot" /\ Sweep(c, t, q, b, n)
          \/ k.next = "sweep" /\ Sweep(c, t, q, b, k)
          \/ k.next = "done" /\ call' = [b EXCEPT ![c] = IdleCall]
    BY <1>2 DEF EvictionEnds
  <2>5. k = call[c]
    OBVIOUS
  <2> HIDE DEF k, t, b, n
  <2>6. CASE w # c
    <3>1. call'[w] = b[w]
      <4>1. \A d \in Callers \ {c} : call'[d] = b[d]
        <5>1. CASE k.next = "snapshot" /\ Sweep(c, t, q, b, n)
          BY <2>2, <2>3, <5>1, SweepLeavesOthers
        <5>2. CASE k.next = "sweep" /\ Sweep(c, t, q, b, k)
          BY <2>1, <2>2, <5>2, SweepLeavesOthers
        <5>3. CASE call' = [b EXCEPT ![c] = IdleCall]
          BY <2>2, <5>3
        <5> QED BY <2>4, <5>1, <5>2, <5>3
      <4> QED BY <2>6, <4>1
    <3> QED BY <2>2, <3>1
  <2>7. CASE w = c
    <3>1. CASE k.next = "snapshot" /\ Sweep(c, t, q, b, n)
      <4>1. \/ call'[c].pc = "granted"
            \/ call'[c].pc \in {"waiting", "evicting"} /\ call'[c].next = "sweep"
        BY <2>2, <2>3, <3>1, SweepMovesOne
      <4> QED BY <2>1, <2>5, <2>7, <3>1, <4>1 DEF Nearer
    <3>2. CASE k.next = "sweep" /\ Sweep(c, t, q, b, k)
      <4>1. \/ call'[c].pc = "granted"
            \/ /\ call'[c].pc \in {"waiting", "evicting"} /\ call'[c].next = "sweep"
               /\ call'[c].todo \subseteq k.todo /\ call'[c].todo # k.todo
        BY <2>1, <2>2, <3>2, SweepMovesOne
      <4> QED BY <2>1, <2>5, <2>7, <3>2, <4>1 DEF Nearer
    <3>3. k.next # "done"
      BY <2>1, <2>5, <2>7 DEF UnderWay
    <3> QED BY <2>4, <3>1, <3>2, <3>3
  <2> QED BY <2>6, <2>7
<1>3. ASSUME NEW c \in Callers, call[c].pc \in {"idle", "granted", "inferring"},
             \A d \in Callers \ {c} : call'[d] = call[d]
      PROVE  call'[w] = call[w]
  BY <1>3 DEF UnderWay
<1>4. ASSUME NEW c \in Callers, Complete(c) PROVE call'[w] = call[w]
  <2>1. [call[c] EXCEPT !.next = "done"] \in Call
    BY <1>0 DEF Call
  <2>2. \A d \in Callers \ {c} : call'[d] = call[d]
    BY <1>0, <1>4, <2>1, EvictMovesOne DEF Complete
  <2> QED BY <1>3, <1>4, <2>2 DEF Complete
<1>5. ASSUME NEW c \in Callers,
             (\E m \in Models : Request(c, m)) \/ Generate(c) \/ TimeOut(c)
      PROVE  call'[w] = call[w]
  <2>1. \A d \in Callers \ {c} : call'[d] = call[d]
    BY <1>0, <1>5 DEF Request, Generate, TimeOut
  <2>2. call[c].pc \in {"idle", "granted", "inferring"}
    BY <1>5 DEF Request, Generate, TimeOut
  <2> QED BY <1>3, <2>1, <2>2
<1>6. CASE \/ StatusPoll
           \/ \E md \in SetModes : SetMode(md)
           \/ \E m \in Predicted : PreloadNextSpecialist(m)
           \/ \E m \in Models : PreloadEnds(m) \/ OllamaDrops(m) \/ OrphanEnds(m)
           \/ UNCHANGED vars
  BY <1>6 DEF StatusPoll, SetMode, PreloadNextSpecialist, PreloadEnds, OllamaDrops,
              OrphanEnds, vars
<1> QED BY <1>1, <1>2, <1>4, <1>5, <1>6 DEF Next, Serve

(* Every step of a request, for any callers and models and whatever fails  *)
(* or is given up, brings it nearer to its grant.                          *)
THEOREM OrchestratorAdvances == Spec => RequestsAdvance
<1>1. IInv /\ [Next]_vars =>
        [\A c \in Callers : UnderWay(call[c]) =>
            call'[c] = call[c] \/ Nearer(call[c], call'[c])]_vars
  BY StepAdvances
<1> QED BY InitIInv, StepIInv, <1>1, PTL DEF Spec, RequestsAdvance
=============================================================================
