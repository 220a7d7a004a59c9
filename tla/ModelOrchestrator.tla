------------------------- MODULE ModelOrchestrator -------------------------
(***************************************************************************)
(* apps/swarmx-api/src/services/model-orchestrator.ts: the singleton that  *)
(* decides which Ollama model may be loaded next and evicts the others, as *)
(* its callers (composer, video stages, virality scorer, ...) use it:      *)
(* requestModel, one generation, onModelCallComplete and, for some, an     *)
(* unloadModel.                                                            *)
(*                                                                         *)
(* An action is what happens between two awaits.  Ollama itself is         *)
(* external: it loads the model of a generation, never drops a model in    *)
(* use, and drops an idle one when its keep-alive ends; an answer of       *)
(* /api/ps is taken to be still true when it arrives.  RAM is counted in   *)
(* units; the poll of /proc/meminfo, at most one per RAM_POLL_MS, happens  *)
(* or not.                                                                 *)
(* warmQueue, which nothing reads, and the keep-alive strings are left     *)
(* out; every tag is canonical and registered.                             *)
(***************************************************************************)
EXTENDS Integers, FiniteSets

CONSTANTS
    Callers,         \* requests that may be under way at once
    Models,          \* tags of MODEL_REGISTRY
    Seven,           \* those with is7B
    NoModel,         \* null
    NoCaller,        \* inFlightEviction === null
    Size,            \* estimatedRamMb of each model, in units
    Reserve,         \* MODEL_HEADROOM_RESERVE_MB
    RamCritical,     \* RAM_CRITICAL_MB
    RamLow,          \* RAM_LOW_MB
    RamPrewarm,      \* RAM_LOW_MB + 1000
    RamDefault,      \* availableRamMb before the first poll
    LowRamMode,      \* SWARMX_VIDEO_LOW_RAM_MODE === "1"
    RamLevels,       \* bound: what MemAvailable may read
    PsMayFail,       \* /api/ps may time out or be refused
    EvictionMayFail, \* an unload request may time out or be refused
    MayTimeOut,      \* a caller may give up on a generation that goes on
    SetModes,        \* bound: what setMode() is called with
    Predicted        \* bound: what preloadNextSpecialist() is called with;
                     \* {} unless SWARMX_MODEL_PREDICTIVE_PREWARM === "1"

ASSUME OrchestratorAssumption ==
    /\ Seven \subseteq Models
    /\ NoModel \notin Models
    /\ NoCaller \notin Callers
    /\ Size \in [Models -> Nat]
    /\ RamLevels \subseteq Nat /\ RamDefault \in Nat
    /\ Reserve \in Nat /\ RamCritical \in Nat /\ RamLow \in Nat /\ RamPrewarm \in Nat
    /\ {LowRamMode, PsMayFail, EvictionMayFail, MayTimeOut} \subseteq BOOLEAN

Modes == {"normal", "low-ram", "evolver", "degraded"}

ASSUME CallsAssumption == SetModes \subseteq Modes /\ Predicted \subseteq Models

VARIABLES
    tracked,        \* [models |-> activeModels, seven |-> active7BModel]
    mode,           \* currentMode
    ram,            \* availableRamMb
    inFlight,       \* inFlightEviction: whose eviction it is
    pendingWarmup,  \* pendingWarmup
    preloads,       \* models with a speculative load under way
    call,           \* what each caller waits for
    resident,       \* what Ollama holds in memory
    orphans         \* the models of generations nobody awaits any more

vars == <<tracked, mode, ram, inFlight, pendingWarmup, preloads, call, resident, orphans>>
host == <<mode, ram>>
warmup == <<pendingWarmup, preloads>>
ollama == <<resident, orphans>>

Tracked == [models : SUBSET Models, seven : Seven \cup {NoModel}]

(* pc: awaits /api/ps, another caller's eviction ("waiting") or its own    *)
(* ("evicting"), after which next tells how it goes on.                    *)
Call ==
    [pc        : {"idle", "ps", "waiting", "evicting", "granted", "inferring"},
     model     : Models \cup {NoModel},
     victim    : Models \cup {NoModel},
     awaits    : Callers \cup {NoCaller},
     next      : {"snapshot", "sweep", "done"},
     todo      : SUBSET Models,   \* active models the sweep has still to look at
     projected : Nat]             \* projectedAvailableMb

IdleCall == [pc |-> "idle", model |-> NoModel, victim |-> NoModel,
             awaits |-> NoCaller, next |-> "done", todo |-> {}, projected |-> 0]

TypeOK ==
    /\ tracked       \in Tracked
    /\ mode          \in Modes
    /\ ram           \in Nat
    /\ inFlight      \in Callers \cup {NoCaller}
    /\ pendingWarmup \in Models \cup {NoModel}
    /\ preloads      \subseteq Models
    /\ call          \in [Callers -> Call]
    /\ resident      \subseteq Models
    /\ orphans       \subseteq Models

Init ==
    /\ tracked = [models |-> {}, seven |-> NoModel]
    /\ mode = "normal"
    /\ ram = RamDefault
    /\ inFlight = NoCaller
    /\ pendingWarmup = NoModel
    /\ preloads = {}
    /\ call = [c \in Callers |-> IdleCall]
    /\ resident = {}
    /\ orphans = {}

-----------------------------------------------------------------------------
(* What the orchestrator knows                                             *)

(* Mutant of Track: is7B is not looked at.                                 *)
TrackAny(t, m) == [models |-> t.models \cup {m}, seven |-> m]

(* The model is granted or preloaded.                                      *)
Track(t, m) ==
    [models |-> t.models \cup {m}, seven |-> IF m \in Seven THEN m ELSE t.seven]

(* Mutant of Forget: active7BModel is not cleared.                         *)
ForgetActiveOnly(t, m) == [t EXCEPT !.models = @ \ {m}]

(* onModelEvicted(m).                                                      *)
Forget(t, m) ==
    [models |-> t.models \ {m}, seven |-> IF t.seven = m THEN NoModel ELSE t.seven]

(* syncFromOllama(): the first 7B of the answer is the active one; an      *)
(* answer that does not come leaves everything as it is.                   *)
SyncAnswers ==
    {t \in [models : {resident}, seven : Seven \cup {NoModel}] :
        IF resident \cap Seven = {} THEN t.seven = NoModel
        ELSE t.seven \in resident \cap Seven}
    \cup {t \in {tracked} : PsMayFail}

ModeFor(a) ==
    IF a < RamCritical THEN "degraded"
    ELSE IF LowRamMode \/ a < RamLow THEN "low-ram"
    ELSE IF mode \in {"degraded", "low-ram"} THEN "normal" ELSE mode

RefreshRam ==
    \/ UNCHANGED host
    \/ \E a \in RamLevels : ram' = a /\ mode' = ModeFor(a)

InUse(m) == m \in orphans \/ \E c \in Callers : call[c].pc = "inferring" /\ call[c].model = m

-----------------------------------------------------------------------------
(* evictIncompatible(), between its awaits.  t is what the orchestrator    *)
(* knows by then, q the inFlightEviction and b the callers it finds, k the *)
(* record of caller c.                                                     *)

(* Mutant of ViolatesLock: the SINGLE-7B LOCK is forgotten.                *)
ViolatesLockNever(m, t) == FALSE

(* POLICY 1: another 7B is the active one.                                 *)
ViolatesLock(m, t) == m \in Seven /\ t.seven \notin {NoModel, m}

NeedsHeadroom(m, projected) == projected < Size[m] + Reserve

(* Mutant of MustGo: the headroom is not looked at.                        *)
MustGoInLowRam(m, a, projected) == m \in Seven /\ mode = "low-ram" /\ a \notin Seven

(* The sweep for m evicts the active model a.                              *)
MustGo(m, a, projected) ==
    m \in Seven /\ (NeedsHeadroom(m, projected) \/ (mode = "low-ram" /\ a \notin Seven))

(* _evictModel(v), up to its first await.                                  *)
Evict(c, q, b, k, v) ==
    IF q = NoCaller
    THEN /\ call' = [b EXCEPT ![c] = [k EXCEPT !.pc = "evicting", !.victim = v]]
         /\ inFlight' = c
    ELSE /\ call' = [b EXCEPT ![c] = [k EXCEPT !.pc = "waiting", !.victim = v, !.awaits = q]]
         /\ inFlight' = q

Snapshot(k, t) == [k EXCEPT !.todo = t.models \ {k.model}, !.projected = ram]

(* The loop over the snapshot, up to the next eviction or to the grant;    *)
(* the models it skipped are not looked at again.                          *)
Sweep(c, t, q, b, k) ==
    LET mustGo == {a \in k.todo : MustGo(k.model, a, k.projected)} IN
    \/ /\ mustGo = {}
       /\ tracked' = Track(t, k.model)
       /\ inFlight' = q
       /\ call' = [b EXCEPT ![c] = [IdleCall EXCEPT !.pc = "granted", !.model = k.model,
                                                    !.projected = k.projected]]
    \/ \E v \in mustGo, skipped \in SUBSET (k.todo \ mustGo) :
       /\ tracked' = t
       /\ Evict(c, q, b, [k EXCEPT !.next = "sweep", !.todo = @ \ ({v} \cup skipped),
                                   !.projected = @ + Size[v]], v)

-----------------------------------------------------------------------------
(* Steps of a caller                                                       *)

(* requestModel(m), up to the await of /api/ps.                            *)
Request(c, m) ==
    /\ call[c].pc = "idle"
    /\ RefreshRam
    /\ call' = [call EXCEPT ![c] = [IdleCall EXCEPT !.pc = "ps", !.model = m]]
    /\ UNCHANGED <<tracked, inFlight, warmup, ollama>>

PsArrives(c) ==
    /\ call[c].pc = "ps"
    /\ \E t \in SyncAnswers :
         IF ViolatesLock(call[c].model, t)
         THEN /\ tracked' = t
              /\ Evict(c, inFlight, call, [call[c] EXCEPT !.next = "snapshot"], t.seven)
         ELSE Sweep(c, t, inFlight, call, Snapshot(call[c], t))
    /\ UNCHANGED <<host, warmup, ollama>>

Waiters(c) == {w \in Callers : call[w].pc = "waiting" /\ call[w].awaits = c}

(* Mutant of Woken: nobody is.                                             *)
WokenNever(c) == call

(* inFlightEviction is awaited once: the waiters all begin their own.      *)
Woken(c) ==
    [w \in Callers |-> IF w \in Waiters(c)
                       THEN [call[w] EXCEPT !.pc = "evicting", !.awaits = NoCaller]
                       ELSE call[w]]

(* Mutant of LastWoken: inFlightEviction is not cleared.                   *)
LastWokenStale(c) == {c}

(* The last of them leaves its promise in inFlightEviction.                *)
LastWoken(c) == IF Waiters(c) = {} THEN {NoCaller} ELSE Waiters(c)

(* The unload request of c is answered or given up after 5 s; in both      *)
(* cases the victim is forgotten and inFlightEviction cleared, whosever it *)
(* is; the waiters go on before c does.  A model in use stays resident     *)
(* until its generation ends.                                              *)
EvictionEnds(c) ==
    LET k == call[c]
        t == Forget(tracked, k.victim)
        b == Woken(c)
    IN
    /\ k.pc = "evicting"
    /\ \/ resident' = IF InUse(k.victim) THEN resident ELSE resident \ {k.victim}
       \/ EvictionMayFail /\ UNCHANGED resident
    /\ \E q \in LastWoken(c) :
       \/ k.next = "snapshot" /\ Sweep(c, t, q, b, Snapshot(k, t))
       \/ k.next = "sweep" /\ Sweep(c, t, q, b, k)
       \/ /\ k.next = "done"
          /\ call' = [b EXCEPT ![c] = IdleCall]
          /\ inFlight' = q
          /\ tracked' = t
    /\ UNCHANGED <<host, warmup, orphans>>

(* The caller's generation makes Ollama load the model.                    *)
Generate(c) ==
    /\ call[c].pc = "granted"
    /\ call' = [call EXCEPT ![c].pc = "inferring"]
    /\ resident' = resident \cup {call[c].model}
    /\ UNCHANGED <<tracked, inFlight, host, warmup, orphans>>

Warmed(m) == IF pendingWarmup = m THEN NoModel ELSE pendingWarmup

(* onModelCallComplete(), and an unloadModel() by some callers.            *)
Complete(c) ==
    /\ call[c].pc = "inferring"
    /\ pendingWarmup' = Warmed(call[c].model)
    /\ \/ call' = [call EXCEPT ![c] = IdleCall] /\ UNCHANGED inFlight
       \/ Evict(c, inFlight, call, [call[c] EXCEPT !.next = "done"], call[c].model)
    /\ UNCHANGED <<tracked, host, preloads, ollama>>

(* withTimeout() rejects and the caller moves on; its request is not       *)
(* aborted, so the generation goes on.  The composer calls nothing then,   *)
(* the virality scorer onModelCallComplete().                              *)
TimeOut(c) ==
    /\ MayTimeOut
    /\ call[c].pc = "inferring"
    /\ call' = [call EXCEPT ![c] = IdleCall]
    /\ pendingWarmup' \in {pendingWarmup, Warmed(call[c].model)}
    /\ orphans' = orphans \cup {call[c].model}
    /\ UNCHANGED <<tracked, inFlight, host, preloads, resident>>

-----------------------------------------------------------------------------
(* Everything else                                                         *)

(* GET /api/models/status and the preflight of a video job.                *)
StatusPoll ==
    /\ tracked' \in SyncAnswers
    /\ UNCHANGED <<host, inFlight, warmup, call, ollama>>

SetMode(md) ==
    /\ mode' = md
    /\ UNCHANGED <<tracked, ram, inFlight, warmup, call, ollama>>

(* preloadNextSpecialist(m): the load it fires is not awaited.             *)
PreloadNextSpecialist(m) ==
    /\ pendingWarmup # m
    /\ m \in Seven => ram >= RamPrewarm
    /\ pendingWarmup' = m
    /\ preloads' = IF m \notin tracked.models /\ ram >= Size[m] + RamCritical
                   THEN preloads \cup {m} ELSE preloads
    /\ UNCHANGED <<tracked, host, inFlight, call, ollama>>

(* It is answered, or given up after 10 s, when Ollama may have loaded m.  *)
PreloadEnds(m) ==
    /\ m \in preloads
    /\ preloads' = preloads \ {m}
    /\ \/ resident' = resident \cup {m} /\ tracked' = Track(tracked, m)
       \/ resident' \in {resident, resident \cup {m}} /\ UNCHANGED tracked
    /\ UNCHANGED <<host, inFlight, pendingWarmup, call, orphans>>

(* The keep-alive of an idle model ends.                                   *)
OllamaDrops(m) ==
    /\ m \in resident /\ ~InUse(m)
    /\ resident' = resident \ {m}
    /\ UNCHANGED <<tracked, host, inFlight, warmup, call, orphans>>

OrphanEnds(m) ==
    /\ m \in orphans
    /\ orphans' = orphans \ {m}
    /\ UNCHANGED <<tracked, host, inFlight, warmup, call, resident>>

Serve(c) == PsArrives(c) \/ EvictionEnds(c)

Next ==
    \/ \E c \in Callers, m \in Models : Request(c, m)
    \/ \E c \in Callers : Serve(c)
    \/ \E c \in Callers : Generate(c)
    \/ \E c \in Callers : Complete(c)
    \/ \E c \in Callers : TimeOut(c)
    \/ StatusPoll
    \/ \E md \in SetModes : SetMode(md)
    \/ \E m \in Predicted : PreloadNextSpecialist(m)
    \/ \E m \in Models : PreloadEnds(m)
    \/ \E m \in Models : OllamaDrops(m)
    \/ \E m \in Models : OrphanEnds(m)

Spec == Init /\ [][Next]_vars

(* /api/ps is given up after 3 s and an unload request after 5 s, so every *)
(* await of a request ends.                                                *)
FairSpec == Spec /\ \A c \in Callers : WF_vars(Serve(c))

-----------------------------------------------------------------------------
(* Properties                                                              *)

(* "Enforce SINGLE-7B LOCK: never allow two 7B models resident             *)
(* simultaneously" (model-orchestrator.ts:10).                             *)
Single7BResident == \A a, b \in resident \cap Seven : a = b

(* When a 7B model is granted, whatever stays resident beside it leaves    *)
(* the headroom it needs, by the RAM reading its request was decided on.   *)
HeadroomBeforeLoad ==
    \A c \in Callers :
        call[c].pc = "granted" /\ call[c].model \in Seven
          /\ NeedsHeadroom(call[c].model, call[c].projected)
        => resident \subseteq {call[c].model}

(* active7BModel is one of activeModels, whatever requests, evictions,     *)
(* failed probes and speculative loads overlap.                            *)
ActiveSevenIsActive == tracked.seven # NoModel => tracked.seven \in tracked.models

(* Nobody waits for an eviction that is over: however evictions queue up   *)
(* behind one another and clear each other's inFlightEviction, the one a   *)
(* caller awaits, or would await next, is still under way.                 *)
AwaitedEvictionRuns ==
    /\ inFlight # NoCaller => call[inFlight].pc = "evicting"
    /\ \A c \in Callers : call[c].pc = "waiting" =>
          call[c].awaits \in Callers /\ call[call[c].awaits].pc = "evicting"

(* Every request is granted: no caller waits for an eviction for ever,     *)
(* however the evictions of several callers overlap and fail.              *)
RequestsGranted == \A c \in Callers : (call[c].pc = "ps") ~> (call[c].pc = "granted")
=============================================================================
