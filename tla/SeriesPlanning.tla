--------------------------- MODULE SeriesPlanning ---------------------------
(***************************************************************************)
(* The series engine of swarmx-api: the registry (series-registry.ts), the *)
(* four planning passes (video-series-planner.ts), the four passes of an   *)
(* episode's pre-production (video-episode-preproducer.ts) and the routes  *)
(* that start, rerun and forget them (routes/series.ts).                   *)
(*                                                                         *)
(* A pass awaits one model call and touches the registry only before and   *)
(* after it; between two passes of one pipeline there are microtasks only. *)
(* So an action is a route, or the end of a model call with all that the   *)
(* pipeline does until its next one.  The model call is external: it ends  *)
(* with usable JSON or it does not.  Every update is written to the        *)
(* snapshot at once, so a restart finds the registry as it was left, and   *)
(* the calls gone.                                                         *)
(*                                                                         *)
(* Abstractions.  Of a script, a prompt suite or an audio plan the model   *)
(* keeps whether it exists and whether it was made from the script the     *)
(* episode has now.  A roadmap always lists every episode                  *)
(* (validateRoadmap).  The video jobs themselves are VideoPipeline's.      *)
(***************************************************************************)
EXTENDS Naturals

CONSTANTS
    SeriesIds,     \* ids randomUUID() may hand out
    Episodes,      \* 1..seriesLength
    PreEpisodes,   \* bound: episodes whose pre-production is explored
    Calls,         \* bound: slots for model calls under way
    NoSeries,      \* the series of a free slot
    NoEpisode,     \* the episode of a planning pass
    PlanReruns,    \* bound: planning passes that clients rerun
    EpisodeReruns, \* bound: episode passes that clients rerun
    MaxCrashes     \* bound: times the process is replaced by the next one

ASSUME SeriesAssumption ==
    /\ NoSeries  \notin SeriesIds
    /\ NoEpisode \notin PreEpisodes
    /\ PreEpisodes \subseteq Episodes
    /\ Episodes # {}
    /\ PlanReruns \subseteq 1..4 /\ EpisodeReruns \subseteq 1..4
    /\ MaxCrashes \in Nat

VARIABLES
    series,    \* the registry: the SeriesJob of each id
    pre,       \* series.preProduction: a record per episode
    call,      \* the pipelines, each awaiting a model call
    rerun,     \* history: <<s, e>> whose passes were rerun one by one
    crashes    \* processes that have ended so far

vars == <<series, pre, call, rerun, crashes>>

-----------------------------------------------------------------------------
(* Records                                                                 *)

Passes     == 1..4     \* pass1..pass4 of a series; passA..passD of an episode
PassStatus == {"idle", "running", "complete", "failed"}
AllIdle    == [p \in Passes |-> "idle"]

Absent     == {"none", "gone"}      \* not created; deleted or expired
Unready    == {"planning", "failed"}
Producible == {"planned", "producing", "completed"}

SeriesJob ==
    [status   : Absent \cup Unready \cup Producible,
     passes   : [Passes -> PassStatus],   \* planningPassStatus
     world    : BOOLEAN,                  \* worldGuide is set
     roadmap  : BOOLEAN,                  \* episodeRoadmap is set
     produced : SUBSET Episodes]          \* keys of videoJobIds

InProgress == {"scripting", "prompting", "audio_assets", "scoring"}
Derived    == {"none", "current", "stale"}

EpisodePreProduction ==
    [status  : {"none", "complete", "failed"} \cup InProgress,
     passes  : [Passes -> PassStatus],    \* passStatus
     script  : BOOLEAN,                   \* script is set
     prompts : Derived,                   \* scenePrompts, made of which script
     audio   : Derived]                   \* audioPlan and platformAssets

(* planSeries and runEpisodePreProduction run all passes, a rerun only one.*)
Call ==
    [kind    : {"idle", "plan", "planRerun", "pre", "preRerun"},
     series  : SeriesIds \cup {NoSeries},
     episode : PreEpisodes \cup {NoEpisode},
     pass    : Passes,
     stale   : BOOLEAN]     \* the script it read is no longer the episode's

NoSeriesJob == [status |-> "none", passes |-> AllIdle, world |-> FALSE,
                roadmap |-> FALSE, produced |-> {}]
NoPre       == [status |-> "none", passes |-> AllIdle, script |-> FALSE,
                prompts |-> "none", audio |-> "none"]
IdleCall    == [kind |-> "idle", series |-> NoSeries, episode |-> NoEpisode,
                pass |-> 1, stale |-> FALSE]

TypeOK ==
    /\ series  \in [SeriesIds -> SeriesJob]
    /\ pre     \in [SeriesIds -> [PreEpisodes -> EpisodePreProduction]]
    /\ call    \in [Calls -> Call]
    /\ rerun   \subseteq SeriesIds \X PreEpisodes
    /\ crashes \in Nat

Init ==
    /\ series  = [s \in SeriesIds |-> NoSeriesJob]
    /\ pre     = [s \in SeriesIds |-> [e \in PreEpisodes |-> NoPre]]
    /\ call    = [c \in Calls |-> IdleCall]
    /\ rerun   = {}
    /\ crashes = 0

-----------------------------------------------------------------------------
(* Helpers                                                                 *)

Present(s) == series[s].status \notin Absent

(* Mutant of PassRunning: a rerun only looks for itself.                   *)
PassRunningFirst(passes) == passes[1] = "running"

PassRunning(passes) == \E p \in Passes : passes[p] = "running"

(* Mutant of HasNextPass: off by one.                                      *)
HasNextPassOneMore(p) == p <= 4

HasNextPass(p) == p < 4

(* The slots are alike: a new pipeline takes the first free one.           *)
FreeCall == CHOOSE c \in Calls : call[c].kind = "idle"

Free(c) == call[c].kind = "idle" /\ c = FreeCall

End(c) == call' = [call EXCEPT ![c] = IdleCall]

PlannerCall(k, s, p) ==
    [kind |-> k, series |-> s, episode |-> NoEpisode, pass |-> p, stale |-> FALSE]

EpisodeCall(k, s, e, p) ==
    [kind |-> k, series |-> s, episode |-> e, pass |-> p, stale |-> FALSE]

-----------------------------------------------------------------------------
(* Planning                                                                *)

(* Passes 2 and 4 read the world guide, pass 3 the roadmap.                *)
PlannerReady(j, p) ==
    /\ p \in {2, 4} => j.world
    /\ p = 3 => j.roadmap

Fatal(p) == p \in {1, 2}

(* POST /api/video/series: createSeries, then planSeries to its first call.*)
CreateSeries(s, c) ==
    /\ series[s].status = "none" /\ Free(c)
    /\ series' = [series EXCEPT ![s].status = "planning", ![s].passes[1] = "running"]
    /\ call'   = [call EXCEPT ![c] = PlannerCall("plan", s, 1)]
    /\ UNCHANGED <<pre, rerun, crashes>>

(* What pass p writes when its model call answers well, or does not.       *)
PlannerWrites(j, p, ok) ==
    IF ok
    THEN [j EXCEPT !.passes[p] = "complete",
                   !.world     = @ \/ p = 1,
                   !.roadmap   = @ \/ p = 2]
    ELSE [j EXCEPT !.passes[p] = "failed",
                   !.status    = IF Fatal(p) THEN "failed" ELSE @]

(* Mutant of PlanGoesOn: the plan is never declared ready.                 *)
PlanGoesOnForgets(c, s, p, j) ==
    IF HasNextPass(p) /\ PlannerReady(j, p + 1)
    THEN /\ series' = [series EXCEPT ![s] = [j EXCEPT !.passes[p + 1] = "running"]]
         /\ call'   = [call EXCEPT ![c] = PlannerCall("plan", s, p + 1)]
    ELSE series' = [series EXCEPT ![s] = j] /\ End(c)

(* planSeries after pass p has left the series as j.                       *)
PlanGoesOn(c, s, p, j) ==
    IF HasNextPass(p) /\ PlannerReady(j, p + 1)
    THEN /\ series' = [series EXCEPT ![s] = [j EXCEPT !.passes[p + 1] = "running"]]
         /\ call'   = [call EXCEPT ![c] = PlannerCall("plan", s, p + 1)]
    ELSE /\ series' = [series EXCEPT ![s] =
                         [j EXCEPT !.status = IF HasNextPass(p) THEN @ ELSE "planned"]]
         /\ End(c)

(* The model call of a planning pass ends.  A series that is gone is not   *)
(* written to, and no later pass finds it.                                 *)
PlannerEnds(c, ok) ==
    LET s == call[c].series
        p == call[c].pass
        j == PlannerWrites(series[s], p, ok)
    IN
    /\ call[c].kind \in {"plan", "planRerun"}
    /\ IF ~Present(s) THEN End(c) /\ UNCHANGED series
       ELSE IF call[c].kind = "plan" /\ (ok \/ ~Fatal(p)) THEN PlanGoesOn(c, s, p, j)
       ELSE series' = [series EXCEPT ![s] = j] /\ End(c)
    /\ UNCHANGED <<pre, rerun, crashes>>

(* POST /:id/rerun-pass/:pass, of a pass whose prerequisites exist.        *)
RerunPlanning(s, p, c) ==
    /\ Present(s) /\ Free(c)
    /\ ~PassRunning(series[s].passes)
    /\ PlannerReady(series[s], p)
    /\ series' = [series EXCEPT ![s].passes[p] = "running"]
    /\ call'   = [call EXCEPT ![c] = PlannerCall("planRerun", s, p)]
    /\ UNCHANGED <<pre, rerun, crashes>>

-----------------------------------------------------------------------------
(* Production                                                              *)

(* Mutant of StatusAfterProducing: the episode just recorded is left out.  *)
StatusAfterProducingOld(j, e) == IF j.produced = Episodes THEN "completed" ELSE "producing"

(* recordEpisodeJobId()                                                    *)
StatusAfterProducing(j, e) ==
    IF j.produced \cup {e} = Episodes THEN "completed" ELSE "producing"

(* POST /:id/episodes/:n/produce that enqueues a job: the first one of the *)
(* episode, or another after a failure, a cancellation or an eviction.     *)
ProduceEpisode(s, e) ==
    /\ Present(s) /\ series[s].status \notin Unready
    /\ series[s].roadmap
    /\ series' = [series EXCEPT ![s].status   = StatusAfterProducing(series[s], e),
                                ![s].produced = @ \cup {e}]
    /\ UNCHANGED <<pre, call, rerun, crashes>>

-----------------------------------------------------------------------------
(* Pre-production                                                          *)

StatusAfterPass == <<"prompting", "audio_assets", "scoring", "complete">>

FreshPre == [NoPre EXCEPT !.status = "scripting", !.passes[1] = "running"]

(* Passes B and C read the script, pass D all outputs.                     *)
PreReady(q, p) ==
    /\ p > 1 => q.script
    /\ p = 4 => q.prompts # "none" /\ q.audio # "none"

(* Mutants of Busy: one of the statuses is forgotten.                      *)
BusyButScripting(q) == q.status \in InProgress \ {"scripting"}
BusyButScoring(q)   == q.status \in InProgress \ {"scoring"}

(* The idempotency test of POST /:id/episodes/:n/preproduction.            *)
Busy(q) == q.status \in InProgress

(* The script that the other calls of episode e have read is replaced.     *)
Outdated(s, e) ==
    [d \in Calls |-> IF call[d].series = s /\ call[d].episode = e
                     THEN [call[d] EXCEPT !.stale = TRUE] ELSE call[d]]

(* POST /:id/episodes/:n/preproduction, accepted: a new record, whatever   *)
(* the old one held, and the pipeline up to its first call.                *)
Preproduce(s, e, c) ==
    /\ Present(s) /\ series[s].status \notin Unready
    /\ series[s].roadmap
    /\ ~Busy(pre[s][e])
    /\ Free(c)
    /\ pre'  = [pre EXCEPT ![s][e] = FreshPre]
    /\ call' = [Outdated(s, e) EXCEPT ![c] = EpisodeCall("pre", s, e, 1)]
    /\ UNCHANGED <<series, rerun, crashes>>

Aged(d) == IF d = "current" THEN "stale" ELSE d

Made(stale) == IF stale THEN "stale" ELSE "current"

(* What pass p writes: its output and the next status, or the failure.     *)
(* Pass D fails as well when the quality gate does not pass.               *)
PreWrites(q, p, ok, stale) ==
    [q EXCEPT !.passes[p] = IF ok THEN "complete" ELSE "failed",
              !.status    = IF ok THEN StatusAfterPass[p] ELSE "failed",
              !.script    = @ \/ (ok /\ p = 1),
              !.prompts   = IF ok /\ p = 1 THEN Aged(@)
                            ELSE IF ok /\ p = 2 THEN Made(stale) ELSE @,
              !.audio     = IF ok /\ p = 1 THEN Aged(@)
                            ELSE IF ok /\ p = 3 THEN Made(stale) ELSE @]

(* The model call of an episode's pass ends.                               *)
PreproducerEnds(c, ok) ==
    LET s == call[c].series
        e == call[c].episode
        p == call[c].pass
        q == PreWrites(pre[s][e], p, ok, call[c].stale)
        others == IF ok /\ p = 1 THEN Outdated(s, e) ELSE call
    IN
    /\ call[c].kind \in {"pre", "preRerun"}
    /\ IF ~Present(s) THEN End(c) /\ UNCHANGED pre
       ELSE IF call[c].kind = "pre" /\ ok /\ HasNextPass(p) /\ PreReady(q, p + 1)
       THEN /\ pre'  = [pre EXCEPT ![s][e] = [q EXCEPT !.passes[p + 1] = "running"]]
            /\ call' = [others EXCEPT ![c] = EpisodeCall("pre", s, e, p + 1)]
       ELSE /\ pre'  = [pre EXCEPT ![s][e] = q]
            /\ call' = [others EXCEPT ![c] = IdleCall]
    /\ UNCHANGED <<series, rerun, crashes>>

(* POST /:id/episodes/:n/rerun-pass/:pass, prerequisites present.          *)
RerunEpisodePass(s, e, p, c) ==
    /\ Present(s) /\ Free(c)
    /\ pre[s][e].status # "none"
    /\ ~PassRunning(pre[s][e].passes)
    /\ PreReady(pre[s][e], p)
    /\ pre'   = [pre EXCEPT ![s][e].passes[p] = "running"]
    /\ call'  = [call EXCEPT ![c] = EpisodeCall("preRerun", s, e, p)]
    /\ rerun' = rerun \cup {<<s, e>>}
    /\ UNCHANGED <<series, crashes>>

-----------------------------------------------------------------------------
(* Removal and restart                                                     *)

(* DELETE /:id, or runCleanup() after SWARMX_VIDEO_EXPORT_TTL_DAYS: at any *)
(* time, whatever is under way.                                            *)
RemoveSeries(s) ==
    /\ Present(s)
    /\ series' = [series EXCEPT ![s] = [NoSeriesJob EXCEPT !.status = "gone"]]
    /\ pre'    = [pre EXCEPT ![s] = [e \in PreEpisodes |-> NoPre]]
    /\ UNCHANGED <<call, rerun, crashes>>

(* The process dies, and the next one hydrates the registry.               *)
CrashAndHydrate ==
    /\ crashes < MaxCrashes
    /\ crashes' = crashes + 1
    /\ call'    = [c \in Calls |-> IdleCall]
    /\ UNCHANGED <<series, pre, rerun>>

CallEnds(c) == \E ok \in BOOLEAN : PlannerEnds(c, ok) \/ PreproducerEnds(c, ok)

Next ==
    \/ \E s \in SeriesIds, c \in Calls : CreateSeries(s, c)
    \/ \E c \in Calls : CallEnds(c)
    \/ \E s \in SeriesIds, p \in PlanReruns, c \in Calls : RerunPlanning(s, p, c)
    \/ \E s \in SeriesIds, e \in Episodes : ProduceEpisode(s, e)
    \/ \E s \in SeriesIds, e \in PreEpisodes, c \in Calls : Preproduce(s, e, c)
    \/ \E s \in SeriesIds, e \in PreEpisodes, p \in EpisodeReruns, c \in Calls :
         RerunEpisodePass(s, e, p, c)
    \/ \E s \in SeriesIds : RemoveSeries(s)
    \/ CrashAndHydrate

Spec == Init /\ [][Next]_vars

(* A model call ends: nothing aborts the AbortController of a pass, but    *)
(* fetch gives up after its default header timeout (the answer comes in    *)
(* one piece), and the orchestrator grants every request (RequestsGranted).*)
FairSpec == Spec /\ \A c \in Calls : WF_vars(CallEnds(c))

-----------------------------------------------------------------------------
(* Properties                                                              *)

PlansOf(s)  == {c \in Calls : call[c].kind \in {"plan", "planRerun"} /\ call[c].series = s}
PresOf(s, e) ==
    {c \in Calls : call[c].kind \in {"pre", "preRerun"}
                     /\ call[c].series = s /\ call[c].episode = e}

(* "409 if any pass is already running": planSeries and the reruns of a    *)
(* series never have two model calls under way, across restarts too.       *)
OnePlannerCall ==
    \A s \in SeriesIds : \A c, d \in PlansOf(s) : c = d

(* The same for an episode that only the pre-production route drives: its  *)
(* idempotency test is a status that the passes move.                      *)
OnePassPerEpisode ==
    \A s \in SeriesIds, e \in PreEpisodes :
        <<s, e>> \notin rerun => \A c, d \in PresOf(s, e) : c = d

(* An episode that was never rerun pass by pass is declared complete only  *)
(* with prompts and audio made from the script it shows.                   *)
CompleteIsCoherent ==
    \A s \in SeriesIds, e \in PreEpisodes :
        pre[s][e].status = "complete" /\ <<s, e>> \notin rerun
          => pre[s][e].script /\ pre[s][e].prompts = "current" /\ pre[s][e].audio = "current"

(* The registry implements the lifecycle that SeriesJobStatus documents.   *)
Lifecycle == INSTANCE SeriesLifecycle WITH
    status   <- [s \in SeriesIds |-> series[s].status],
    plan     <- [s \in SeriesIds |-> series[s].roadmap],
    produced <- [s \in SeriesIds |-> series[s].produced]

SeriesLifecycleSpec == Lifecycle!Spec

(* Planning, and the pre-production of an episode that nobody reruns by    *)
(* hand, come to an end in the process that began them.                    *)
PassesEnd ==
    \A s \in SeriesIds :
        /\ (series[s].status = "planning")
             ~> (series[s].status # "planning" \/ crashes > 0)
        /\ \A e \in PreEpisodes :
             (pre[s][e].status \in InProgress)
               ~> (pre[s][e].status \notin InProgress \/ crashes > 0 \/ <<s, e>> \in rerun)
=============================================================================
