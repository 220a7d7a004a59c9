----------------------- MODULE SeriesPlanning_proofs -----------------------
(***************************************************************************)
(* Proofs about SeriesPlanning, for any number of series, episodes and     *)
(* model calls, any reruns and any number of restarts: the type invariant, *)
(* that a series never has two planner calls under way, that an episode    *)
(* nobody reruns by hand never has two passes under way and completes only *)
(* with the outputs of its own script, and the implementation of           *)
(* SeriesLifecycle.                                                        *)
(***************************************************************************)
EXTENDS SeriesPlanning, TLAPS

-----------------------------------------------------------------------------
(* What the records are                                                    *)

(* A pass of the planner leaves a series record, whose status only a fatal *)
(* failure moves; it never takes the roadmap away.                         *)
LEMMA PlannerWritesWell ==
    ASSUME NEW j \in SeriesJob, NEW p \in Passes, NEW ok \in BOOLEAN
    PROVE  /\ PlannerWrites(j, p, ok) \in SeriesJob
           /\ PlannerWrites(j, p, ok).produced = j.produced
           /\ PlannerWrites(j, p, ok).status = IF ~ok /\ p \in {1, 2} THEN "failed" ELSE j.status
           /\ PlannerWrites(j, p, ok).roadmap = (j.roadmap \/ (ok /\ p = 2))
BY DEF PlannerWrites, SeriesJob, Fatal, PassStatus, Unready

(* A pass of the pre-production leaves an episode record.                  *)
LEMMA PreWritesWell ==
    ASSUME NEW q \in EpisodePreProduction, NEW p \in Passes,
           NEW ok \in BOOLEAN, NEW stale \in BOOLEAN
    PROVE  /\ PreWrites(q, p, ok, stale) \in EpisodePreProduction
           /\ PreWrites(q, p, ok, stale).status =
                IF ok THEN StatusAfterPass[p] ELSE "failed"
           /\ PreWrites(q, p, ok, stale).script = (q.script \/ (ok /\ p = 1))
           /\ ok /\ p # 1 => PreWrites(q, p, ok, stale).prompts =
                               IF p = 2 THEN Made(stale) ELSE q.prompts
           /\ ok /\ p # 1 => PreWrites(q, p, ok, stale).audio =
                               IF p = 3 THEN Made(stale) ELSE q.audio
<1> USE DEF EpisodePreProduction
<1> DEFINE w == PreWrites(q, p, ok, stale)
<1>1. StatusAfterPass[p] \in {"complete"} \cup InProgress
  BY DEF StatusAfterPass, InProgress, Passes
<1>2. Aged(q.prompts) \in Derived /\ Aged(q.audio) \in Derived /\ Made(stale) \in Derived
  BY DEF Aged, Made, Derived
<1> QED BY <1>1, <1>2 DEF PreWrites, PassStatus

(* A pipeline's record in the table of model calls.                        *)
LEMMA CallsWell ==
    ASSUME NEW s \in SeriesIds, NEW p \in Passes
    PROVE  /\ IdleCall \in Call
           /\ \A k \in {"plan", "planRerun"} : PlannerCall(k, s, p) \in Call
           /\ \A k \in {"pre", "preRerun"}, e \in PreEpisodes : EpisodeCall(k, s, e, p) \in Call
BY DEF IdleCall, PlannerCall, EpisodeCall, Call, Passes

(* A replaced script marks calls and changes nothing else of them.         *)
LEMMA OutdatedWell ==
    ASSUME call \in [Calls -> Call], NEW s \in SeriesIds, NEW e \in PreEpisodes
    PROVE  /\ Outdated(s, e) \in [Calls -> Call]
           /\ \A d \in Calls :
                /\ Outdated(s, e)[d].kind    = call[d].kind
                /\ Outdated(s, e)[d].series  = call[d].series
                /\ Outdated(s, e)[d].episode = call[d].episode
                /\ Outdated(s, e)[d].pass    = call[d].pass
                /\ ~(call[d].series = s /\ call[d].episode = e)
                     => Outdated(s, e)[d] = call[d]
BY DEF Outdated, Call

-----------------------------------------------------------------------------
(* Types                                                                   *)

PlanKinds == {"plan", "planRerun"}
PreKinds  == {"pre", "preRerun"}

(* A model call under way belongs to a series that was created, and a pass *)
(* of an episode to an episode.                                            *)
CallsKnown ==
    \A c \in Calls : call[c].kind # "idle" =>
        /\ call[c].series \in SeriesIds
        /\ series[call[c].series].status # "none"
        /\ call[c].kind \in PreKinds => call[c].episode \in PreEpisodes

Typed == TypeOK /\ CallsKnown

(* What each action leaves, in terms of what it found: the rest of the     *)
(* proofs rest on these lemmas.  First the end of a planner call: of its   *)
(* own series and its own slot only, the next pass marked or the slot free.*)
LEMMA PlannerEndsWell ==
    ASSUME Typed, NEW c \in Calls, NEW ok \in BOOLEAN, PlannerEnds(c, ok)
    PROVE  LET s == call[c].series
               p == call[c].pass
           IN  /\ s \in SeriesIds /\ p \in Passes
               /\ call[c].kind \in PlanKinds
               /\ UNCHANGED <<pre, rerun, crashes>>
               /\ \/ call' = [call EXCEPT ![c] = IdleCall]
                  \/ /\ call' = [call EXCEPT ![c] = PlannerCall("plan", s, p + 1)]
                     /\ call[c].kind = "plan" /\ p + 1 \in Passes /\ Present(s)
                     /\ series'[s].passes[p + 1] = "running"
                     /\ series'[s].status = series[s].status
                     /\ p + 1 = 3 => series'[s].roadmap
               /\ \E j \in SeriesJob :
                    /\ series' = [series EXCEPT ![s] = j]
                    /\ ~Present(s) => j = series[s]
                    /\ j.produced = series[s].produced
                    /\ series[s].roadmap => j.roadmap
                    /\ Present(s) => j.status \in {series[s].status, "failed", "planned"}
                    /\ j.status = "planned" /\ series[s].status # "planned"
                         => call[c].kind = "plan" /\ p = 4
                    /\ j.status # series[s].status => j.roadmap = series[s].roadmap
<1> DEFINE s == call[c].series
           p == call[c].pass
           j == PlannerWrites(series[s], p, ok)
<1> USE DEF Typed, TypeOK
<1>1. /\ s \in SeriesIds /\ p \in Passes
      /\ call[c].kind \in PlanKinds
      /\ UNCHANGED <<pre, rerun, crashes>>
  BY DEF PlannerEnds, CallsKnown, PlanKinds, Call
<1>2. CASE ~Present(s)
  <2>1. call' = [call EXCEPT ![c] = IdleCall] /\ series' = series
    BY <1>2 DEF PlannerEnds, End
  <2>2. series' = [series EXCEPT ![s] = series[s]] /\ series[s] \in SeriesJob
    BY <2>1, <1>1
  <2> QED BY <1>1, <1>2, <2>1, <2>2
<1>3. CASE Present(s)
  <2>1. /\ j \in SeriesJob /\ series[s] \in SeriesJob
        /\ j.produced = series[s].produced
        /\ j.status = IF ~ok /\ p \in {1, 2} THEN "failed" ELSE series[s].status
        /\ j.roadmap = (series[s].roadmap \/ (ok /\ p = 2))
    BY <1>1, PlannerWritesWell
  <2>6. j.roadmap \in BOOLEAN /\ series[s].roadmap \in BOOLEAN
    BY <2>1 DEF SeriesJob
  <2>7. /\ series[s].roadmap => j.roadmap
        /\ (~ok \/ p # 2) => j.roadmap = series[s].roadmap
    BY <2>1, <2>6
  <2> HIDE DEF j
  <2>2. CASE ~(call[c].kind = "plan" /\ (ok \/ ~Fatal(p)))
    <3>1. series' = [series EXCEPT ![s] = j] /\ call' = [call EXCEPT ![c] = IdleCall]
      BY <1>3, <2>2 DEF PlannerEnds, End, j
    <3> QED BY <1>1, <1>3, <2>1, <2>7, <3>1 DEF Present
  <2>3. CASE call[c].kind = "plan" /\ (ok \/ ~Fatal(p))
    <3>1. PlanGoesOn(c, s, p, j)
      BY <1>3, <2>3 DEF PlannerEnds, j
    <3>2. j.status = series[s].status
      BY <2>1, <2>3 DEF Fatal
    <3>3. CASE HasNextPass(p) /\ PlannerReady(j, p + 1)
      <4> DEFINE k == [j EXCEPT !.passes[p + 1] = "running"]
      <4>1. p + 1 \in Passes
        BY <1>1, <3>3 DEF HasNextPass, Passes
      <4>2. /\ k \in SeriesJob /\ k.passes[p + 1] = "running"
            /\ k.status = j.status /\ k.produced = j.produced /\ k.roadmap = j.roadmap
        BY <2>1, <4>1 DEF SeriesJob, PassStatus
      <4>3. series' = [series EXCEPT ![s] = k]
            /\ call' = [call EXCEPT ![c] = PlannerCall("plan", s, p + 1)]
        BY <3>1, <3>3 DEF PlanGoesOn
      <4>4. p + 1 = 3 => k.roadmap
        BY <3>3, <4>2 DEF PlannerReady
      <4> HIDE DEF k
      <4>5. series'[s] = k
        BY <1>1, <4>3
      <4> QED BY <1>1, <1>3, <2>1, <2>3, <3>2, <4>1, <4>2, <4>3, <4>4, <4>5 DEF Present
    <3>4. CASE ~(HasNextPass(p) /\ PlannerReady(j, p + 1))
      <4> DEFINE k == [j EXCEPT !.status = IF HasNextPass(p) THEN @ ELSE "planned"]
      <4>1. /\ k \in SeriesJob /\ k.produced = j.produced /\ k.roadmap = j.roadmap
            /\ k.status = IF HasNextPass(p) THEN j.status ELSE "planned"
        BY <2>1 DEF SeriesJob, Producible
      <4>2. series' = [series EXCEPT ![s] = k] /\ call' = [call EXCEPT ![c] = IdleCall]
        BY <3>1, <3>4 DEF PlanGoesOn, End
      <4>3. p = 4 <=> ~HasNextPass(p)
        BY <1>1 DEF HasNextPass, Passes
      <4> HIDE DEF k
      <4>4. ~HasNextPass(p) => j.roadmap = series[s].roadmap
        BY <2>7, <4>3
      <4> QED BY <1>1, <1>3, <2>1, <2>3, <2>7, <3>2, <4>1, <4>2, <4>3, <4>4 DEF Present
    <3> QED BY <3>3, <3>4
  <2> QED BY <2>2, <2>3
<1> QED BY <1>2, <1>3

(* What the end of a pass p of episode e of s leaves of its record (q) and *)
(* of its call: the slot free, or the next pass under way.                 *)
PreOutcome(c, s, e, p, q) ==
    \/ ~Present(s) /\ call'[c] = IdleCall /\ q = pre[s][e]
    \/ /\ Present(s) /\ call'[c] = IdleCall
       /\ q.status = "complete" =>
            /\ p = 4 /\ q.script = pre[s][e].script
            /\ q.prompts = pre[s][e].prompts /\ q.audio = pre[s][e].audio
    \/ /\ Present(s) /\ call[c].kind = "pre" /\ p + 1 \in Passes
       /\ call'[c] = EpisodeCall("pre", s, e, p + 1)
       /\ q.status = StatusAfterPass[p] /\ q.script
       /\ p = 2 => q.prompts = Made(call[c].stale)
       /\ p = 3 => /\ q.prompts = pre[s][e].prompts
                   /\ q.audio = Made(call[c].stale)

(* The other calls go on; those of another episode do not even notice.     *)
OthersGoOn(c, s, e) ==
    /\ call' \in [Calls -> Call]
    /\ \A d \in Calls \ {c} :
         /\ call'[d].kind = call[d].kind
         /\ call'[d].series = call[d].series
         /\ call'[d].episode = call[d].episode
         /\ call'[d].pass = call[d].pass
         /\ ~(call[d].series = s /\ call[d].episode = e) => call'[d] = call[d]

(* The end of a pass of an episode: of its own episode only, its slot free *)
(* or the next pass under way; the other calls may be marked stale.        *)
LEMMA PreproducerEndsWell ==
    ASSUME Typed, NEW c \in Calls, NEW ok \in BOOLEAN, PreproducerEnds(c, ok),
           NEW s, NEW e, NEW p,
           s = call[c].series, e = call[c].episode, p = call[c].pass
    PROVE  /\ s \in SeriesIds /\ e \in PreEpisodes /\ p \in Passes
           /\ call[c].kind \in PreKinds
           /\ UNCHANGED <<series, rerun, crashes>>
           /\ OthersGoOn(c, s, e)
           /\ \E q \in EpisodePreProduction :
                pre' = [pre EXCEPT ![s][e] = q] /\ PreOutcome(c, s, e, p, q)
<1> DEFINE q == PreWrites(pre[s][e], p, ok, call[c].stale)
           others == IF ok /\ p = 1 THEN Outdated(s, e) ELSE call
           Outcome == \E k \in EpisodePreProduction :
                        pre' = [pre EXCEPT ![s][e] = k] /\ PreOutcome(c, s, e, p, k)
<1> USE DEF Typed, TypeOK
<1>1. /\ s \in SeriesIds /\ e \in PreEpisodes /\ p \in Passes
      /\ call[c].kind \in PreKinds /\ call[c].stale \in BOOLEAN
      /\ UNCHANGED <<series, rerun, crashes>>
      /\ pre[s][e] \in EpisodePreProduction /\ pre[s] \in [PreEpisodes -> EpisodePreProduction]
  BY DEF PreproducerEnds, CallsKnown, PreKinds, Call
<1>2. CASE ~Present(s)
  <2>1. call' = [call EXCEPT ![c] = IdleCall] /\ pre' = pre
    BY <1>2 DEF PreproducerEnds, End
  <2>2. pre' = [pre EXCEPT ![s][e] = pre[s][e]]
    BY <1>1, <2>1
  <2>3. call' \in [Calls -> Call] /\ call'[c] = IdleCall /\ \A d \in Calls \ {c} : call'[d] = call[d]
    BY <2>1, CallsWell, <1>1
  <2>4. OthersGoOn(c, s, e)
    BY <2>3 DEF OthersGoOn
  <2>5. PreOutcome(c, s, e, p, pre[s][e])
    BY <1>2, <2>3 DEF PreOutcome
  <2> QED BY <1>1, <2>2, <2>4, <2>5
<1>3. CASE Present(s)
  <2>1. /\ q \in EpisodePreProduction
        /\ q.status = IF ok THEN StatusAfterPass[p] ELSE "failed"
        /\ q.script = (pre[s][e].script \/ (ok /\ p = 1))
        /\ ok /\ p # 1 => q.prompts = IF p = 2 THEN Made(call[c].stale) ELSE pre[s][e].prompts
        /\ ok /\ p # 1 => q.audio = IF p = 3 THEN Made(call[c].stale) ELSE pre[s][e].audio
    BY <1>1, PreWritesWell
  <2>2. /\ others \in [Calls -> Call]
        /\ \A d \in Calls \ {c} :
             /\ others[d].kind = call[d].kind
             /\ others[d].series = call[d].series
             /\ others[d].episode = call[d].episode
             /\ others[d].pass = call[d].pass
             /\ ~(call[d].series = s /\ call[d].episode = e) => others[d] = call[d]
    BY <1>1, OutdatedWell
  <2> HIDE DEF q, others
  <2>3. pre[s][e].script \in BOOLEAN /\ q.script \in BOOLEAN
    BY <1>1, <2>1 DEF EpisodePreProduction
  <2>4. p # 1 => q.script = pre[s][e].script
    BY <2>1, <2>3
  <2>5. q.status = "complete" => ok /\ p = 4
    BY <1>1, <2>1 DEF StatusAfterPass, Passes
  <2>6. ASSUME NEW v \in Call, call' = [others EXCEPT ![c] = v]
        PROVE  OthersGoOn(c, s, e) /\ call'[c] = v
    <3>1. /\ call' \in [Calls -> Call] /\ call'[c] = v
          /\ \A d \in Calls \ {c} : call'[d] = others[d]
      BY <2>2, <2>6
    <3> QED BY <2>2, <3>1 DEF OthersGoOn
  <2>7. CASE ~(call[c].kind = "pre" /\ ok /\ HasNextPass(p) /\ PreReady(q, p + 1))
    <3>1. pre' = [pre EXCEPT ![s][e] = q] /\ call' = [others EXCEPT ![c] = IdleCall]
      BY <1>3, <2>7 DEF PreproducerEnds, q, others
    <3>2. OthersGoOn(c, s, e) /\ call'[c] = IdleCall
      BY <2>6, <3>1, <1>1, CallsWell
    <3>3. q.status = "complete" =>
            /\ p = 4 /\ q.script = pre[s][e].script
            /\ q.prompts = pre[s][e].prompts /\ q.audio = pre[s][e].audio
      BY <2>1, <2>4, <2>5
    <3>4. PreOutcome(c, s, e, p, q)
      BY <1>3, <3>2, <3>3 DEF PreOutcome
    <3> QED BY <1>1, <2>1, <3>1, <3>2, <3>4
  <2>8. CASE call[c].kind = "pre" /\ ok /\ HasNextPass(p) /\ PreReady(q, p + 1)
    <3> DEFINE k == [q EXCEPT !.passes[p + 1] = "running"]
    <3>1. p + 1 \in Passes /\ p + 1 > 1
      BY <1>1, <2>8 DEF HasNextPass, Passes
    <3>2. /\ k \in EpisodePreProduction /\ k.status = q.status /\ k.script = q.script
          /\ k.prompts = q.prompts /\ k.audio = q.audio
      BY <2>1, <3>1 DEF EpisodePreProduction, PassStatus
    <3>3. pre' = [pre EXCEPT ![s][e] = k]
          /\ call' = [others EXCEPT ![c] = EpisodeCall("pre", s, e, p + 1)]
      BY <1>3, <2>8 DEF PreproducerEnds, q, others
    <3> HIDE DEF k
    <3>4. EpisodeCall("pre", s, e, p + 1) \in Call
      BY <1>1, <3>1, CallsWell
    <3>5. OthersGoOn(c, s, e) /\ call'[c] = EpisodeCall("pre", s, e, p + 1)
      BY <2>6, <3>3, <3>4
    <3>6. q.script
      BY <2>8, <3>1 DEF PreReady
    <3>7. /\ p = 2 => k.prompts = Made(call[c].stale)
          /\ p = 3 => k.prompts = pre[s][e].prompts /\ k.audio = Made(call[c].stale)
      BY <2>1, <2>8, <3>2
    <3>8. k.status = StatusAfterPass[p]
      BY <2>1, <2>8, <3>2
    <3>9. PreOutcome(c, s, e, p, k)
      BY <1>3, <2>8, <3>1, <3>2, <3>5, <3>6, <3>7, <3>8 DEF PreOutcome
    <3> QED BY <1>1, <3>2, <3>3, <3>5, <3>9
  <2> QED BY <2>7, <2>8
<1> QED BY <1>2, <1>3

(* A free slot is no call of anybody.                                      *)
LEMMA SlotsWell ==
    ASSUME Typed, NEW c \in Calls, NEW v \in Call, call' = [call EXCEPT ![c] = v]
    PROVE  call' \in [Calls -> Call] /\ call'[c] = v /\ \A d \in Calls \ {c} : call'[d] = call[d]
BY DEF Typed, TypeOK

(* A series that some request changes keeps the type of the registry.      *)
LEMMA SeriesWell ==
    ASSUME Typed, NEW s \in SeriesIds, NEW j \in SeriesJob, series' = [series EXCEPT ![s] = j]
    PROVE  series' \in [SeriesIds -> SeriesJob] /\ series'[s] = j
           /\ \A t \in SeriesIds \ {s} : series'[t] = series[t]
BY DEF Typed, TypeOK

(* So does an episode.                                                     *)
LEMMA EpisodesWell ==
    ASSUME Typed, NEW s \in SeriesIds, NEW e \in PreEpisodes, NEW q \in EpisodePreProduction,
           pre' = [pre EXCEPT ![s][e] = q]
    PROVE  /\ pre' \in [SeriesIds -> [PreEpisodes -> EpisodePreProduction]]
           /\ pre'[s][e] = q
           /\ \A t \in SeriesIds, f \in PreEpisodes : t # s \/ f # e => pre'[t][f] = pre[t][f]
BY DEF Typed, TypeOK

(* The types, and that calls belong to known series, hold in every step.   *)
LEMMA TypedStep == Typed /\ [Next]_vars => Typed'
<1> SUFFICES ASSUME Typed, [Next]_vars PROVE Typed'
  OBVIOUS
<1> USE DEF Absent
<1>0. /\ series \in [SeriesIds -> SeriesJob] /\ call \in [Calls -> Call]
      /\ pre \in [SeriesIds -> [PreEpisodes -> EpisodePreProduction]]
      /\ rerun \subseteq SeriesIds \X PreEpisodes /\ crashes \in Nat
  BY DEF Typed, TypeOK
<1>1. ASSUME NEW s \in SeriesIds, NEW c \in Calls, CreateSeries(s, c)
      PROVE  Typed'
  <2> DEFINE j == [series[s] EXCEPT !.status = "planning", !.passes[1] = "running"]
  <2>1. j \in SeriesJob /\ j.status = "planning"
    BY <1>0 DEF SeriesJob, Unready, Passes, PassStatus
  <2>2. series' = [series EXCEPT ![s] = j]
    BY <1>1 DEF CreateSeries
  <2>3. PlannerCall("plan", s, 1) \in Call /\ call' = [call EXCEPT ![c] = PlannerCall("plan", s, 1)]
    BY <1>1, CallsWell DEF CreateSeries, Passes
  <2>4. UNCHANGED <<pre, rerun, crashes>>
    BY <1>1 DEF CreateSeries
  <2> HIDE DEF j
  <2> QED BY <1>0, <2>1, <2>2, <2>3, <2>4, SlotsWell, SeriesWell
          DEF Typed, TypeOK, CallsKnown, PlannerCall, PreKinds
<1>2. ASSUME NEW c \in Calls, NEW ok \in BOOLEAN, PlannerEnds(c, ok)
      PROVE  Typed'
  <2> DEFINE s == call[c].series
             p == call[c].pass
  <2>1. /\ s \in SeriesIds /\ p \in Passes /\ UNCHANGED <<pre, rerun, crashes>>
        /\ call[c].kind \in PlanKinds
    BY <1>2, PlannerEndsWell
  <2>2. PICK j \in SeriesJob :
          /\ series' = [series EXCEPT ![s] = j]
          /\ ~Present(s) => j = series[s]
          /\ Present(s) => j.status \in {series[s].status, "failed", "planned"}
    BY <1>2, PlannerEndsWell
  <2>3. PICK v \in Call : /\ call' = [call EXCEPT ![c] = v]
                          /\ v.kind # "idle" => v.series = s
                          /\ v.kind \notin PreKinds
    <3>1. \/ call' = [call EXCEPT ![c] = IdleCall]
          \/ p + 1 \in Passes /\ call' = [call EXCEPT ![c] = PlannerCall("plan", s, p + 1)]
      BY <1>2, PlannerEndsWell
    <3>2. IdleCall \in Call /\ IdleCall.kind = "idle"
      BY <2>1, CallsWell DEF IdleCall
    <3>3. \A n \in Passes : /\ PlannerCall("plan", s, n) \in Call
                            /\ PlannerCall("plan", s, n).series = s
                            /\ PlannerCall("plan", s, n).kind = "plan"
      BY <2>1, CallsWell DEF PlannerCall
    <3> QED BY <3>1, <3>2, <3>3 DEF PreKinds
  <2>4. series[s].status # "none" => series'[s].status # "none"
    BY <2>1, <2>2, SeriesWell DEF Present
  <2>5. series[s].status # "none"
    BY <2>1 DEF Typed, CallsKnown, PlanKinds
  <2> HIDE DEF s, p
  <2>6. /\ series' \in [SeriesIds -> SeriesJob]
        /\ \A t \in SeriesIds \ {s} : series'[t] = series[t]
    BY <2>1, <2>2, SeriesWell
  <2>7. call' \in [Calls -> Call] /\ call'[c] = v /\ \A d \in Calls \ {c} : call'[d] = call[d]
    BY <2>3, SlotsWell
  <2>8. \A t \in SeriesIds : series[t].status # "none" => series'[t].status # "none"
    BY <2>4, <2>6
  <2>9. CallsKnown'
    BY <2>1, <2>3, <2>5, <2>7, <2>8 DEF Typed, CallsKnown
  <2> QED BY <1>0, <2>1, <2>6, <2>7, <2>9 DEF Typed, TypeOK
<1>3. ASSUME NEW c \in Calls, NEW ok \in BOOLEAN, PreproducerEnds(c, ok)
      PROVE  Typed'
  <2> DEFINE s == call[c].series
             e == call[c].episode
             p == call[c].pass
  <2>1. /\ s \in SeriesIds /\ e \in PreEpisodes /\ p \in Passes /\ call[c].kind \in PreKinds
        /\ UNCHANGED <<series, rerun, crashes>>
        /\ OthersGoOn(c, s, e)
    BY <1>3, PreproducerEndsWell
  <2>2. PICK q \in EpisodePreProduction :
          pre' = [pre EXCEPT ![s][e] = q] /\ PreOutcome(c, s, e, p, q)
    BY <1>3, PreproducerEndsWell
  <2>3. call'[c].kind # "idle" => call'[c].series = s /\ call'[c].episode = e
    BY <2>2 DEF PreOutcome, IdleCall, EpisodeCall
  <2>4. series[s].status # "none"
    BY <2>1 DEF Typed, CallsKnown, PreKinds
  <2> HIDE DEF s, e, p
  <2>5. pre' \in [SeriesIds -> [PreEpisodes -> EpisodePreProduction]]
    BY <2>1, <2>2, EpisodesWell
  <2>6. call' \in [Calls -> Call]
    BY <2>1 DEF OthersGoOn
  <2>7. CallsKnown'
    BY <2>1, <2>3, <2>4 DEF CallsKnown, OthersGoOn, Typed
  <2> QED BY <1>0, <2>1, <2>5, <2>6, <2>7 DEF Typed, TypeOK
<1>4. ASSUME NEW s \in SeriesIds, NEW p \in PlanReruns, NEW c \in Calls, RerunPlanning(s, p, c)
      PROVE  Typed'
  <2> DEFINE j == [series[s] EXCEPT !.passes[p] = "running"]
  <2>1. p \in Passes
    BY SeriesAssumption DEF Passes
  <2>2. j \in SeriesJob /\ j.status = series[s].status
    BY <1>0, <2>1 DEF SeriesJob, PassStatus
  <2>3. /\ series' = [series EXCEPT ![s] = j] /\ UNCHANGED <<pre, rerun, crashes>>
        /\ call' = [call EXCEPT ![c] = PlannerCall("planRerun", s, p)]
        /\ series[s].status # "none"
    BY <1>4 DEF RerunPlanning, Present
  <2>4. PlannerCall("planRerun", s, p) \in Call
    BY <2>1, CallsWell
  <2> HIDE DEF j
  <2> QED BY <1>0, <2>2, <2>3, <2>4, SlotsWell, SeriesWell
          DEF Typed, TypeOK, CallsKnown, PlannerCall, PreKinds
<1>5. ASSUME NEW s \in SeriesIds, NEW e \in Episodes, ProduceEpisode(s, e)
      PROVE  Typed'
  <2> DEFINE j == [series[s] EXCEPT !.status = StatusAfterProducing(series[s], e),
                                    !.produced = @ \cup {e}]
  <2>1. j \in SeriesJob /\ j.status # "none"
    BY <1>0 DEF SeriesJob, StatusAfterProducing, Producible
  <2>2. series' = [series EXCEPT ![s] = j] /\ UNCHANGED <<pre, call, rerun, crashes>>
    BY <1>5 DEF ProduceEpisode
  <2> HIDE DEF j
  <2> QED BY <1>0, <2>1, <2>2, SeriesWell DEF Typed, TypeOK, CallsKnown
<1>6. ASSUME NEW s \in SeriesIds, NEW e \in PreEpisodes, NEW c \in Calls, Preproduce(s, e, c)
      PROVE  Typed'
  <2>1. /\ FreshPre \in EpisodePreProduction /\ pre' = [pre EXCEPT ![s][e] = FreshPre]
        /\ UNCHANGED <<series, rerun, crashes>> /\ series[s].status # "none"
    BY <1>6 DEF Preproduce, FreshPre, NoPre, EpisodePreProduction, InProgress, Passes,
                PassStatus, AllIdle, Derived, Present
  <2>2. EpisodeCall("pre", s, e, 1) \in Call
        /\ call' = [Outdated(s, e) EXCEPT ![c] = EpisodeCall("pre", s, e, 1)]
    BY <1>6, CallsWell DEF Preproduce, Passes
  <2>3. /\ call' \in [Calls -> Call] /\ call'[c] = EpisodeCall("pre", s, e, 1)
        /\ \A d \in Calls \ {c} : /\ call'[d].kind = call[d].kind
                               /\ call'[d].series = call[d].series
                               /\ call'[d].episode = call[d].episode
    BY <1>0, <2>2, OutdatedWell
  <2>4. CallsKnown'
    BY <2>1, <2>3 DEF Typed, CallsKnown, EpisodeCall
  <2> QED BY <1>0, <2>1, <2>3, <2>4, EpisodesWell DEF Typed, TypeOK
<1>7. ASSUME NEW s \in SeriesIds, NEW e \in PreEpisodes, NEW p \in EpisodeReruns, NEW c \in Calls,
             RerunEpisodePass(s, e, p, c)
      PROVE  Typed'
  <2> DEFINE q == [pre[s][e] EXCEPT !.passes[p] = "running"]
  <2>1. p \in Passes
    BY SeriesAssumption DEF Passes
  <2>0. pre[s][e] \in EpisodePreProduction
    BY <1>0
  <2>2. q \in EpisodePreProduction
    BY <2>0, <2>1 DEF EpisodePreProduction, PassStatus
  <2>3. /\ pre' = [pre EXCEPT ![s][e] = q]
        /\ rerun' = rerun \cup {<<s, e>>} /\ UNCHANGED <<series, crashes>>
        /\ call' = [call EXCEPT ![c] = EpisodeCall("preRerun", s, e, p)]
        /\ series[s].status # "none"
    BY <1>7 DEF RerunEpisodePass, Present
  <2>4. EpisodeCall("preRerun", s, e, p) \in Call
    BY <2>1, CallsWell
  <2> HIDE DEF q
  <2> QED BY <1>0, <2>2, <2>3, <2>4, SlotsWell, EpisodesWell DEF Typed, TypeOK, CallsKnown, EpisodeCall
<1>8. ASSUME NEW s \in SeriesIds, RemoveSeries(s)
      PROVE  Typed'
  <2> DEFINE j == [NoSeriesJob EXCEPT !.status = "gone"]
  <2>1. j \in SeriesJob /\ j.status = "gone"
    BY DEF NoSeriesJob, SeriesJob, AllIdle, PassStatus
  <2>2. NoPre \in EpisodePreProduction
    BY DEF NoPre, EpisodePreProduction, AllIdle, PassStatus, Derived
  <2>3. /\ series' = [series EXCEPT ![s] = j]
        /\ pre' = [pre EXCEPT ![s] = [e \in PreEpisodes |-> NoPre]]
        /\ UNCHANGED <<call, rerun, crashes>>
    BY <1>8 DEF RemoveSeries
  <2> HIDE DEF j
  <2>4. pre' \in [SeriesIds -> [PreEpisodes -> EpisodePreProduction]]
    BY <1>0, <2>2, <2>3
  <2> QED BY <1>0, <2>1, <2>3, <2>4, SeriesWell DEF Typed, TypeOK, CallsKnown
<1>9. CASE CrashAndHydrate
  <2>1. IdleCall \in Call
    BY DEF IdleCall, Call, Passes
  <2> QED BY <1>0, <1>9, <2>1 DEF CrashAndHydrate, Typed, TypeOK, CallsKnown, IdleCall
<1>10. CASE UNCHANGED vars
  BY <1>0, <1>10 DEF vars, Typed, TypeOK, CallsKnown
<1> QED BY <1>1, <1>2, <1>3, <1>4, <1>5, <1>6, <1>7, <1>8, <1>9, <1>10 DEF Next, CallEnds

(* Types hold in every reachable state.                                    *)
THEOREM SeriesTypeCorrect == Spec => []TypeOK
<1>1. Init => Typed
  BY DEF Init, Typed, TypeOK, CallsKnown, NoSeriesJob, SeriesJob, NoPre, EpisodePreProduction,
         IdleCall, Call, Passes, AllIdle, PassStatus, Absent, Derived
<1>2. Typed => TypeOK
  BY DEF Typed
<1> QED BY <1>1, <1>2, TypedStep, PTL DEF Spec

-----------------------------------------------------------------------------
(* Planning                                                                *)

(* The pass that a planner call runs is marked: the 409 sees the call.     *)
PlannersMarked ==
    \A c \in Calls :
        call[c].kind \in PlanKinds /\ Present(call[c].series)
          => series[call[c].series].passes[call[c].pass] = "running"

(* planSeries runs on a series that is still being planned, and comes past *)
(* its second pass only with a roadmap.                                    *)
PlanProgress ==
    \A c \in Calls :
        call[c].kind = "plan" /\ Present(call[c].series)
          => /\ series[call[c].series].status = "planning"
             /\ call[c].pass >= 3 => series[call[c].series].roadmap

PlannerInv == PlannersMarked /\ OnePlannerCall /\ PlanProgress

(* Steps that touch neither planner calls nor what they rest on.           *)
LEMMA PlannerInvKept ==
    ASSUME Typed, Typed', PlannerInv,
           \A d \in Calls : call'[d].kind \in PlanKinds =>
              /\ call'[d].kind = call[d].kind
              /\ call'[d].series = call[d].series
              /\ call'[d].pass = call[d].pass
              /\ Present(call[d].series)' =>
                   /\ Present(call[d].series)
                   /\ series'[call[d].series].passes = series[call[d].series].passes
                   /\ series'[call[d].series].roadmap = series[call[d].series].roadmap
                   /\ call[d].kind = "plan" =>
                        series'[call[d].series].status = series[call[d].series].status
    PROVE  PlannerInv'
<1>1. PlannersMarked'
  BY DEF PlannerInv, PlannersMarked, Present
<1>2. PlanProgress'
  BY DEF PlannerInv, PlanProgress, PlanKinds, Present
<1>3. OnePlannerCall'
  BY DEF PlannerInv, OnePlannerCall, PlansOf, PlanKinds
<1> QED BY <1>1, <1>2, <1>3 DEF PlannerInv

(* Every step keeps the planner's invariant.                               *)
LEMMA PlannerStep == Typed /\ PlannerInv /\ [Next]_vars => PlannerInv'
<1> SUFFICES ASSUME Typed, PlannerInv, [Next]_vars PROVE PlannerInv'
  OBVIOUS
<1>t. Typed'
  BY TypedStep
<1>0. /\ series \in [SeriesIds -> SeriesJob] /\ call \in [Calls -> Call]
      /\ series' \in [SeriesIds -> SeriesJob] /\ call' \in [Calls -> Call]
  BY <1>t DEF Typed, TypeOK
<1>1. ASSUME NEW s \in SeriesIds, NEW c \in Calls, CreateSeries(s, c)
      PROVE  PlannerInv'
  <2>1. /\ call'[c] = PlannerCall("plan", s, 1) /\ \A d \in Calls \ {c} : call'[d] = call[d]
        /\ series[s].status = "none" /\ series'[s].status = "planning"
        /\ series'[s].passes[1] = "running"
        /\ \A t \in SeriesIds \ {s} : series'[t] = series[t]
    BY <1>0, <1>1 DEF CreateSeries, SeriesJob, Passes
  <2>2. \A d \in Calls \ {c} : call'[d].kind \in PlanKinds =>
          call[d].series \in SeriesIds /\ call[d].series # s
    BY <2>1 DEF Typed, CallsKnown, PlanKinds
  <2>3. PlannersMarked'
    BY <2>1, <2>2 DEF PlannerInv, PlannersMarked, Present, PlannerCall
  <2>4. PlanProgress'
    BY <2>1, <2>2 DEF PlannerInv, PlanProgress, Present, PlannerCall, PlanKinds
  <2>5. OnePlannerCall'
    BY <2>1, <2>2 DEF PlannerInv, OnePlannerCall, PlansOf, PlannerCall, PlanKinds
  <2> QED BY <2>3, <2>4, <2>5 DEF PlannerInv
<1>2. ASSUME NEW c \in Calls, NEW ok \in BOOLEAN, PlannerEnds(c, ok)
      PROVE  PlannerInv'
  <2> DEFINE s == call[c].series
             p == call[c].pass
  <2>1. /\ s \in SeriesIds /\ p \in Passes /\ call[c].kind \in PlanKinds
        /\ \A t \in SeriesIds \ {s} : series'[t] = series[t]
    <3>1. PICK j \in SeriesJob : series' = [series EXCEPT ![s] = j]
      BY <1>2, PlannerEndsWell
    <3> QED BY <1>2, <3>1, PlannerEndsWell, SeriesWell
  <2>2. \A d \in Calls \ {c} : call[d].kind \in PlanKinds =>
          call[d].series \in SeriesIds \ {s}
    BY <2>1 DEF Typed, CallsKnown, PlannerInv, OnePlannerCall, PlansOf, PlanKinds
  <2>3. \/ call' = [call EXCEPT ![c] = IdleCall]
        \/ /\ call' = [call EXCEPT ![c] = PlannerCall("plan", s, p + 1)]
           /\ call[c].kind = "plan" /\ p + 1 \in Passes /\ Present(s)
           /\ series'[s].passes[p + 1] = "running"
           /\ series'[s].status = series[s].status
           /\ p + 1 = 3 => series'[s].roadmap
    BY <1>2, PlannerEndsWell
  <2>4. series[s].roadmap => series'[s].roadmap
    <3>1. PICK j \in SeriesJob : /\ series' = [series EXCEPT ![s] = j]
                                 /\ series[s].roadmap => j.roadmap
      BY <1>2, PlannerEndsWell
    <3> QED BY <2>1, <3>1, SeriesWell
  <2> HIDE DEF s, p
  <2>5. CASE call' = [call EXCEPT ![c] = IdleCall]
    <3>1. \A d \in Calls : call'[d].kind \in PlanKinds => d # c /\ call'[d] = call[d]
      BY <1>0, <2>5 DEF IdleCall, PlanKinds
    <3> QED BY <1>t, <2>1, <2>2, <3>1, PlannerInvKept DEF Present
  <2>6. CASE ~(call' = [call EXCEPT ![c] = IdleCall])
    <3>1. /\ call'[c] = PlannerCall("plan", s, p + 1)
          /\ \A d \in Calls \ {c} : call'[d] = call[d]
      BY <1>0, <2>3, <2>6
    <3>2. /\ call'[c].kind = "plan" /\ call'[c].series = s /\ call'[c].pass = p + 1
      BY <3>1 DEF PlannerCall
    <3>3. series[s].status = "planning" /\ (p >= 3 => series[s].roadmap)
      BY <2>3, <2>6 DEF PlannerInv, PlanProgress, s, p
    <3>4. p + 1 >= 3 => series'[s].roadmap
      BY <2>1, <2>3, <2>4, <2>6, <3>3 DEF Passes
    <3>5. PlannersMarked'
      BY <2>1, <2>2, <2>3, <2>6, <3>1, <3>2 DEF PlannerInv, PlannersMarked, Present
    <3>6. PlanProgress'
      BY <2>1, <2>2, <2>3, <2>6, <3>1, <3>2, <3>3, <3>4
         DEF PlannerInv, PlanProgress, Present, PlanKinds
    <3>7. OnePlannerCall'
      BY <2>1, <2>2, <3>1, <3>2 DEF PlannerInv, OnePlannerCall, PlansOf, PlanKinds
    <3> QED BY <3>5, <3>6, <3>7 DEF PlannerInv
  <2> QED BY <2>5, <2>6
<1>3. ASSUME NEW c \in Calls, NEW ok \in BOOLEAN, PreproducerEnds(c, ok)
      PROVE  PlannerInv'
  <2> DEFINE s == call[c].series
             e == call[c].episode
             p == call[c].pass
  <2>1. /\ series' = series
        /\ \A d \in Calls \ {c} :
             /\ call'[d].kind = call[d].kind
             /\ call'[d].series = call[d].series
             /\ call'[d].pass = call[d].pass
    BY <1>3, PreproducerEndsWell DEF OthersGoOn
  <2>2. PICK q \in EpisodePreProduction : PreOutcome(c, s, e, p, q)
    BY <1>3, PreproducerEndsWell
  <2>3. call'[c].kind \notin PlanKinds
    BY <2>2 DEF PreOutcome, IdleCall, EpisodeCall, PlanKinds
  <2> QED BY <1>t, <2>1, <2>3, PlannerInvKept DEF Present
<1>4. ASSUME NEW s \in SeriesIds, NEW p \in PlanReruns, NEW c \in Calls, RerunPlanning(s, p, c)
      PROVE  PlannerInv'
  <2>0. p \in Passes
    BY SeriesAssumption DEF Passes
  <2>1. /\ call'[c] = PlannerCall("planRerun", s, p) /\ \A d \in Calls \ {c} : call'[d] = call[d]
        /\ Present(s) /\ ~PassRunning(series[s].passes)
        /\ series'[s].status = series[s].status
        /\ series'[s].passes[p] = "running"
        /\ \A t \in SeriesIds \ {s} : series'[t] = series[t]
    BY <1>0, <1>4, <2>0 DEF RerunPlanning, SeriesJob
  <2>2. \A d \in Calls : call[d].kind \in PlanKinds => call[d].series \in SeriesIds \ {s}
    BY <1>0, <2>1 DEF Typed, CallsKnown, PlannerInv, PlannersMarked, PassRunning, Call, PlanKinds
  <2>3. PlannersMarked'
    BY <2>1, <2>2 DEF PlannerInv, PlannersMarked, Present, PlannerCall
  <2>4. PlanProgress'
    BY <2>1, <2>2 DEF PlannerInv, PlanProgress, Present, PlannerCall, PlanKinds
  <2>5. OnePlannerCall'
    BY <2>1, <2>2 DEF PlannerInv, OnePlannerCall, PlansOf, PlannerCall, PlanKinds
  <2> QED BY <2>3, <2>4, <2>5 DEF PlannerInv
<1>5. ASSUME NEW s \in SeriesIds, NEW e \in Episodes, ProduceEpisode(s, e)
      PROVE  PlannerInv'
  <2>1. /\ call' = call /\ Present(s) /\ series[s].status # "planning"
        /\ series'[s].passes = series[s].passes /\ series'[s].roadmap = series[s].roadmap
        /\ \A t \in SeriesIds \ {s} : series'[t] = series[t]
    BY <1>0, <1>5 DEF ProduceEpisode, Unready, SeriesJob
  <2>2. \A d \in Calls : call[d].kind = "plan" => call[d].series # s
    BY <2>1 DEF PlannerInv, PlanProgress
  <2>3. \A d \in Calls : call[d].kind \in PlanKinds => call[d].series \in SeriesIds
    BY DEF Typed, CallsKnown, PlanKinds
  <2> QED BY <1>t, <2>1, <2>2, <2>3, PlannerInvKept DEF Present
<1>6. ASSUME NEW s \in SeriesIds, NEW e \in PreEpisodes, NEW c \in Calls, Preproduce(s, e, c)
      PROVE  PlannerInv'
  <2>1. series' = series /\ call' = [Outdated(s, e) EXCEPT ![c] = EpisodeCall("pre", s, e, 1)]
    BY <1>6 DEF Preproduce
  <2>2. /\ \A d \in Calls \ {c} : /\ call'[d].kind = call[d].kind
                                  /\ call'[d].series = call[d].series
                                  /\ call'[d].pass = call[d].pass
        /\ call'[c].kind \notin PlanKinds
    BY <1>0, <2>1, OutdatedWell DEF EpisodeCall, PlanKinds
  <2> QED BY <1>t, <2>1, <2>2, PlannerInvKept DEF Present
<1>7. ASSUME NEW s \in SeriesIds, NEW e \in PreEpisodes, NEW p \in EpisodeReruns, NEW c \in Calls,
             RerunEpisodePass(s, e, p, c)
      PROVE  PlannerInv'
  <2>1. /\ series' = series /\ call'[c].kind \notin PlanKinds
        /\ \A d \in Calls \ {c} : call'[d] = call[d]
    BY <1>0, <1>7 DEF RerunEpisodePass, EpisodeCall, PlanKinds
  <2> QED BY <1>t, <2>1, PlannerInvKept DEF Present
<1>8. ASSUME NEW s \in SeriesIds, RemoveSeries(s)
      PROVE  PlannerInv'
  <2>1. /\ call' = call /\ ~Present(s)'
        /\ \A t \in SeriesIds \ {s} : series'[t] = series[t]
    BY <1>0, <1>8 DEF RemoveSeries, Present, NoSeriesJob, Absent
  <2>2. \A d \in Calls : call[d].kind \in PlanKinds => call[d].series \in SeriesIds
    BY DEF Typed, CallsKnown, PlanKinds
  <2> QED BY <1>t, <2>1, <2>2, PlannerInvKept DEF Present
<1>9. CASE CrashAndHydrate
  BY <1>9, <1>t, PlannerInvKept DEF CrashAndHydrate, IdleCall, PlanKinds
<1>10. CASE UNCHANGED vars
  BY <1>10, <1>t, PlannerInvKept DEF vars, Present
<1> QED BY <1>1, <1>2, <1>3, <1>4, <1>5, <1>6, <1>7, <1>8, <1>9, <1>10 DEF Next, CallEnds

(* A series never has two planner calls under way, whatever passes fail,   *)
(* clients rerun and restarts leave behind.                                *)
THEOREM SeriesOnePlannerCall == Spec => []OnePlannerCall
<1>1. Init => Typed /\ PlannerInv
  BY DEF Init, Typed, TypeOK, CallsKnown, NoSeriesJob, SeriesJob, NoPre, EpisodePreProduction,
         IdleCall, Call, Passes, AllIdle, PassStatus, Absent, Derived, PlannerInv,
         PlannersMarked, PlanProgress, OnePlannerCall, PlansOf, PlanKinds
<1>2. PlannerInv => OnePlannerCall
  BY DEF PlannerInv
<1> QED BY <1>1, <1>2, TypedStep, PlannerStep, PTL DEF Spec

-----------------------------------------------------------------------------
(* Pre-production                                                          *)

StageStatus == <<"scripting", "prompting", "audio_assets", "scoring">>

(* The pass that works on an episode nobody reruns by hand is the one its  *)
(* status names, it read the episode's own script, and what the passes     *)
(* before it made is current.                                              *)
InStep(q, d) ==
    /\ d.kind = "pre" /\ ~d.stale
    /\ q.status = StageStatus[d.pass]
    /\ d.pass >= 2 => q.script
    /\ d.pass >= 3 => q.prompts = "current"
    /\ d.pass = 4  => q.audio = "current"

EpisodeOK(s, e) ==
    <<s, e>> \notin rerun =>
        /\ Present(s) => \A c \in PresOf(s, e) : InStep(pre[s][e], call[c])
        /\ \A c, d \in PresOf(s, e) : c = d
        /\ pre[s][e].status = "complete" =>
             pre[s][e].script /\ pre[s][e].prompts = "current" /\ pre[s][e].audio = "current"

EpisodeInv == \A s \in SeriesIds, e \in PreEpisodes : EpisodeOK(s, e)

(* A step that leaves episode <<s, e>> and its passes alone.               *)
LEMMA EpisodeKept ==
    ASSUME NEW s \in SeriesIds, NEW e \in PreEpisodes, EpisodeOK(s, e),
           series'[s].status \notin Absent => series[s].status \notin Absent,
           rerun \subseteq rerun', pre'[s][e] = pre[s][e],
           \A d \in Calls :
              call'[d].kind \in PreKinds /\ call'[d].series = s /\ call'[d].episode = e
                => call'[d] = call[d]
    PROVE  EpisodeOK(s, e)'
<1>1. \A d \in PresOf(s, e)' : d \in PresOf(s, e) /\ call'[d] = call[d]
  BY DEF PresOf, PreKinds
<1>2. Present(s)' => Present(s)
  BY DEF Present
<1> QED BY <1>1, <1>2 DEF EpisodeOK

(* The end of an episode's pass keeps the invariant.                       *)
LEMMA PreproducerEndsStep ==
    ASSUME Typed, EpisodeInv, NEW c \in Calls, NEW ok \in BOOLEAN, PreproducerEnds(c, ok),
           NEW s, NEW e, NEW p,
           s = call[c].series, e = call[c].episode, p = call[c].pass
    PROVE  EpisodeInv'
<1>0. /\ series \in [SeriesIds -> SeriesJob] /\ call \in [Calls -> Call]
      /\ pre \in [SeriesIds -> [PreEpisodes -> EpisodePreProduction]]
  BY DEF Typed, TypeOK
<1>1. /\ s \in SeriesIds /\ e \in PreEpisodes /\ p \in Passes
      /\ call[c].kind \in PreKinds
      /\ UNCHANGED <<series, rerun, crashes>>
      /\ \A d \in Calls \ {c} :
           /\ call'[d].kind = call[d].kind
           /\ call'[d].series = call[d].series
           /\ call'[d].episode = call[d].episode
           /\ ~(call[d].series = s /\ call[d].episode = e) => call'[d] = call[d]
  BY PreproducerEndsWell DEF OthersGoOn
<1>2. PICK q \in EpisodePreProduction :
        pre' = [pre EXCEPT ![s][e] = q] /\ PreOutcome(c, s, e, p, q)
  BY PreproducerEndsWell
<1>3. /\ pre'[s][e] = q
      /\ \A t \in SeriesIds, f \in PreEpisodes : t # s \/ f # e => pre'[t][f] = pre[t][f]
  BY <1>0, <1>1, <1>2
<1>4. c \in PresOf(s, e)
  BY <1>1 DEF PresOf, PreKinds
<1>5. call'[c].kind \in PreKinds => call'[c].series = s /\ call'[c].episode = e
  BY <1>2 DEF PreOutcome, IdleCall, EpisodeCall, PreKinds
<1>6. \A t \in SeriesIds, f \in PreEpisodes : t # s \/ f # e =>
        \A d \in Calls : d \in PresOf(t, f)' => d \in PresOf(t, f) /\ call'[d] = call[d]
  <2> SUFFICES ASSUME NEW t \in SeriesIds, NEW f \in PreEpisodes, t # s \/ f # e,
                      NEW d \in Calls, d \in PresOf(t, f)'
               PROVE  d \in PresOf(t, f) /\ call'[d] = call[d]
    OBVIOUS
  <2>1. call'[d].kind \in PreKinds /\ call'[d].series = t /\ call'[d].episode = f
    BY DEF PresOf, PreKinds
  <2>2. d # c
    BY <1>5, <2>1
  <2> QED BY <1>1, <2>1, <2>2 DEF PresOf, PreKinds
<1>7. EpisodeOK(s, e)'
  <2> SUFFICES ASSUME <<s, e>> \notin rerun
               PROVE  /\ Present(s) => \A d \in PresOf(s, e)' : InStep(q, call'[d])
                      /\ \A d, f \in PresOf(s, e)' : d = f
                      /\ q.status = "complete"
                           => q.script /\ q.prompts = "current" /\ q.audio = "current"
    BY <1>1, <1>3 DEF EpisodeOK, Present
  <2>0. EpisodeOK(s, e)
    BY <1>1 DEF EpisodeInv
  <2>1. \A d \in PresOf(s, e)' : d = c
    <3>1. \A d \in PresOf(s, e) : d = c
      BY <1>4, <2>0 DEF EpisodeOK
    <3>2. \A d \in Calls \ {c} : d \in PresOf(s, e)' => d \in PresOf(s, e)
      BY <1>1 DEF PresOf
    <3> QED BY <3>1, <3>2 DEF PresOf
  <2>2. CASE ~Present(s)
    <3>2. q = pre[s][e]
      BY <1>2, <2>2 DEF PreOutcome
    <3> QED BY <2>0, <2>1, <2>2, <3>2 DEF EpisodeOK
  <2>3. CASE Present(s)
    <3>1. InStep(pre[s][e], call[c])
      BY <1>4, <2>0, <2>3 DEF EpisodeOK
    <3>2. CASE call'[c] = IdleCall
      <4>1. PresOf(s, e)' = {}
        BY <2>1, <3>2 DEF PresOf, IdleCall
      <4>2. call'[c] # EpisodeCall("pre", s, e, p + 1)
        BY <3>2 DEF IdleCall, EpisodeCall
      <4>3. q.status = "complete" =>
              /\ p = 4 /\ q.script = pre[s][e].script
              /\ q.prompts = pre[s][e].prompts /\ q.audio = pre[s][e].audio
        BY <1>2, <2>3, <4>2 DEF PreOutcome
      <4>4. p = 4 => /\ pre[s][e].script /\ pre[s][e].prompts = "current"
                     /\ pre[s][e].audio = "current"
        BY <3>1 DEF InStep
      <4> QED BY <4>1, <4>3, <4>4
    <3>3. CASE call'[c] # IdleCall
      <4>1. /\ call'[c] = EpisodeCall("pre", s, e, p + 1) /\ p + 1 \in Passes
            /\ q.status = StatusAfterPass[p] /\ q.script
            /\ p = 2 => q.prompts = Made(call[c].stale)
            /\ p = 3 => q.prompts = pre[s][e].prompts /\ q.audio = Made(call[c].stale)
        BY <1>2, <2>3, <3>3 DEF PreOutcome
      <4>2. ~call[c].stale /\ (p = 3 => pre[s][e].prompts = "current")
        BY <3>1 DEF InStep
      <4>3. p \in {1, 2, 3}
        BY <1>1, <4>1 DEF Passes
      <4>4. q.status = StageStatus[p + 1] /\ q.status # "complete"
        BY <4>1, <4>3 DEF StageStatus, StatusAfterPass
      <4>5. /\ p + 1 >= 3 => q.prompts = "current"
            /\ p + 1 = 4 => q.audio = "current"
        BY <4>1, <4>2, <4>3 DEF Made
      <4>6. /\ call'[c].kind = "pre" /\ call'[c].pass = p + 1 /\ call'[c].stale = FALSE
        BY <4>1 DEF EpisodeCall
      <4>7. InStep(q, call'[c])
        BY <4>1, <4>4, <4>5, <4>6 DEF InStep
      <4> QED BY <2>1, <4>4, <4>7
    <3> QED BY <3>2, <3>3
  <2> QED BY <2>2, <2>3
<1>8. ASSUME NEW t \in SeriesIds, NEW f \in PreEpisodes, t # s \/ f # e
      PROVE  EpisodeOK(t, f)'
  <2>1. EpisodeOK(t, f)
    BY DEF EpisodeInv
  <2>2. \A d \in Calls :
          call'[d].kind \in PreKinds /\ call'[d].series = t /\ call'[d].episode = f
            => call'[d] = call[d]
    BY <1>6, <1>8 DEF PresOf, PreKinds
  <2> QED BY <1>1, <1>3, <1>8, <2>1, <2>2, EpisodeKept
<1> QED BY <1>7, <1>8 DEF EpisodeInv

(* Every step keeps the invariant of the episodes.                         *)
LEMMA EpisodeStep == Typed /\ EpisodeInv /\ [Next]_vars => EpisodeInv'
<1> SUFFICES ASSUME Typed, EpisodeInv, [Next]_vars PROVE EpisodeInv'
  OBVIOUS
<1>0. /\ series \in [SeriesIds -> SeriesJob] /\ call \in [Calls -> Call]
      /\ pre \in [SeriesIds -> [PreEpisodes -> EpisodePreProduction]]
  BY DEF Typed, TypeOK
<1>1. ASSUME NEW s \in SeriesIds, NEW c \in Calls, CreateSeries(s, c)
      PROVE  EpisodeInv'
  <2>1. /\ UNCHANGED <<pre, rerun>> /\ call'[c].kind = "plan"
        /\ \A d \in Calls \ {c} : call'[d] = call[d]
        /\ series[s].status = "none"
        /\ \A t \in SeriesIds \ {s} : series'[t] = series[t]
    BY <1>0, <1>1 DEF CreateSeries, PlannerCall
  <2>2. ASSUME NEW t \in SeriesIds \ {s}, NEW e \in PreEpisodes
        PROVE  EpisodeOK(t, e)'
    BY <2>1, EpisodeKept DEF EpisodeInv, PreKinds
  <2>3. ASSUME NEW e \in PreEpisodes
        PROVE  EpisodeOK(s, e)'
    <3>1. PresOf(s, e)' = {}
      BY <2>1 DEF PresOf, Typed, CallsKnown
    <3> QED BY <2>1, <3>1 DEF EpisodeInv, EpisodeOK
  <2> QED BY <2>2, <2>3 DEF EpisodeInv
<1>2. ASSUME NEW c \in Calls, NEW ok \in BOOLEAN, PlannerEnds(c, ok)
      PROVE  EpisodeInv'
  <2> DEFINE s == call[c].series
  <2>1. s \in SeriesIds /\ UNCHANGED <<pre, rerun>>
    BY <1>2, PlannerEndsWell
  <2>2. PICK j \in SeriesJob : /\ series' = [series EXCEPT ![s] = j]
                               /\ ~Present(s) => j = series[s]
    BY <1>2, PlannerEndsWell
  <2>3. \A t \in SeriesIds : series'[t].status \notin Absent => series[t].status \notin Absent
    BY <1>0, <2>1, <2>2 DEF Present
  <2>4. /\ call'[c].kind \notin PreKinds
        /\ \A d \in Calls \ {c} : call'[d] = call[d]
    BY <1>0, <1>2, PlannerEndsWell DEF IdleCall, PlannerCall, PreKinds
  <2> QED BY <2>1, <2>3, <2>4, EpisodeKept DEF EpisodeInv
<1>3. ASSUME NEW c \in Calls, NEW ok \in BOOLEAN, PreproducerEnds(c, ok)
      PROVE  EpisodeInv'
  <2>1. PICK s, e, p : s = call[c].series /\ e = call[c].episode /\ p = call[c].pass
    OBVIOUS
  <2> QED BY <1>3, <2>1, PreproducerEndsStep
<1>4. ASSUME NEW s \in SeriesIds, NEW p \in PlanReruns, NEW c \in Calls, RerunPlanning(s, p, c)
      PROVE  EpisodeInv'
  <2>1. /\ UNCHANGED <<pre, rerun>> /\ call'[c].kind = "planRerun"
        /\ \A d \in Calls \ {c} : call'[d] = call[d]
        /\ \A t \in SeriesIds : series'[t].status = series[t].status
    BY <1>0, <1>4 DEF RerunPlanning, PlannerCall, SeriesJob
  <2> QED BY <2>1, EpisodeKept DEF EpisodeInv, PreKinds
<1>5. ASSUME NEW s \in SeriesIds, NEW e \in Episodes, ProduceEpisode(s, e)
      PROVE  EpisodeInv'
  <2>1. /\ UNCHANGED <<pre, call, rerun>> /\ series[s].status \notin Absent
        /\ \A t \in SeriesIds \ {s} : series'[t] = series[t]
    BY <1>0, <1>5 DEF ProduceEpisode, Present
  <2> QED BY <2>1, EpisodeKept DEF EpisodeInv
<1>6. ASSUME NEW s \in SeriesIds, NEW e \in PreEpisodes, NEW c \in Calls, Preproduce(s, e, c)
      PROVE  EpisodeInv'
  <2>1. /\ UNCHANGED <<series, rerun>> /\ Present(s) /\ ~Busy(pre[s][e])
        /\ pre' = [pre EXCEPT ![s][e] = FreshPre]
        /\ call' = [Outdated(s, e) EXCEPT ![c] = EpisodeCall("pre", s, e, 1)]
    BY <1>6 DEF Preproduce
  <2>2. /\ call'[c] = EpisodeCall("pre", s, e, 1)
        /\ \A d \in Calls \ {c} :
             /\ call'[d].kind = call[d].kind
             /\ call'[d].series = call[d].series
             /\ call'[d].episode = call[d].episode
             /\ ~(call[d].series = s /\ call[d].episode = e) => call'[d] = call[d]
    BY <1>0, <2>1, OutdatedWell
  <2>3. call'[c].kind = "pre" /\ call'[c].series = s /\ call'[c].episode = e
        /\ call'[c].pass = 1 /\ call'[c].stale = FALSE
    BY <2>2 DEF EpisodeCall
  <2>4. pre'[s][e] = FreshPre
        /\ \A t \in SeriesIds, f \in PreEpisodes : t # s \/ f # e => pre'[t][f] = pre[t][f]
    BY <1>0, <2>1
  <2>5. ASSUME NEW t \in SeriesIds, NEW f \in PreEpisodes, t # s \/ f # e
        PROVE  EpisodeOK(t, f)'
    BY <2>1, <2>2, <2>3, <2>4, <2>5, EpisodeKept DEF EpisodeInv
  <2>6. EpisodeOK(s, e)'
    <3> SUFFICES ASSUME <<s, e>> \notin rerun
                 PROVE  /\ \A d \in PresOf(s, e)' : InStep(FreshPre, call'[d]) /\ d = c
                        /\ FreshPre.status # "complete"
      BY <2>1, <2>4 DEF EpisodeOK
    <3>1. PresOf(s, e) = {}
      <4>1. \A d \in PresOf(s, e) : InStep(pre[s][e], call[d])
        BY <2>1 DEF EpisodeInv, EpisodeOK
      <4>2. \A d \in PresOf(s, e) : StageStatus[call[d].pass] \in InProgress
        BY <1>0 DEF PresOf, Call, Passes, StageStatus, InProgress
      <4> QED BY <2>1, <4>1, <4>2 DEF InStep, Busy
    <3>2. \A d \in PresOf(s, e)' : d = c
      BY <2>2, <3>1 DEF PresOf
    <3>3. InStep(FreshPre, call'[c])
      BY <2>3 DEF InStep, FreshPre, NoPre, StageStatus
    <3> QED BY <3>2, <3>3 DEF FreshPre, NoPre
  <2> QED BY <2>5, <2>6 DEF EpisodeInv
<1>7. ASSUME NEW s \in SeriesIds, NEW e \in PreEpisodes, NEW p \in EpisodeReruns, NEW c \in Calls,
             RerunEpisodePass(s, e, p, c)
      PROVE  EpisodeInv'
  <2>1. /\ series' = series /\ rerun' = rerun \cup {<<s, e>>}
        /\ call'[c].series = s /\ call'[c].episode = e
        /\ \A d \in Calls \ {c} : call'[d] = call[d]
        /\ \A t \in SeriesIds, f \in PreEpisodes : t # s \/ f # e => pre'[t][f] = pre[t][f]
    BY <1>0, <1>7 DEF RerunEpisodePass, EpisodeCall
  <2>2. ASSUME NEW t \in SeriesIds, NEW f \in PreEpisodes, t # s \/ f # e
        PROVE  EpisodeOK(t, f)'
    BY <2>1, <2>2, EpisodeKept DEF EpisodeInv
  <2>3. EpisodeOK(s, e)'
    BY <2>1 DEF EpisodeOK
  <2> QED BY <2>2, <2>3 DEF EpisodeInv
<1>8. ASSUME NEW s \in SeriesIds, RemoveSeries(s)
      PROVE  EpisodeInv'
  <2>1. /\ UNCHANGED <<call, rerun>> /\ series'[s].status \in Absent
        /\ \A t \in SeriesIds \ {s} : series'[t] = series[t] /\ pre'[t] = pre[t]
        /\ \A e \in PreEpisodes : pre'[s][e] = NoPre
    BY <1>0, <1>8 DEF RemoveSeries, NoSeriesJob, Absent
  <2>2. ASSUME NEW t \in SeriesIds \ {s}, NEW e \in PreEpisodes
        PROVE  EpisodeOK(t, e)'
    BY <2>1, EpisodeKept DEF EpisodeInv
  <2>3. ASSUME NEW e \in PreEpisodes
        PROVE  EpisodeOK(s, e)'
    <3>1. PresOf(s, e)' = PresOf(s, e)
      BY <2>1 DEF PresOf
    <3> QED BY <2>1, <3>1 DEF EpisodeInv, EpisodeOK, Present, NoPre
  <2> QED BY <2>2, <2>3 DEF EpisodeInv
<1>9. CASE CrashAndHydrate
  BY <1>9, EpisodeKept DEF CrashAndHydrate, IdleCall, PreKinds, EpisodeInv
<1>10. CASE UNCHANGED vars
  BY <1>10, EpisodeKept DEF vars, EpisodeInv
<1> QED BY <1>1, <1>2, <1>3, <1>4, <1>5, <1>6, <1>7, <1>8, <1>9, <1>10 DEF Next, CallEnds

LEMMA EpisodeInit == Init => Typed /\ EpisodeInv
BY DEF Init, Typed, TypeOK, CallsKnown, NoSeriesJob, SeriesJob, NoPre, EpisodePreProduction,
       IdleCall, Call, Passes, AllIdle, PassStatus, Absent, Derived, EpisodeInv, EpisodeOK,
       PresOf, Present

(* An episode that only the pre-production route drives never has two      *)
(* passes under way.                                                       *)
THEOREM SeriesOnePassPerEpisode == Spec => []OnePassPerEpisode
<1>1. EpisodeInv => OnePassPerEpisode
  BY DEF EpisodeInv, EpisodeOK, OnePassPerEpisode
<1> QED BY <1>1, EpisodeInit, TypedStep, EpisodeStep, PTL DEF Spec

(* ... and is complete only with outputs made from the script it shows.    *)
THEOREM SeriesCompleteIsCoherent == Spec => []CompleteIsCoherent
<1>1. EpisodeInv => CompleteIsCoherent
  BY DEF EpisodeInv, EpisodeOK, CompleteIsCoherent
<1> QED BY <1>1, EpisodeInit, TypedStep, EpisodeStep, PTL DEF Spec

-----------------------------------------------------------------------------
(* The lifecycle                                                           *)

(* A step of one series is a step, or a stutter, of the lifecycle once it  *)
(* changes that series' status, roadmap and episodes as one may.           *)
LEMMA LifecycleMove ==
    ASSUME Typed, NEW s \in SeriesIds, NEW j \in SeriesJob, series' = [series EXCEPT ![s] = j]
    PROVE  /\ j.status = series[s].status /\ j.produced = series[s].produced /\ j.roadmap = series[s].roadmap
                => UNCHANGED Lifecycle!vars
           /\ j.status = series[s].status /\ j.produced = series[s].produced /\ j.roadmap = TRUE /\ Present(s)
                => Lifecycle!Draft(s)
           /\ (/\ series[s].status = "none" /\ j.status = "planning"
               /\ j.roadmap = series[s].roadmap /\ j.produced = series[s].produced)
                => Lifecycle!Create(s)
           /\ (/\ series[s].status = "planning" /\ series[s].roadmap /\ j.status = "planned"
               /\ j.roadmap = series[s].roadmap /\ j.produced = series[s].produced)
                => Lifecycle!Planned(s)
           /\ (/\ Present(s) /\ j.status = "failed"
               /\ j.roadmap = series[s].roadmap /\ j.produced = series[s].produced)
                => Lifecycle!Fail(s)
           /\ \A e \in Episodes :
                (/\ series[s].status \in Producible /\ series[s].roadmap
                 /\ j.roadmap = series[s].roadmap /\ j.produced = series[s].produced \cup {e}
                 /\ j.status = StatusAfterProducing(series[s], e))
                => Lifecycle!Produce(s, e)
           /\ Present(s) /\ j.status = "gone" /\ j.roadmap = FALSE /\ j.produced = {}
                => Lifecycle!Forget(s)
<1>1. /\ [t \in SeriesIds |-> series[t].status]' =
           [[t \in SeriesIds |-> series[t].status] EXCEPT ![s] = j.status]
      /\ [t \in SeriesIds |-> series[t].roadmap]' =
           [[t \in SeriesIds |-> series[t].roadmap] EXCEPT ![s] = j.roadmap]
      /\ [t \in SeriesIds |-> series[t].produced]' =
           [[t \in SeriesIds |-> series[t].produced] EXCEPT ![s] = j.produced]
  BY DEF Typed, TypeOK
<1>2. series[s] \in SeriesJob
  BY DEF Typed, TypeOK
<1>3. series[s].status \in Absent \cup Unready \cup Producible
  BY <1>2 DEF SeriesJob
<1>4. Present(s) <=> series[s].status \in Lifecycle!Known
  BY <1>3 DEF Present, Absent, Unready, Producible, Lifecycle!Known, Lifecycle!Producible
<1>5. j.status = series[s].status /\ j.produced = series[s].produced /\ j.roadmap = series[s].roadmap
        => UNCHANGED Lifecycle!vars
  BY <1>1 DEF Lifecycle!vars
<1>6. j.status = series[s].status /\ j.produced = series[s].produced /\ j.roadmap = TRUE /\ Present(s)
        => Lifecycle!Draft(s)
  <2> SUFFICES ASSUME j.status = series[s].status, j.produced = series[s].produced,
                      j.roadmap = TRUE, Present(s)
               PROVE  Lifecycle!Draft(s)
    OBVIOUS
  <2>1. [t \in SeriesIds |-> series[t].status][s] \in Lifecycle!Known
    BY <1>4
  <2>2. UNCHANGED [t \in SeriesIds |-> series[t].status]
    BY <1>1
  <2>3. UNCHANGED [t \in SeriesIds |-> series[t].produced]
    BY <1>1
  <2> QED BY <1>1, <2>1, <2>2, <2>3 DEF Lifecycle!Draft
<1>7. series[s].status = "none" /\ j.status = "planning" /\ j.roadmap = series[s].roadmap /\ j.produced = series[s].produced
        => Lifecycle!Create(s)
  BY <1>1 DEF Lifecycle!Create, Lifecycle!Move
<1>8. (/\ series[s].status = "planning" /\ series[s].roadmap /\ j.status = "planned"
       /\ j.roadmap = series[s].roadmap /\ j.produced = series[s].produced)
        => Lifecycle!Planned(s)
  <2> SUFFICES ASSUME series[s].status = "planning", series[s].roadmap, j.status = "planned",
                      j.roadmap = series[s].roadmap, j.produced = series[s].produced
               PROVE  Lifecycle!Planned(s)
    OBVIOUS
  <2>1. [t \in SeriesIds |-> series[t].roadmap][s]
    OBVIOUS
  <2>2. [t \in SeriesIds |-> series[t].status][s] = "planning"
    OBVIOUS
  <2>3. UNCHANGED [t \in SeriesIds |-> series[t].produced]
    BY <1>1
  <2>4. UNCHANGED [t \in SeriesIds |-> series[t].roadmap]
    BY <1>1
  <2> QED BY <1>1, <2>1, <2>2, <2>3, <2>4 DEF Lifecycle!Planned, Lifecycle!Move
<1>9. Present(s) /\ j.status = "failed" /\ j.roadmap = series[s].roadmap /\ j.produced = series[s].produced
        => Lifecycle!Fail(s)
  BY <1>1, <1>4 DEF Lifecycle!Fail, Lifecycle!Move
<1>10. ASSUME NEW e \in Episodes,
              series[s].status \in Producible /\ series[s].roadmap /\ j.roadmap = series[s].roadmap,
              j.produced = series[s].produced \cup {e} /\ j.status = StatusAfterProducing(series[s], e)
       PROVE  Lifecycle!Produce(s, e)
  <2>1. [t \in SeriesIds |-> series[t].roadmap][s]
    BY <1>10
  <2>2. [t \in SeriesIds |-> series[t].status][s] \in Lifecycle!Producible
    BY <1>10 DEF Producible, Lifecycle!Producible
  <2>3. [t \in SeriesIds |-> series[t].produced]' =
          [[t \in SeriesIds |-> series[t].produced] EXCEPT ![s] = @ \cup {e}]
    BY <1>1, <1>10
  <2>4. j.status = IF ([t \in SeriesIds |-> series[t].produced]')[s] = Episodes
                   THEN "completed" ELSE "producing"
    BY <2>3, <1>10 DEF StatusAfterProducing
  <2>5. UNCHANGED [t \in SeriesIds |-> series[t].roadmap]
    BY <1>1, <1>10
  <2> QED BY <1>1, <2>1, <2>2, <2>3, <2>4, <2>5 DEF Lifecycle!Produce, Lifecycle!Move
<1>11. Present(s) /\ j.status = "gone" /\ j.roadmap = FALSE /\ j.produced = {}
         => Lifecycle!Forget(s)
  BY <1>1, <1>4 DEF Lifecycle!Forget, Lifecycle!Move
<1> QED BY <1>5, <1>6, <1>7, <1>8, <1>9, <1>10, <1>11

(* Every step of the engine is a step of the lifecycle, or none.           *)
LEMMA LifecycleStep ==
    Typed /\ PlannerInv /\ [Next]_vars => [Lifecycle!Next]_(Lifecycle!vars)
<1> SUFFICES ASSUME Typed, PlannerInv, [Next]_vars
             PROVE  [Lifecycle!Next]_(Lifecycle!vars)
  OBVIOUS
<1>0. series \in [SeriesIds -> SeriesJob] /\ call \in [Calls -> Call]
  BY DEF Typed, TypeOK
<1>k. CASE UNCHANGED series
  BY <1>k DEF Lifecycle!vars
<1>1. ASSUME NEW s \in SeriesIds, NEW c \in Calls, CreateSeries(s, c)
      PROVE  Lifecycle!Create(s)
  <2> DEFINE j == [series[s] EXCEPT !.status = "planning", !.passes[1] = "running"]
  <2>1. /\ j \in SeriesJob /\ j.status = "planning" /\ series' = [series EXCEPT ![s] = j]
        /\ series[s].status = "none"
        /\ j.roadmap = series[s].roadmap /\ j.produced = series[s].produced
    BY <1>0, <1>1 DEF CreateSeries, SeriesJob, Unready, Passes, PassStatus
  <2> HIDE DEF j
  <2> QED BY <2>1, LifecycleMove
<1>2. ASSUME NEW c \in Calls, NEW ok \in BOOLEAN, PlannerEnds(c, ok)
      PROVE  \/ UNCHANGED Lifecycle!vars
             \/ \E s \in SeriesIds : Lifecycle!Draft(s) \/ Lifecycle!Planned(s) \/ Lifecycle!Fail(s)
  <2> DEFINE s == call[c].series
             p == call[c].pass
  <2>1. s \in SeriesIds /\ p \in Passes
    BY <1>2, PlannerEndsWell
  <2>2. PICK j \in SeriesJob :
          /\ series' = [series EXCEPT ![s] = j]
          /\ ~Present(s) => j = series[s]
          /\ j.produced = series[s].produced
          /\ series[s].roadmap => j.roadmap
          /\ Present(s) => j.status \in {series[s].status, "failed", "planned"}
          /\ j.status = "planned" /\ series[s].status # "planned"
               => call[c].kind = "plan" /\ p = 4
          /\ j.status # series[s].status => j.roadmap = series[s].roadmap
    BY <1>2, PlannerEndsWell
  <2>3. j.roadmap \in BOOLEAN /\ series[s].roadmap \in BOOLEAN
    BY <1>0, <2>1 DEF SeriesJob
  <2>4. j.roadmap = series[s].roadmap \/ (j.roadmap = TRUE /\ j.status = series[s].status)
    BY <2>2, <2>3
  <2>5. call[c].kind = "plan" /\ p = 4 /\ Present(s) =>
          series[s].status = "planning" /\ series[s].roadmap
    BY <2>1 DEF PlannerInv, PlanProgress
  <2> HIDE DEF s, p
  <2> QED BY <2>1, <2>2, <2>4, <2>5, LifecycleMove
<1>4. ASSUME NEW s \in SeriesIds, NEW p \in PlanReruns, NEW c \in Calls, RerunPlanning(s, p, c)
      PROVE  UNCHANGED Lifecycle!vars
  <2> DEFINE j == [series[s] EXCEPT !.passes[p] = "running"]
  <2>1. p \in Passes
    BY SeriesAssumption DEF Passes
  <2>2. /\ j \in SeriesJob /\ j.status = series[s].status /\ series' = [series EXCEPT ![s] = j]
        /\ j.roadmap = series[s].roadmap /\ j.produced = series[s].produced
    BY <1>0, <1>4, <2>1 DEF RerunPlanning, SeriesJob, PassStatus
  <2> HIDE DEF j
  <2> QED BY <2>2, LifecycleMove
<1>5. ASSUME NEW s \in SeriesIds, NEW e \in Episodes, ProduceEpisode(s, e)
      PROVE  Lifecycle!Produce(s, e)
  <2> DEFINE j == [series[s] EXCEPT !.status = StatusAfterProducing(series[s], e),
                                    !.produced = @ \cup {e}]
  <2>1. series[s] \in SeriesJob /\ StatusAfterProducing(series[s], e) \in Producible
    BY <1>0 DEF StatusAfterProducing, Producible
  <2>2. /\ j \in SeriesJob /\ j.status = StatusAfterProducing(series[s], e)
        /\ j.roadmap = series[s].roadmap /\ j.produced = series[s].produced \cup {e}
    BY <2>1 DEF SeriesJob
  <2>3. /\ series' = [series EXCEPT ![s] = j] /\ series[s].roadmap
        /\ series[s].status \notin Absent \cup Unready
    BY <1>5 DEF ProduceEpisode, Present
  <2>4. series[s].status \in Producible
    BY <2>1, <2>3 DEF SeriesJob
  <2> HIDE DEF j
  <2> QED BY <2>2, <2>3, <2>4, LifecycleMove
<1>8. ASSUME NEW s \in SeriesIds, RemoveSeries(s)
      PROVE  Lifecycle!Forget(s)
  <2> DEFINE j == [NoSeriesJob EXCEPT !.status = "gone"]
  <2>1. /\ j \in SeriesJob /\ j.status = "gone" /\ j.roadmap = FALSE /\ j.produced = {}
    BY DEF NoSeriesJob, SeriesJob, AllIdle, PassStatus, Absent
  <2>2. series' = [series EXCEPT ![s] = j] /\ Present(s)
    BY <1>8 DEF RemoveSeries
  <2> HIDE DEF j
  <2> QED BY <2>1, <2>2, LifecycleMove
<1>9. ASSUME NEW c \in Calls, NEW ok \in BOOLEAN, PreproducerEnds(c, ok)
      PROVE  UNCHANGED series
  BY <1>9 DEF PreproducerEnds
<1> QED BY <1>k, <1>1, <1>2, <1>4, <1>5, <1>8, <1>9
        DEF Next, CallEnds, Preproduce, RerunEpisodePass, CrashAndHydrate, vars, Lifecycle!Next

(* The engine implements the lifecycle of SeriesJobStatus: a series is     *)
(* planned once and with a roadmap, produced only then, completed exactly  *)
(* with its last episode, and a failed one stays failed.                   *)
THEOREM SeriesImplementsLifecycle == Spec => SeriesLifecycleSpec
<1>1. Init => Lifecycle!Init
  BY DEF Init, NoSeriesJob, Lifecycle!Init
<1>2. Init => Typed /\ PlannerInv
  BY DEF Init, Typed, TypeOK, CallsKnown, NoSeriesJob, SeriesJob, NoPre, EpisodePreProduction,
         IdleCall, Call, Passes, AllIdle, PassStatus, Absent, Derived, PlannerInv,
         PlannersMarked, PlanProgress, OnePlannerCall, PlansOf, PlanKinds
<1> QED BY <1>1, <1>2, TypedStep, PlannerStep, LifecycleStep, PTL
        DEF Spec, SeriesLifecycleSpec, Lifecycle!Spec
=============================================================================
