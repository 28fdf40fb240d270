------------------------------ MODULE Planning ------------------------------
(***************************************************************************)
(* How the orchestrator turns the parameters of a job into tasks: one      *)
(* engine per stage (engine_selector.py, catalog.py) from what the engine  *)
(* registry shows at that moment (registry.py), and the graph of tasks     *)
(* built from the selection (dag.py).  Every operator is a function of     *)
(* what it reads; where the code depends on the order of a Redis set the   *)
(* operator returns the set of the results it may have.                    *)
(*                                                                         *)
(* reg[i] is what the registry holds on engine instance i: its state       *)
(* ("gone": the key expired; "idle"; "busy": a fresh heartbeat but no      *)
(* capacity, or draining; "offline": marked by the scanner) and whether    *)
(* the record still has the capabilities written at registration.          *)
(* ready is the set of models the model registry calls ready.              *)
(***************************************************************************)
EXTENDS Naturals, FiniteSets, TLC

CONSTANTS
    Engines,    \* engine ids of the catalogue
    Profile,    \* [Engines -> [stage, words, diarizes, onDemand, rtf]]
    Instances,  \* engine processes
    EngineOf,   \* [Instances -> Engines]
    Models,     \* ids of the model registry
    About,      \* [Models -> [engine, stage, langs, size]]
    None        \* no model, no language, no preference

\* The languages a model lists; AnyLanguage stands for languages NULL.
AnyLanguage == {"any"}
Speaks(m, lang) == lang = None \/ About[m].langs = AnyLanguage
                               \/ lang \in About[m].langs

ModelBacked == {"transcribe", "diarize", "align", "pii_detect"}
StageOrder == <<"prepare", "transcribe", "align", "diarize", "pii_detect", "audio_redact">>

-----------------------------------------------------------------------------
\* The registry.
Healthy(reg, i) == reg[i].state \in {"idle", "busy"}
Available(reg, i) == reg[i].state = "idle"
InstancesOf(reg, e) == {i \in Instances : EngineOf[i] = e /\ reg[i].state # "gone"}

\* get_engine: some available instance, or else the first of the set.
GetEngine(reg, e) ==
    LET free == {i \in InstancesOf(reg, e) : Available(reg, i)}
    IN  IF free # {} THEN free ELSE InstancesOf(reg, e)

IsEngineAvailable(reg, e) == \E i \in InstancesOf(reg, e) : Healthy(reg, i)

\* A record without capabilities is taken to have none.
Words(e, full) == full /\ Profile[e].words
Diarizes(e, full) == full /\ Profile[e].diarizes
Speed(e, full) == IF full THEN Profile[e].rtf ELSE 999

-----------------------------------------------------------------------------
\* Results of select_engine.
Pick(e, m, cold, full) == [ok |-> TRUE, engine |-> e, model |-> m, cold |-> cold,
                           words |-> Words(e, full), diarizes |-> Diarizes(e, full)]
Fail(why) == [ok |-> FALSE, why |-> why]

\* An explicit model: its stage, readiness and language are checked, and a
\* cold engine is accepted only when the catalogue flags it on_demand.
SelectModel(stage, m, lang, reg, ready) ==
    LET e    == About[m].engine
        seen == GetEngine(reg, e)
        live == {i \in seen : Healthy(reg, i)}
        cold == IF seen = live /\ seen # {} THEN {}
                ELSE IF Profile[e].onDemand THEN {Pick(e, m, TRUE, TRUE)}
                ELSE {Fail("runtime_unavailable")}
        spoken(o) == IF o.ok /\ ~Speaks(m, lang) THEN Fail("no_capable_engine") ELSE o
    IN  IF About[m].stage # stage THEN {Fail("model_stage_mismatch")}
        ELSE IF m \notin ready THEN {Fail("model_not_ready")}
        ELSE {spoken(o) : o \in cold \cup {Pick(e, m, FALSE, reg[i].full) : i \in live}}

\* _catalog_on_demand_fallback: the fastest engine flagged on_demand.
OnDemandFallback(among) ==
    LET cold == {e \in among : Profile[e].onDemand}
        best == {e \in cold : \A f \in cold : Profile[e].rtf <= Profile[f].rtf}
    IN  IF cold = {} THEN {Fail("no_capable_engine")}
        ELSE {Pick(e, None, TRUE, TRUE) : e \in best}

\* An explicit engine: it must be available now; its stage is not looked at.
SelectDirect(stage, e, reg) ==
    LET free == {i \in GetEngine(reg, e) : Available(reg, i)}
    IN  IF free # {} THEN {Pick(e, None, FALSE, reg[i].full) : i \in free}
        ELSE OnDemandFallback({e} \cap {f \in Engines : Profile[f].stage = stage})

\* _rank_capable_engines: native words, then native diarization, then speed.
RankedBefore(reg, i, j) ==
    LET score(k) == <<IF Words(EngineOf[k], reg[k].full) THEN 1 ELSE 0,
                      IF Diarizes(EngineOf[k], reg[k].full) THEN 1 ELSE 0,
                      999 - Speed(EngineOf[k], reg[k].full)>>
        a == score(i)
        b == score(j)
    IN  \E n \in 1..3 : a[n] > b[n] /\ \A l \in 1..(n - 1) : a[l] = b[l]

\* _find_best_downloaded_model: the language filters, then (for automatic
\* detection) models of every language go first, then the larger one.
BestModels(e, stage, lang, ready) ==
    LET fit   == {m \in ready : About[m].engine = e /\ About[m].stage = stage
                                /\ Speaks(m, lang)}
        wide(m) == IF lang = None /\ (About[m].langs = AnyLanguage \/ Cardinality(About[m].langs) > 10)
                   THEN 1 ELSE 0
        before(m, n) == \/ wide(m) > wide(n)
                        \/ wide(m) = wide(n) /\ About[m].size > About[n].size
    IN  {m \in fit : \A n \in fit : ~before(n, m)}

\* No preference: the healthy instances of the stage, ranked; for a stage
\* that needs a model the first of them that has one downloaded.
SelectAuto(stage, lang, reg, ready) ==
    LET capable == {i \in Instances : /\ Profile[EngineOf[i]].stage = stage
                                      /\ Healthy(reg, i)}
        models(i) == IF stage \in ModelBacked
                     THEN BestModels(EngineOf[i], stage, lang, ready) ELSE {None}
        usable == {i \in capable : models(i) # {}}
        first  == {i \in usable : \A j \in usable : ~RankedBefore(reg, j, i)}
    IN  IF capable = {}
        THEN OnDemandFallback({e \in Engines : Profile[e].stage = stage})
        ELSE IF usable = {} THEN {Fail("no_downloaded_model")}
        ELSE UNION {{Pick(EngineOf[i], m, FALSE, reg[i].full) : m \in models(i)} : i \in first}

-----------------------------------------------------------------------------
(***************************************************************************)
(* A job's parameters: language, words (granularity is "word"), speakers,  *)
(* channels (num_channels, 2 unless the route passes it), pin (the         *)
(* preference for a stage: a model, an engine or None), pii and redact.    *)
(***************************************************************************)
Preference(p, stage) == IF stage \in DOMAIN p.pin THEN p.pin[stage] ELSE None

\* The align and pii_detect preferences must be models of the registry.
ModelOnly == {"align", "pii_detect"}

SelectEngine(stage, p, reg, ready) ==
    LET want == Preference(p, stage)
        lang == IF stage \in {"transcribe", "align"} THEN p.lang ELSE None
    IN  IF want = None THEN SelectAuto(stage, lang, reg, ready)
        ELSE IF want \in Models THEN SelectModel(stage, want, lang, reg, ready)
        ELSE IF stage \in ModelOnly THEN {Fail("model_not_found")}
        ELSE SelectDirect(stage, want, reg)

\* Mutant: the test of the native capability is inverted.
AddAlignmentInverted(words, pick) == words /\ pick.words

\* _should_add_alignment and _should_add_diarization.
AddAlignment(words, pick) == words /\ ~pick.words
AddDiarization(p, pick) == p.speakers = "diarize" /\ ~pick.diarizes

\* Stages select_pipeline_engines still has to choose; sel is what it has so
\* far and words the effective parameter.
Wanted(p, words, sel) ==
    {"prepare", "transcribe"}
      \cup (IF "transcribe" \in DOMAIN sel /\ AddAlignment(words, sel["transcribe"])
            THEN {"align"} ELSE {})
      \cup (IF "transcribe" \in DOMAIN sel /\ AddDiarization(p, sel["transcribe"])
            THEN {"diarize"} ELSE {})
      \cup (IF p.pii THEN {"pii_detect"} ELSE {})
      \cup (IF p.pii /\ p.redact THEN {"audio_redact"} ELSE {})

NextStages(p, words, sel) ==
    LET open == {n \in DOMAIN StageOrder :
                    StageOrder[n] \in Wanted(p, words, sel) \ DOMAIN sel}
    IN  {StageOrder[n] : n \in {k \in open : \A l \in open : k <= l}}

\* Without an align engine or model the job goes on with segment timestamps,
\* unless the align model was asked for.
Degrades(p, stage, o) ==
    /\ stage = "align"
    /\ Preference(p, "align") = None
    /\ o.why \in {"no_downloaded_model", "no_capable_engine"}

-----------------------------------------------------------------------------
\* _build_dag_with_engines and its per-channel variant.  A task is named by
\* its stage and channel, None when the stage is not split by channel.
Channels(p) == IF p.speakers = "per_channel" THEN 0..(p.channels - 1) ELSE {None}

Task(stage, c, deps, sel) ==
    [stage |-> stage, channel |-> c, deps |-> deps,
     engine |-> sel[stage].engine, model |-> sel[stage].model,
     \* _on_demand_wait goes by the engine, whatever stage chose it cold.
     waits |-> \E s \in DOMAIN sel : sel[s].cold /\ sel[s].engine = sel[stage].engine]

\* One chain of transcribe and, if it was selected, align per channel.
ChannelTasks(p, words, sel) ==
    {Task("transcribe", c, {<<"prepare", None>>}, sel) : c \in Channels(p)}
      \cup {Task("align", c, {<<"transcribe", c>>}, sel) :
               c \in IF words /\ "align" \in DOMAIN sel THEN Channels(p) ELSE {}}

BuildDag(p, words, sel) ==
    {Task("prepare", None, {}, sel)}
      \cup ChannelTasks(p, words, sel)
      \cup (IF p.speakers = "diarize" /\ "diarize" \in DOMAIN sel
            THEN {Task("diarize", None, {<<"prepare", None>>}, sel)} ELSE {})

=============================================================================
