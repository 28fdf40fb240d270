----------------------------- MODULE MCService -----------------------------
(* Small instances of Service for TLC. *)
EXTENDS Service

CONSTANTS prep, whisper, ctc, aligner, diarizer, pii, redactor,
          iPrep, iWhisper, iCtc, iAlign, iDiar, iPii, iRed,
          large, tiny, wav2vec, pyannote, gliner,
          j1, j2, h1, h2, brief, dated, forever, job, w1, w2, f1, f2, b1, b2,
          g1, g2, a1, a2, n1, n2, n3, nemo, pyannote4, t1, t2, alice, bob

\* whisper gives words, ctc is faster and can be started on demand.
MCProfile ==
    LET p(stage, words, diarizes, onDemand, rtf) ==
          [stage |-> stage, words |-> words, diarizes |-> diarizes,
           onDemand |-> onDemand, rtf |-> rtf]
    IN  prep :> p("prepare", FALSE, FALSE, FALSE, 1)
          @@ whisper :> p("transcribe", TRUE, FALSE, FALSE, 3)
          @@ ctc :> p("transcribe", FALSE, TRUE, TRUE, 1)
          @@ aligner :> p("align", FALSE, FALSE, FALSE, 1)
          @@ diarizer :> p("diarize", FALSE, FALSE, FALSE, 1)
          @@ pii :> p("pii_detect", FALSE, FALSE, FALSE, 1)
          @@ redactor :> p("audio_redact", FALSE, FALSE, FALSE, 1)

MCEngineOf == iPrep :> prep @@ iWhisper :> whisper @@ iCtc :> ctc @@ iAlign :> aligner
                @@ iDiar :> diarizer @@ iPii :> pii @@ iRed :> redactor

MCAbout ==
    LET m(engine, stage, langs, size) ==
          [engine |-> engine, stage |-> stage, langs |-> langs, size |-> size]
    IN  large :> m(whisper, "transcribe", AnyLanguage, 2)
          @@ tiny :> m(ctc, "transcribe", {"en"}, 1)
          @@ wav2vec :> m(aligner, "align", {"en"}, 1)
          @@ pyannote :> m(diarizer, "diarize", AnyLanguage, 1)
          @@ gliner :> m(pii, "pii_detect", AnyLanguage, 1)

MCIsSession == [o \in Recordings |-> o # job]
MCKeep == brief :> "transient" @@ dated :> "days" @@ forever :> "permanent" @@ job :> "days"

MCHome == a1 :> g1 @@ a2 :> g2
MCStreams == <<nemo, pyannote4>>
MCPolicy == "tasks_per_instance" :> 1 @@ "min_instances" :> 0 @@ "max_instances" :> 2
              @@ "scale_down_after_s" :> 1

\* The plainest request, and requests that ask for more.
Plain == [lang |-> None, words |-> FALSE, speakers |-> "none", channels |-> 2,
          pin |-> <<>>, pii |-> FALSE, redact |-> FALSE, sync |-> FALSE]
Pins == {<<>>, "transcribe" :> tiny, "transcribe" :> ctc, "align" :> wav2vec,
         "align" :> aligner}
Rich == {[Plain EXCEPT !.lang = l, !.words = w, !.speakers = s, !.pin = p,
                       !.pii = (s = "diarize"), !.redact = (l = "en"), !.sync = w] :
            l \in {None, "en", "hr"}, w \in BOOLEAN,
            s \in {"none", "diarize", "per_channel"}, p \in Pins}

Nothing == [j \in Jobs |-> None]
One(p) == [Nothing EXCEPT ![j1] = p]

NoDoc == [kind |-> "none"]
NoRecording == [at |-> "none"]
NoAsk == [at |-> "done", key |-> Unset, val |-> Unset, expected |-> Unset]

Quiet == [params |-> Nothing, up |-> Instances, faults |-> 0, churn |-> 0, restless |-> {},
          ready |-> Models,
          ops |-> 0, pool |-> {}, crashes |-> 0, kept |-> {}, slack |-> 0,
          rows |-> {}, upsets |-> 0, asks |-> [a \in Admins |-> NoAsk],
          phases |-> {Horizon + 1}, clock |-> Horizon,
          fleet |-> <<>>, tasks |-> {}, woes |-> 0, ticks |-> MaxTicks,
          docs |-> {NoDoc}, recordings |-> {NoRecording}]

\* Two requests against a limit of one, with a prepare engine and without.
Submissions ==
    {[Quiet EXCEPT !.params = [j \in Jobs |-> Plain]],
     [Quiet EXCEPT !.params = [j \in Jobs |-> Plain], !.up = Instances \ {iPrep}, !.faults = 1]}
\* A synchronous one and two faults.
Faults ==
    {[Quiet EXCEPT !.params = One([Plain EXCEPT !.sync = TRUE]), !.up = u, !.faults = 2] :
        u \in {Instances, Instances \ {iPrep}}}
\* One request of every kind while the registry changes.
Plans ==
    {[Quiet EXCEPT !.params = One(p), !.churn = 1, !.restless = {iWhisper}] : p \in Rich}
      \cup {[Quiet EXCEPT !.params = One(p), !.up = Instances \ {iWhisper, iAlign},
                          !.churn = 1, !.restless = {iWhisper, iAlign}] :
               p \in {q \in Rich : q.pin = <<>> /\ q.lang # "hr"}}
      \cup {[Quiet EXCEPT !.params = One([Plain EXCEPT !.words = TRUE, !.lang = "en"]),
                          !.faults = 1, !.churn = 1, !.restless = {iWhisper}]}
\* Operations on one model, present or not, and a request that names it.
Stores ==
    {[Quiet EXCEPT !.ops = 3, !.pool = {large}, !.crashes = 1, !.ready = r] : r \in {{}, {large}}}
      \cup {[Quiet EXCEPT !.params = One([Plain EXCEPT !.pin = "transcribe" :> tiny]),
                          !.ops = 1, !.pool = {tiny}]}
\* Files that expire, and files that never do.
Leftovers ==
    {[Quiet EXCEPT !.kept = {dated}, !.slack = 2],
     [Quiet EXCEPT !.kept = {brief, job}, !.slack = 0],
     [Quiet EXCEPT !.kept = {forever}, !.slack = 1],
     [Quiet EXCEPT !.kept = {job}, !.slack = 1]}

\* Two administrators at two gateways, and a Redis that fails once.
Asked(k, v, e) == [at |-> "todo", key |-> k, val |-> v, expected |-> e]
Maximum(v) == [key |-> "max_instances", val |-> v, at |-> 1, by |-> a2]
Changes ==
    {[Quiet EXCEPT !.rows = {Maximum(3)}, !.clock = 1, !.phases = {2}, !.upsets = 0,
                   !.asks = a1 :> Asked("max_instances", 1, 1) @@ a2 :> y] :
        y \in {Asked("max_instances", 2, 1), Asked("max_instances", Unset, Unset)}}
      \cup {[Quiet EXCEPT !.clock = 1, !.phases = {2}, !.upsets = 1,
                          !.asks = a1 :> Asked("max_instances", 1, Unset) @@ a2 :> y] :
               y \in {NoAsk, Asked(Unset, Unset, Unset)}}
      \cup {[Quiet EXCEPT !.clock = 1, !.phases = {2},
                          !.asks = [a \in Admins |-> Asked("max_instances", 1, Unset)]]}

\* Workers that come and go, under the policy file and under overrides.
Worker(state, spot, managed) == [state |-> state, spot |-> spot, managed |-> managed, born |-> 0]
Pair == n1 :> Worker("live", TRUE, TRUE) @@ n2 :> Worker("live", FALSE, TRUE)
Fleets ==
    {[Quiet EXCEPT !.ticks = 0, !.tasks = {t1}, !.woes = 3],
     [Quiet EXCEPT !.ticks = 1, !.tasks = {t1, t2}],
     [Quiet EXCEPT !.ticks = 0, !.tasks = {t1}, !.fleet = Pair, !.woes = 1],
     [Quiet EXCEPT !.ticks = 0, !.tasks = {t1}, !.fleet = n1 :> Worker("booting", TRUE, FALSE)],
     [Quiet EXCEPT !.ticks = 2, !.tasks = {t1}, !.fleet = Pair, !.rows = {Maximum(1)}, !.upsets = 1],
     [Quiet EXCEPT !.ticks = 2, !.tasks = {t1},
                   !.rows = {[Maximum(3) EXCEPT !.key = "min_instances"]}]}

\* Recordings of seven windows, and of nine with a short word between longer
\* ones, and a piece of a window.
Recording(f, m) ==
    LET n == 2 * Len(f)
    IN  [at |-> "todo", frames |-> f, total |-> n + 1, max |-> m, cached |-> NoCap, cap |-> NoCap,
         from |-> 0, voice |-> [k \in 1..(n + 1) |-> k <= n /\ f[(k - 1) \div Window + 1]],
         chunks |-> <<>>, done |-> <<>>, out |-> <<>>, again |-> 1]
Long == {[Quiet EXCEPT !.recordings =
            {Recording(f, m) : f \in [1..7 -> BOOLEAN], m \in {NoCap, 10, 15}}
              \cup {Recording(<<TRUE, TRUE, FALSE, FALSE, b, FALSE, FALSE, TRUE, c>>, m) :
                      b \in BOOLEAN, c \in BOOLEAN, m \in {NoCap, 10, 18}}]}

\* Documents: speakers against words, regions against segments, channels, and
\* chunks.
T(s, e, w) == [s |-> s, e |-> e, who |-> w]
W(i, s, e, x) == [id |-> i, s |-> s, e |-> e, ends |-> x]
Seg(s, e, ws, n) == [s |-> s, e |-> e, words |-> ws, tokens |-> [k \in 1..n |-> k]]
Turns == {T(p[1], p[2], w) : w \in {alice, bob},
            p \in {<<0, 1>>, <<0, 4>>, <<1, 3>>, <<2, 3>>, <<2, 6>>, <<3, 4>>, <<5, 6>>}}
TurnLists == {<<>>} \cup {<<a, b>> : a \in Turns, b \in Turns}
               \cup {<<T(0, 1, alice), b, T(3, 4, bob), d>> : b \in Turns, d \in Turns}
Apart == <<W(1, 0, 1, FALSE), W(2, 1, 2, FALSE), W(3, 2, 4, TRUE), W(4, 4, 4, FALSE), W(5, 4, 6, FALSE)>>
Mixed == <<W(1, 0, 3, FALSE), W(2, 1, 2, FALSE), W(3, 5, 4, FALSE), W(4, 2, 6, FALSE), W(5, 2, 3, FALSE)>>
Even == [i \in 1..9 |-> W(i, i - 1, i, i % 3 = 0)]
SegLists == {<<Seg(0, 6, Apart, 5)>>, <<Seg(0, 6, Mixed, 5)>>, <<Seg(0, 6, <<>>, 3)>>,
             <<Seg(0, 2, <<W(1, 0, 2, FALSE)>>, 1), Seg(2, 6, SubSeq(Apart, 3, 5), 3)>>,
             <<Seg(3, 3, <<W(1, 3, 3, TRUE)>>, 1), Seg(4, 6, <<>>, 1)>>}
Linears(segs, aligns, diarised, turns, regions) ==
    {[kind |-> "linear", at |-> "todo", segs |-> g, align |-> a, aligned |-> <<Seg(0, 6, Apart, 5)>>,
      diarised |-> diarised, turns |-> t, regions |-> r,
      out |-> <<>>, smooth |-> <<>>, missed |-> <<>>] :
        g \in segs, a \in aligns, t \in turns, r \in regions}
Documents ==
    Linears(SegLists, {"none", "skipped"}, TRUE, TurnLists, {<<T(0, 9, alice)>>})
      \cup Linears({<<Seg(0, 9, Even, 9)>>, <<Seg(0, 5, SubSeq(Even, 1, 5), 5),
                                              Seg(5, 9, SubSeq(Even, 6, 9), 4)>>},
                   {"none"}, TRUE,
                   {<<T(0, a, alice), T(b, 6, bob), T(c, d, alice)>> :
                       a \in 2..4, b \in 2..4, c \in 5..7, d \in 8..9}, {<<>>})
      \cup Linears({<<Seg(3, 3, <<>>, 1)>>}, {"done"}, TRUE, TurnLists, {<<>>})
      \cup Linears({<<Seg(a, b, <<>>, 1), Seg(c, d, <<>>, 1)>> :
                       a \in 0..3, b \in {3, 5}, c \in {4, 6, 8}, d \in {8, 10}},
                   {"none"}, FALSE, {<<>>},
                   {<<T(x, y, alice), T(y + 1, 12, alice)>> : x \in {0, 3}, y \in 5..9})
      \cup {[kind |-> "channels", at |-> "todo", channels |-> <<a, b>>, out |-> <<>>] :
               a \in {Nobody} \cup [segs : SegLists, align : {"none", "skipped", "done"},
                                    aligned : {<<Seg(0, 6, Apart, 5)>>}],
               b \in [segs : SegLists, align : {"none"}, aligned : {<<>>}]}
      \cup {[kind |-> "chunks", at |-> "todo", duration |-> n, next |-> 1, chunks |-> <<>>,
             turns |-> SelectSeq(<<T(a, b, alice), T(c, d, bob)>>, LAMBDA q : q.e <= n),
             faults |-> 1, out |-> <<>>, stats |-> <<>>] :
               n \in {5, 9, 11, 14}, a \in {0, 3}, b \in 5..8, c \in {2, 5, 6}, d \in {7, 8, 12}}
Texts == {[Quiet EXCEPT !.docs = Documents]}

MCScenarios == Submissions \cup Faults \cup Plans \cup Stores \cup Leftovers
                 \cup Changes \cup Fleets \cup Long \cup Texts

=============================================================================
