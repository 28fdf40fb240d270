------------------------ MODULE ChunkedTranscription ------------------------
(***************************************************************************)
(* A transcription engine given a recording longer than it can take        *)
(* (engine_sdk/base_transcribe.py): the recording is split where nobody    *)
(* speaks (engine_sdk/vad.py), chunk by chunk is transcribed, a chunk that *)
(* runs out of memory halves the chunks from there on, and the transcripts *)
(* are put together on the recording's own time line.                      *)
(*                                                                         *)
(* Times are samples.  What a recognizer writes down of a chunk is the     *)
(* samples of speech it was given, at their place in the chunk.            *)
(***************************************************************************)
EXTENDS Integers, FiniteSets, SequencesExt

CONSTANTS
    Window,      \* WINDOW_SAMPLES_16K
    MinSpeech,   \* min_speech_duration_ms
    MinSilence,  \* min_silence_duration_ms
    ChunkFloor   \* _MIN_CHUNK_FLOOR_S

ASSUME ChunkingAssumption ==
    /\ Window \in Nat \ {0} /\ ChunkFloor \in Nat \ {0}
    /\ MinSpeech \in Nat \ {0} /\ MinSilence \in Nat

VARIABLE asr     \* asr: an engine and the request it works on

NoCap == 0
AtMost(a, b)  == IF a <= b THEN a ELSE b
AtLeast(a, b) == IF a >= b THEN a ELSE b

-----------------------------------------------------------------------------
(* The voice activity detector: frames are speech or not. *)

\* A region counts if it is long enough.
RegionsWith(a, end) ==
    IF end - a.from >= MinSpeech THEN Append(a.found, [s |-> a.from, e |-> end]) ELSE a.found

\* One frame.
ScanFrame(a, speech, start) ==
    LET quiet == a.quiet + Window
    IN  IF speech
        THEN [a EXCEPT !.talks = TRUE, !.quiet = 0, !.from = IF a.talks THEN @ ELSE start]
        ELSE IF ~a.talks THEN a
        ELSE IF quiet < MinSilence THEN [a EXCEPT !.quiet = quiet]
        ELSE [a EXCEPT !.talks = FALSE, !.quiet = 0,
                       !.found = RegionsWith(a, start - quiet + Window)]

\* The frames one after the other.
Scanned(frames) ==
    LET scan[i \in 0..Len(frames)] ==
          IF i = 0 THEN [talks |-> FALSE, from |-> 0, quiet |-> 0, found |-> <<>>]
          ELSE ScanFrame(scan[i - 1], frames[i], (i - 1) * Window)
    IN  scan[Len(frames)]

\* _get_speech_timestamps_offline: a region ends with enough silence after it.
SpeechRegions(frames) ==
    LET a == Scanned(frames)
    IN  IF a.talks THEN RegionsWith(a, Len(frames) * Window) ELSE a.found

-----------------------------------------------------------------------------
(* The chunker: split. *)

\* Speech longer than a chunk is cut.
Pieces(r, cap) ==
    IF r.e - r.s <= cap THEN <<r>>
    ELSE [n \in 1..((r.e - r.s + cap - 1) \div cap) |->
            [s |-> r.s + (n - 1) * cap, e |-> AtMost(r.s + n * cap, r.e)]]

WithPieces(pieces, r, cap) == pieces \o Pieces(r, cap)

Capped(regions, cap) ==
    LET capped[i \in 0..Len(regions)] ==
          IF i = 0 THEN <<>> ELSE WithPieces(capped[i - 1], regions[i], cap)
    IN  capped[Len(regions)]

\* A piece goes to the chunk before it if that stays short enough.
WithPiece(groups, p, cap) ==
    IF groups # <<>> /\ p.e - Last(groups).s <= cap
    THEN [groups EXCEPT ![Len(groups)].e = p.e]
    ELSE Append(groups, p)

\* What fits together is one chunk.
Grouped(pieces, cap) ==
    LET groups[i \in 0..Len(pieces)] ==
          IF i = 0 THEN <<>> ELSE WithPiece(groups[i - 1], pieces[i], cap)
    IN  groups[Len(pieces)]

\* Mutant: a chunk that lies across the boundary is taken whole.
TrimmedUncut(done, g, from, total) == IF g.e > from THEN Append(done, g) ELSE done

\* What lies before the resume boundary is left out or cut off.
Trimmed(done, g, from, total) ==
    LET c == [s |-> AtLeast(g.s, from), e |-> AtMost(g.e, total)]
    IN  IF g.e > from /\ c.e > c.s THEN Append(done, c) ELSE done

FromBoundary(groups, from, total) ==
    LET chunks[i \in 0..Len(groups)] ==
          IF i = 0 THEN <<>> ELSE Trimmed(chunks[i - 1], groups[i], from, total)
    IN  chunks[Len(groups)]

SplitAtSpeech(regions, cap, from, total) ==
    FromBoundary(Grouped(Capped(regions, cap), cap), from, total)

-----------------------------------------------------------------------------
(* The engine. *)

\* _effective_chunk_cap.
EffectiveChunkCap(requested) ==
    IF asr.cached # NoCap /\ asr.cached < requested THEN asr.cached ELSE requested

\* What a recognizer makes of the samples from s to e.
Recognized(s, e) ==
    [words |-> {[sound |-> x, at |-> x - s] : x \in {y \in s..(e - 1) : asr.voice[y + 1]}},
     offset |-> s]

\* _merge_chunk_transcripts.
Merged(done) ==
    [i \in DOMAIN done |-> {[w EXCEPT !.at = @ + done[i].offset] : w \in done[i].words}]

Resume(cap, from) == [asr EXCEPT !.at = "split", !.cap = cap, !.from = from]

\* A request, to an engine that has not run out of memory yet.
NewRequest(r) ==
    /\ r.frames \in Seq(BOOLEAN) /\ r.total \in Nat /\ r.max \in Nat /\ r.again \in Nat
    /\ r = [at |-> "todo", frames |-> r.frames, total |-> r.total, max |-> r.max, cached |-> NoCap,
            cap |-> NoCap, from |-> 0, voice |-> r.voice, chunks |-> <<>>, done |-> <<>>,
            out |-> <<>>, again |-> r.again]

AsrInit(s) == asr \in s.recordings

\* process, to the point where it is known which way it goes.
ProcessRecording ==
    /\ asr.at = "todo"
    /\ asr' = IF asr.max = NoCap \/ asr.total <= asr.max THEN [asr EXCEPT !.at = "whole"]
              ELSE Resume(EffectiveChunkCap(asr.max), 0)

\* The whole recording at once; when memory runs out, in halves.
TranscribeWhole(outcome) ==
    /\ asr.at = "whole"
    /\ asr' = CASE outcome = "ok"  -> [asr EXCEPT !.at = "done",
                                         !.done = <<Recognized(0, asr.total)>>,
                                         !.out = Merged(<<Recognized(0, asr.total)>>)]
                [] outcome = "oom" /\ asr.max # NoCap
                     -> Resume(EffectiveChunkCap(AtLeast(asr.total \div 2, ChunkFloor)), 0)
                [] OTHER -> [asr EXCEPT !.at = "failed"]

\* One pass begins: the original recording is split from scratch, if it can.
SplitRecording(ok) ==
    LET chunks == SplitAtSpeech(SpeechRegions(asr.frames), asr.cap, asr.from, asr.total)
    IN  /\ asr.at = "split"
        /\ asr' = IF ~ok THEN [asr EXCEPT !.at = "failed"]
                  ELSE IF chunks = <<>> THEN [asr EXCEPT !.at = "done", !.out = Merged(asr.done)]
                  ELSE [asr EXCEPT !.at = "chunks", !.chunks = chunks]

\* One chunk.  Out of memory: smaller chunks from this one on, unless they
\* are as small as they get.
TranscribeChunk(outcome) ==
    LET chunk == Head(asr.chunks)
        smaller == AtLeast(asr.cap \div 2, ChunkFloor)
        done == Append(asr.done, Recognized(chunk.s, chunk.e))
        rest == Tail(asr.chunks)
    IN  /\ asr.at = "chunks"
        /\ asr' = CASE outcome = "ok" /\ rest # <<>>
                         -> [asr EXCEPT !.done = done, !.chunks = rest]
                    [] outcome = "ok" /\ rest = <<>>
                         -> [asr EXCEPT !.at = "done", !.done = done, !.out = Merged(done)]
                    [] outcome = "oom" /\ smaller < asr.cap
                         -> [Resume(smaller, chunk.s) EXCEPT !.cached = smaller]
                    [] OTHER -> [asr EXCEPT !.at = "failed"]

\* The engine is given the recording once more.
NextRecording ==
    /\ asr.at \in {"done", "failed"} /\ asr.again > 0
    /\ asr' = [asr EXCEPT !.at = "todo", !.again = @ - 1, !.cap = NoCap, !.chunks = <<>>,
                          !.done = <<>>, !.out = <<>>]

AsrNext == \/ ProcessRecording \/ NextRecording
           \/ \E ok \in BOOLEAN : SplitRecording(ok)
           \/ \E outcome \in {"ok", "oom", "error"} :
                TranscribeWhole(outcome) \/ TranscribeChunk(outcome)

-----------------------------------------------------------------------------
Inside(regions, x) == \E i \in DOMAIN regions : regions[i].s <= x /\ x < regions[i].e
Between(regions, x) == \E i, j \in DOMAIN regions : regions[i].s <= x /\ x < regions[j].e
Written(out) == UNION {out[i] : i \in DOMAIN out}

\* A finished transcript has every sample of detected speech exactly once, at
\* its own time and in order, however often chunks were halved on the way.
\* What else it has is voice too short for the detector, if more speech was
\* detected before and after it.
SpokenOnce ==
    (asr.at = "done" /\ asr.cap # NoCap) =>
      LET regions == SpeechRegions(asr.frames)
          voiced == {x \in 0..(asr.total - 1) : asr.voice[x + 1]}
          written == {w.at : w \in Written(asr.out)}
      IN  /\ {x \in voiced : Inside(regions, x)} \subseteq written
          /\ written \subseteq {x \in voiced : Between(regions, x)}
          /\ \A w \in Written(asr.out) : w.at = w.sound
          /\ \A i, j \in DOMAIN asr.out : i < j =>
               \A v \in asr.out[i], w \in asr.out[j] : v.at < w.at

\* No chunk is longer than the size that the engine, when it last ran out of
\* memory in this request or an earlier one, took to be safe.
LearnsFromOom ==
    asr.at = "chunks" =>
      \A i \in DOMAIN asr.chunks :
         LET size == asr.chunks[i].e - asr.chunks[i].s
         IN  size <= asr.cap /\ (asr.cached # NoCap => size <= asr.cached)

\* The detector: regions are in order and long enough, silence between two is
\* long enough, each begins and ends with speech, and speech that lasts long
\* enough is in one, up to the last whole window.
RegionsExact ==
    asr.at = "split" =>
      LET regions == SpeechRegions(asr.frames)
          speech(x) == asr.frames[x \div Window + 1]
          frames == 0..(Len(asr.frames) * Window - 1)
          lasting == {x \in frames : \E k \in (x - MinSpeech + 1)..x :
                        /\ k >= 0 /\ k + MinSpeech - 1 \in frames
                        /\ \A y \in k..(k + MinSpeech - 1) : speech(y)}
      IN  /\ \A i \in DOMAIN regions :
               /\ regions[i].e - regions[i].s >= MinSpeech
               /\ speech(regions[i].s)
               /\ regions[i].e \in frames => ~speech(regions[i].e)
          /\ \A i \in 1..(Len(regions) - 1) : regions[i + 1].s - regions[i].e >= MinSilence
          /\ \A x \in lasting : Inside(regions, x)

\* However a recording is cut, and cut again when memory runs out, all of its
\* speech is transcribed once, in its place.
RecordingInv == SpokenOnce /\ LearnsFromOom /\ RegionsExact

=============================================================================
