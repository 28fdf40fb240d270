------------------------- MODULE TranscriptAssembly -------------------------
(***************************************************************************)
(* How a transcript is put together when all tasks of a job have completed *)
(* (common/transcript.py), and how speakers are told apart in a recording  *)
(* that is diarised in overlapping chunks (engine_sdk/diarize_chunking.py).*)
(*                                                                         *)
(* Times are small integers, in a unit in which MinTurn is                 *)
(* MIN_TURN_DURATION_S.  A word is [id, s, e, ends] (ends: sentence-ending *)
(* punctuation), a turn [s, e, who], a segment [s, e, words, tokens].      *)
(***************************************************************************)
EXTENDS Integers, FiniteSets, SequencesExt

CONSTANTS
    Nobody,     \* no speaker
    MinTurn,    \* MIN_TURN_DURATION_S
    MinWords,   \* MIN_SEGMENT_WORDS
    MinMissed,  \* MISSED_SPEECH_MIN_REGION_S
    Tolerance,  \* MISSED_SPEECH_TOLERANCE_S
    MaxChunk,   \* DEFAULT_MAX_CHUNK_S
    MinChunk,   \* DEFAULT_MIN_CHUNK_S
    Shared      \* DEFAULT_OVERLAP_S

VARIABLE doc    \* doc: the document being put together

Larger(a, b)  == IF a >= b THEN a ELSE b
Smaller(a, b) == IF a <= b THEN a ELSE b
Least(S) == CHOOSE i \in S : \A j \in S : i <= j
FirstMax(S, F(_)) == Least({i \in S : \A j \in S : F(i) >= F(j)})

\* Python's stable sort, and its usual key (start, end).
StableSort(seq, Before(_, _)) ==
    LET rank(i) == Cardinality({j \in DOMAIN seq : Before(seq[j], seq[i])
                                   \/ (~Before(seq[i], seq[j]) /\ j <= i)})
    IN  [n \in DOMAIN seq |-> seq[CHOOSE i \in DOMAIN seq : rank(i) = n]]
ByTime(a, b)  == a.s < b.s \/ (a.s = b.s /\ a.e < b.e)
ByStart(a, b) == a.s < b.s
SortedByTime(seq) == StableSort(seq, ByTime)

-----------------------------------------------------------------------------
(* Whose voice: turns against a span of time. *)

Length(a) == a.e - a.s
Overlap(a, b) == Larger(0, Smaller(a.e, b.e) - Larger(a.s, b.s))

\* The first turn with the largest overlap.
FindSpeakerByOverlap(span, turns) ==
    LET hit == {i \in DOMAIN turns : Overlap(span, turns[i]) > 0}
        over(i) == Overlap(span, turns[i])
    IN  IF hit = {} THEN Nobody ELSE turns[FirstMax(hit, over)].who

\* The time is given twice as large, to stay with integers at midpoints.
FindNearestTurnSpeaker(t2, turns) ==
    LET inside == {i \in DOMAIN turns : 2 * turns[i].s <= t2 /\ t2 <= 2 * turns[i].e}
        near(i) == IF t2 < 2 * turns[i].s THEN t2 - 2 * turns[i].s ELSE 2 * turns[i].e - t2
    IN  IF turns = <<>> THEN Nobody
        ELSE IF inside # {} THEN turns[Least(inside)].who
        ELSE turns[FirstMax(DOMAIN turns, near)].who

AssignSpeakerToWord(w, turns) ==
    LET onset == {i \in DOMAIN turns : turns[i].s <= w.s /\ w.s <= turns[i].e}
        most  == FindSpeakerByOverlap(w, turns)
    IN  IF turns = <<>> \/ w.e < w.s THEN Nobody
        ELSE IF w.e = w.s THEN FindNearestTurnSpeaker(2 * w.s, turns)
        ELSE IF w.ends /\ onset # {} THEN turns[Least(onset)].who
        ELSE IF most # Nobody THEN most
        ELSE FindNearestTurnSpeaker(w.s + w.e, turns)

-----------------------------------------------------------------------------
(* Smoothing: turns that are too short go into a neighbour. *)

MergeAdjacentTurns(turns) ==
    LET add(done, t) ==
          IF done # <<>> /\ Last(done).who = t.who /\ t.s <= Last(done).e
          THEN Append(Front(done), [Last(done) EXCEPT !.e = Larger(@, t.e)])
          ELSE Append(done, t)
    IN  FoldLeft(add, <<>>, turns)

\* kept: the turns that stay, by their place among all; micro: one that goes.
Absorb(kept, i, micro) ==
    LET prevs == {j \in DOMAIN kept : j < i}
        nexts == {j \in DOMAIN kept : j > i}
        prev  == CHOOSE j \in prevs : \A k \in prevs : k <= j
        nxt   == Least(nexts)
        over(j) == Overlap(kept[j], micro)
        target == IF nexts = {} THEN prev
                  ELSE IF prevs = {} THEN nxt
                  ELSE IF over(prev) # over(nxt)
                       THEN IF over(prev) > over(nxt) THEN prev ELSE nxt
                  ELSE IF Length(kept[prev]) >= Length(kept[nxt]) THEN prev ELSE nxt
    IN  [kept EXCEPT ![target].s = Smaller(@, micro.s), ![target].e = Larger(@, micro.e)]

SmoothTurns(raw) ==
    LET turns == SortedByTime(raw)
        long  == {i \in DOMAIN turns : Length(turns[i]) >= MinTurn}
        size(i) == Length(turns[i])
        stay  == IF long = {} THEN {FirstMax(DOMAIN turns, size)} ELSE long
        go    == SetToSortSeq(DOMAIN turns \ stay, <)
        absorb(kept, i) == Absorb(kept, i, turns[i])
        kept  == FoldLeft(absorb, [i \in stay |-> turns[i]], go)
    IN  IF raw = <<>> THEN <<>>
        ELSE MergeAdjacentTurns(SortedByTime([n \in 1..Cardinality(stay) |->
                                                 kept[SetToSortSeq(stay, <)[n]]]))

-----------------------------------------------------------------------------
(* Splitting a segment at the speakers' turns. *)

\* Windows of one speaker, which together make up the segment.
Widen(windows, w) ==
    IF windows # <<>> /\ Last(windows).who = w.who
    THEN Append(Front(windows), [Last(windows) EXCEPT !.e = w.e])
    ELSE Append(windows, w)

BuildSpeakerWindows(seg, turns) ==
    LET hit   == {i \in DOMAIN turns : turns[i].e > seg.s /\ turns[i].s < seg.e}
        edges == {seg.s, seg.e} \cup {Larger(seg.s, turns[i].s) : i \in hit}
                                \cup {Smaller(seg.e, turns[i].e) : i \in hit}
        edge  == SetToSortSeq(edges, <)
        cut   == [n \in 1..(Len(edge) - 1) |->
                    LET span == [s |-> edge[n], e |-> edge[n + 1]]
                    IN  [s |-> span.s, e |-> span.e, who |-> FindSpeakerByOverlap(span, turns)]]
    IN  IF seg.e <= seg.s THEN <<>> ELSE FoldLeft(Widen, <<>>, cut)

\* Runs of words of one speaker.
SplitWordsBySpeaker(words, turns) ==
    LET add(parts, w) ==
          LET who == AssignSpeakerToWord(w, turns)
          IN  IF parts # <<>> /\ Last(parts).who = who
              THEN Append(Front(parts), [Last(parts) EXCEPT !.e = w.e, !.words = Append(@, w)])
              ELSE Append(parts, [s |-> w.s, e |-> w.e, who |-> who,
                                  words |-> <<w>>, tokens |-> <<>>])
        forward(w) == w.e >= w.s
    IN  FoldLeft(add, <<>>, SelectSeq(SortedByTime(words), forward))

\* Part b goes into part a on its left, or a into b.
Joined(a, b, left) ==
    [(IF left THEN a ELSE b) EXCEPT !.words = a.words \o b.words,
        !.s = IF left THEN a.s ELSE Smaller(a.s, b.s),
        !.e = IF left THEN Larger(a.e, b.e) ELSE b.e]

\* One part with too few words goes into the neighbour with more of them.
MergeOneShort(parts) ==
    LET count(i) == Len(parts[i].words)
        short == {i \in DOMAIN parts : count(i) < MinWords}
        i == Least(short)
        into == IF i = 1 THEN 2
                ELSE IF i = Len(parts) THEN i - 1
                ELSE IF count(i - 1) >= count(i + 1) THEN i - 1 ELSE i + 1
        both == Joined(parts[Smaller(i, into)], parts[Larger(i, into)], into < i)
    IN  IF short = {} \/ Len(parts) <= 1 THEN parts
        ELSE RemoveAt(ReplaceAt(parts, into, both), i)

\* Mutant: short parts are kept.
KeepShortSplits(parts) == parts

MergeShortSplits(parts) ==
    LET again(ps, n) == MergeOneShort(ps) IN FoldLeft(again, parts, [n \in DOMAIN parts |-> n])

\* Tokens go to the window that holds the middle of their share of the time.
SplitTextAcrossWindows(seg, windows) ==
    LET n == Len(seg.tokens)
        past(k, w) == (2 * k - 1) * (seg.e - seg.s) >= 2 * n * (windows[w].e - seg.s)
        home(k) == Least({w \in DOMAIN windows : w = Len(windows) \/ ~past(k, w)})
        mine(w) == SetToSortSeq({k \in 1..n : home(k) = w}, <)
    IN  [w \in DOMAIN windows |-> [m \in DOMAIN mine(w) |-> seg.tokens[mine(w)[m]]]]

SplitSegment(seg, turns) ==
    LET whole(who) == <<[s |-> seg.s, e |-> seg.e, who |-> who,
                         words |-> seg.words, tokens |-> seg.tokens]>>
        windows == BuildSpeakerWindows(seg, turns)
        byWords == SplitWordsBySpeaker(seg.words, turns)
        known == [w \in DOMAIN windows |->
                    [windows[w] EXCEPT !.who = IF @ # Nobody THEN @ ELSE
                        FindNearestTurnSpeaker(windows[w].s + windows[w].e, turns)]]
        resolved == FoldLeft(Widen, <<>>, known)
        texts == SplitTextAcrossWindows(seg, resolved)
    IN  IF turns = <<>> THEN whole(Nobody)
        ELSE IF windows = <<>> THEN whole(FindSpeakerByOverlap(seg, turns))
        ELSE IF Len(windows) = 1 THEN whole(windows[1].who)
        ELSE IF byWords # <<>> THEN MergeShortSplits(byWords)
        ELSE [w \in DOMAIN resolved |->
                [s |-> resolved[w].s, e |-> resolved[w].e, who |-> resolved[w].who,
                 words |-> <<>>, tokens |-> texts[w]]]

BuildMergedSegments(segs, turns) ==
    FlattenSeq([i \in DOMAIN segs |-> SplitSegment(segs[i], turns)])

-----------------------------------------------------------------------------
(* Speech that prepare heard and nobody transcribed. *)

Padded(segs) == SortedByTime([i \in DOMAIN segs |->
                    [s |-> Larger(0, segs[i].s - Tolerance), e |-> segs[i].e + Tolerance]])

ComputeMissedSpeech(regions, segs) ==
    LET join(done, c) == IF done # <<>> /\ c.s <= Last(done).e
                         THEN Append(Front(done), [Last(done) EXCEPT !.e = Larger(@, c.e)])
                         ELSE Append(done, c)
        covered == FoldLeft(join, <<>>, Padded(segs))
        pass(r, a, c) ==
          IF c.e <= a.at \/ c.s >= r.e THEN a
          ELSE [at |-> Larger(a.at, Smaller(c.e, r.e)),
                missed |-> IF c.s - a.at >= MinMissed
                           THEN Append(a.missed, [s |-> a.at, e |-> Smaller(c.s, r.e)])
                           ELSE a.missed]
        missedIn(r) ==
          LET step(a, c) == pass(r, a, c)
              a == FoldLeft(step, [at |-> r.s, missed |-> <<>>], covered)
          IN  IF r.e - a.at >= MinMissed THEN Append(a.missed, [s |-> a.at, e |-> r.e])
              ELSE a.missed
    IN  FlattenSeq([i \in DOMAIN regions |-> missedIn(regions[i])])

-----------------------------------------------------------------------------
(* Diarisation in chunks that overlap. *)

ComputeChunkBoundaries(duration) ==
    LET step == MaxChunk - Shared
        next(done, k) ==
          LET start == k * step
              end == Smaller(start + MaxChunk, duration)
              left == duration - (start + step)
              extend == /\ end < duration /\ 0 < left /\ left < MinChunk
                        /\ duration - start <= MaxChunk + MinChunk
          IN  IF done # <<>> /\ Last(done).e >= duration THEN done
              ELSE Append(done, [s |-> start, e |-> IF extend THEN duration ELSE end])
    IN  IF duration <= MaxChunk THEN <<[s |-> 0, e |-> duration]>>
        ELSE FoldLeft(next, <<>>, [k \in 1..duration |-> k - 1])

\* What the diariser makes of a chunk: the turns, cut at the chunk's ends.
Heard(turns, chunk) ==
    LET hit == SelectSeq(turns, LAMBDA t : Overlap(t, chunk) > 0)
    IN  [i \in DOMAIN hit |-> [hit[i] EXCEPT !.s = Larger(@, chunk.s), !.e = Smaller(@, chunk.e)]]

\* chunks: the ones that succeeded.  The result has times twice as large,
\* since a seam is the midpoint of an overlap.
ResolveOverlaps(chunks, turns) ==
    LET n == Len(chunks)
        seam(i) == chunks[i + 1].s + Smaller(chunks[i].e, chunks[i + 1].s + Shared)
        from(i) == IF i > 1 THEN seam(i - 1) ELSE 2 * chunks[i].s
        to(i)   == IF i < n THEN seam(i) ELSE 2 * chunks[i].e
        mine(i, t) == from(i) <= t.s + t.e /\ t.s + t.e <= to(i)
        trim(i, t) == [t EXCEPT !.s = Larger(2 * t.s, from(i)), !.e = Smaller(2 * t.e, to(i))]
        kept(i) == LET own == SelectSeq(Heard(turns, chunks[i]), LAMBDA t : mine(i, t))
                       cut == [k \in DOMAIN own |-> trim(i, own[k])]
                   IN  SelectSeq(cut, LAMBDA t : t.e > t.s)
        all(i) == LET h == Heard(turns, chunks[i])
                  IN  [k \in DOMAIN h |-> [h[k] EXCEPT !.s = 2 * @, !.e = 2 * @]]
    IN  IF n = 1 THEN all(1) ELSE FlattenSeq([i \in 1..n |-> kept(i)])

MergeChunks(chunks, turns) == SortedByTime(ResolveOverlaps(chunks, turns))

SweepEvent(a, ev) ==
    LET dt == Larger(0, ev.s - a.last)
    IN  [last |-> ev.s, active |-> a.active + ev.e,
         both |-> a.both + IF a.active >= 2 THEN dt ELSE 0,
         speech |-> a.speech + IF a.active >= 1 THEN dt ELSE 0]

\* overlap_stats_from_turns: a sweep over the starts and ends.
OverlapStats(turns) ==
    LET events == [i \in DOMAIN turns |-> [s |-> turns[i].s, e |-> 1]]
                    \o [i \in DOMAIN turns |-> [s |-> turns[i].e, e |-> -1]]
    IN  FoldLeft(SweepEvent, [last |-> 0, active |-> 0, both |-> 0, speech |-> 0],
                 SortedByTime(events))

-----------------------------------------------------------------------------
(* The three ways a document comes about. *)

DocInit(s) == doc \in s.docs

\* _select_segments: the aligner's segments, or the transcriber's when the
\* aligner is not there or gave up; and whether words have times.
SelectSegments(d) ==
    CASE d.align = "done"    -> [segs |-> d.aligned, timed |-> TRUE]
      [] d.align = "skipped" -> [segs |-> d.segs, timed |-> FALSE]
      [] d.align = "none"    -> [segs |-> d.segs,
                                 timed |-> \E i \in DOMAIN d.segs : d.segs[i].words # <<>>]

\* Times of words are given only when they are known to be right.
Present(parts, timed) ==
    [i \in DOMAIN parts |-> [parts[i] EXCEPT !.words = IF timed THEN @ ELSE <<>>]]

\* assemble_transcript.
AssembleTranscript ==
    LET source == SelectSegments(doc)
        turns == IF doc.diarised THEN SmoothTurns(doc.turns) ELSE <<>>
        parts == BuildMergedSegments(source.segs, turns)
    IN  /\ doc.kind = "linear" /\ doc.at = "todo"
        /\ doc' = [doc EXCEPT !.at = "done", !.out = Present(parts, source.timed),
                              !.smooth = turns,
                              !.missed = ComputeMissedSpeech(doc.regions, parts)]

InOrderOfStart(segs) == StableSort(segs, ByStart)

\* assemble_per_channel_transcript: a channel is a speaker, segments are put
\* in order of their start.  Every channel must have been transcribed.
AssemblePerChannel ==
    LET mine(c) == LET source == SelectSegments(doc.channels[c])
                       tag(g) == [s |-> g.s, e |-> g.e, who |-> c,
                                  words |-> IF source.timed THEN g.words ELSE <<>>,
                                  tokens |-> g.tokens]
                   IN  [i \in DOMAIN source.segs |-> tag(source.segs[i])]
        all == FlattenSeq([c \in DOMAIN doc.channels |-> mine(c)])
        missing == \E c \in DOMAIN doc.channels : doc.channels[c] = Nobody
    IN  /\ doc.kind = "channels" /\ doc.at = "todo"
        /\ doc' = IF missing THEN [doc EXCEPT !.at = "failed"]
                  ELSE [doc EXCEPT !.at = "done", !.out = InOrderOfStart(all)]

\* run_chunked_diarization: a chunk that fails is left out.
DiarizeChunk(ok) ==
    LET chunks == ComputeChunkBoundaries(doc.duration)
    IN  /\ doc.kind = "chunks" /\ doc.at = "todo"
        /\ doc.next <= Len(chunks)
        /\ ok \/ doc.faults > 0
        /\ doc' = [doc EXCEPT !.next = @ + 1,
                              !.chunks = IF ok THEN Append(@, chunks[doc.next]) ELSE @,
                              !.faults = IF ok THEN @ ELSE @ - 1]

FinishChunks ==
    /\ doc.kind = "chunks" /\ doc.at = "todo"
    /\ doc.next > Len(ComputeChunkBoundaries(doc.duration))
    /\ doc' = IF doc.chunks = <<>> THEN [doc EXCEPT !.at = "failed"]
              ELSE LET turns == MergeChunks(doc.chunks, doc.turns)
                   IN  [doc EXCEPT !.at = "done", !.out = turns, !.stats = OverlapStats(turns)]

DocNext == \/ AssembleTranscript \/ AssemblePerChannel \/ FinishChunks
           \/ \E ok \in BOOLEAN : DiarizeChunk(ok)

-----------------------------------------------------------------------------
Linear   == doc.kind = "linear" /\ doc.at = "done"
Interleaved == doc.kind = "channels" /\ doc.at = "done"
Diarized == doc.kind = "chunks" /\ doc.at = "done"

AllWords(parts)  == FlattenSeq([i \in DOMAIN parts |-> parts[i].words])
AllTokens(parts) == FlattenSeq([i \in DOMAIN parts |-> parts[i].tokens])
WordIds(words) == {words[i].id : i \in DOMAIN words}
Touches(turns, span) == \E i \in DOMAIN turns : Overlap(turns[i], span) > 0
\* The unit of time that begins at x.
Unit(x) == [s |-> x, e |-> x + 1]
Ticks(spans) == UNION {spans[i].s .. (spans[i].e - 1) : i \in DOMAIN spans}

\* Splitting segments at the speakers' turns neither loses nor doubles a word
\* that ends after it begins; without words it keeps the text, in order.
NothingUnsaid ==
    Linear =>
      LET source == SelectSegments(doc)
          words  == AllWords(source.segs)
          said   == AllWords(doc.out)
          plain(g) == g.words = <<>>
      IN  /\ source.timed => /\ {w \in ToSet(words) : w.e >= w.s} \subseteq ToSet(said)
                             /\ ToSet(said) \subseteq ToSet(words)
                             /\ Len(said) = Cardinality(WordIds(said))
          /\ words = <<>> => AllTokens(doc.out) = AllTokens(source.segs)

\* In a document with speakers every part has one, unless nobody was heard
\* while it was spoken; and a part of too few words is all of its segment.
EveryPartSpoken ==
    Linear /\ doc.smooth # <<>> =>
      LET source == SelectSegments(doc)
          forward(words) == {w \in ToSet(words) : w.e >= w.s}
      IN  \A i \in DOMAIN doc.out :
            /\ doc.out[i].who = Nobody => ~Touches(doc.smooth, doc.out[i])
            /\ (source.timed /\ Len(doc.out[i].words) \in 1..(MinWords - 1)) =>
                 \E g \in DOMAIN source.segs :
                    /\ ToSet(doc.out[i].words) \subseteq ToSet(source.segs[g].words)
                    /\ forward(source.segs[g].words) \subseteq ToSet(doc.out[i].words)

\* Parts are in the order of time and hold their words, if the segments are
\* and do, and words do not overlap.
PartsInOrder ==
    Linear =>
      LET segs  == SelectSegments(doc).segs
          apart(seq) == \A i, j \in DOMAIN seq : i < j => seq[i].e <= seq[j].s
          holding(seq) == \A i \in DOMAIN seq : \A w \in ToSet(seq[i].words) :
                             seq[i].s <= w.s /\ w.e <= seq[i].e
      IN  (apart(segs) /\ holding(segs) /\ apart(AllWords(segs))) =>
            apart(doc.out) /\ holding(doc.out)

\* Smoothing leaves no time without a speaker that had one, invents no
\* speaker, and leaves no turn too short but the only one.
SmoothingSound ==
    Linear /\ doc.diarised =>
      /\ Ticks(doc.turns) \subseteq Ticks(doc.smooth)
      /\ \A i \in DOMAIN doc.smooth :
            /\ \E j \in DOMAIN doc.turns : doc.turns[j].who = doc.smooth[i].who
            /\ Length(doc.smooth[i]) < MinTurn => Len(doc.smooth) = 1

\* Speech is reported as missed only where no segment is near, and all of it
\* is but gaps too short to matter.
MissedExact ==
    Linear =>
      LET near(x) == \E i \in DOMAIN doc.out : doc.out[i].s - Tolerance <= x
                                               /\ x < doc.out[i].e + Tolerance
          lost == {x \in Ticks(doc.regions) : ~near(x)}
          isolated(x) == \A k \in (x - MinMissed + 1)..x :
                            ~(k..(k + MinMissed - 1) \subseteq lost)
      IN  /\ Ticks(doc.missed) \subseteq lost
          /\ \A x \in lost : x \in Ticks(doc.missed) \/ isolated(x)

\* Channels are interleaved: nothing is lost, and a channel keeps its order.
ChannelsWhole ==
    Interleaved =>
      /\ \A i \in 1..(Len(doc.out) - 1) : doc.out[i].s <= doc.out[i + 1].s
      /\ \A c \in DOMAIN doc.channels :
            LET source == SelectSegments(doc.channels[c])
                out == SelectSeq(doc.out, LAMBDA p : p.who = c)
            IN  /\ Len(out) = Len(source.segs)
                /\ AllTokens(out) = AllTokens(source.segs)
                /\ source.timed => AllWords(out) = AllWords(source.segs)

\* A recording diarised in chunks: nobody speaks twice at the same time
\* because two chunks heard it, and only what was said in a chunk that failed
\* or where two chunks overlap can be lost.
ChunksMeet ==
    Diarized =>
      LET chunks == ComputeChunkBoundaries(doc.duration)
          at(turns, who, x) == {i \in DOMAIN turns : turns[i].who = who /\ Overlap(turns[i], Unit(x)) > 0}
          double == [i \in DOMAIN doc.turns |-> [doc.turns[i] EXCEPT !.s = 2 * @, !.e = 2 * @]]
          heard(x) == {i \in DOMAIN doc.chunks : 2 * doc.chunks[i].s <= x /\ x < 2 * doc.chunks[i].e}
      IN  /\ Ticks(chunks) = 0..(doc.duration - 1)
          /\ \A x \in 0..(2 * doc.duration - 1), i \in DOMAIN doc.turns :
                LET who == doc.turns[i].who
                    now == Cardinality(at(doc.out, who, x))
                    was == Cardinality(at(double, who, x))
                IN  /\ now <= was
                    /\ Cardinality(heard(x)) = 1 => now = was

\* The overlap that the sweep adds up is the time with two or more turns.
OverlapExact ==
    Diarized =>
      LET busy(x) == Cardinality({i \in DOMAIN doc.out : Overlap(doc.out[i], Unit(x)) > 0})
          time == 0..(2 * doc.duration - 1)
      IN  /\ doc.stats.both = Cardinality({x \in time : busy(x) >= 2})
          /\ doc.stats.speech = Cardinality({x \in time : busy(x) >= 1})

\* A transcript put together from words, turns, channels and chunks has what
\* was said, once, in order, and says who said it.
TranscriptInv ==
    /\ NothingUnsaid /\ EveryPartSpoken /\ PartsInOrder /\ SmoothingSound
    /\ MissedExact /\ ChannelsWhole /\ ChunksMeet /\ OverlapExact

=============================================================================
