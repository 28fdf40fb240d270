-------------------------- MODULE RealtimeSession --------------------------
(***************************************************************************)
(* One realtime session in a worker: SessionHandler with its audio buffer,  *)
(* the voice activity detector (vad.py), the transcript assembler           *)
(* (assembler.py), the storage adapter (context.py) and, for engines that   *)
(* decode a stream, the decoder thread behind a bounded queue.              *)
(*                                                                          *)
(* Three tasks share the handler's state: the one that takes the client's   *)
(* messages in turn, the lag monitor, and the loop that collects the        *)
(* decoder's words.  They interleave where the code awaits.                 *)
(*                                                                          *)
(* Audio is counted in half chunks; a whole chunk gets its position in the  *)
(* stream as its name, and a transcript is the sequence of its chunks.  Lag *)
(* is counted in quarters of a chunk.                                       *)
(***************************************************************************)
EXTENDS Integers, Sequences, FiniteSets, SequencesExt

CONSTANTS
    Modes,        \* of "vad", "timed" and "stream"
    Rates,        \* quarters that a half chunk from the client is counted as
    Pads,         \* lookback lengths that the client may ask for, in chunks
    MinSpeech, MinSilence, MaxUtterance, \* endpointing, in chunks
    HardLag,      \* lag_hard_seconds, in quarters of a chunk
    QueueSize,    \* of the decoder's queue
    MaxMessage,   \* bound on the half chunks of a message
    MaxAudio,     \* bound on the half chunks of the session
    MaxMishaps     \* bound on decoder failures and exceptions

ASSUME SessionAssumption ==
    /\ Modes \subseteq {"vad", "timed", "stream"} /\ Modes # {}
    /\ Rates \subseteq Nat /\ Pads \subseteq Nat \ {0} /\ Pads # {}
    /\ {MinSpeech, MinSilence, MaxUtterance, QueueSize} \subseteq Nat \ {0}
    /\ HardLag \in Nat /\ HardLag > 2
    /\ {MaxMessage, MaxAudio, MaxMishaps} \subseteq Nat

VARIABLES
    mode, rate,  \* of the session
    at,          \* where the handler is
    job,         \* the chunks it is having transcribed or is sending
    then,        \* what it does afterwards
    buf,         \* half chunks in the audio buffer
    taken,       \* chunks taken out of it
    heard,       \* half chunks received
    lag,         \* received - processed - discarded
    hard,        \* the hard threshold was crossed before
    vad,         \* the detector
    acc,         \* chunks collected without a detector
    queue, dec, parts, \* the decoder's queue, its state, the words collected
    ended, closing, monitored, \* _ended, _close_requested, the lag monitor runs
    finals,      \* the assembler's segments
    ends, terms, \* session.end and session.terminated messages sent
    store, saved, \* the storage adapter, and the segments it was given
    due, lost, raced, \* ghosts: chunks with text to come, dropped for a reason,
                      \* and words collected while a final was being sent
    mishaps

audio   == <<buf, taken, heard, lag>>
decoder == <<queue, dec, parts>>
fate    == <<due, lost, raced>>
flags   == <<hard, ended, terms>>
sessionVars == <<mode, rate, at, job, then, audio, flags, vad, acc, decoder, closing, monitored,
          finals, ends, store, saved, fate, mishaps>>

Sentinel == 0

\* The detector's state after _reset_speech_state: the lookback buffer stays.
Quiet(v) == [v EXCEPT !.speaking = FALSE, !.speech = <<>>, !.spoken = 0, !.silent = 0]

SessionInit ==
    /\ mode \in Modes /\ rate \in Rates
    /\ at = "recv" /\ job = <<>> /\ then = "recv"
    /\ buf = 0 /\ taken = 0 /\ heard = 0 /\ lag = 0 /\ hard = FALSE
    /\ \E p \in Pads :
         vad = [speaking |-> FALSE, speech |-> <<>>, spoken |-> 0, silent |-> 0, look |-> <<>>, pad |-> p]
    /\ acc = <<>> /\ queue = <<>> /\ parts = <<>>
    /\ dec = IF mode = "stream" THEN "run" ELSE "off"
    /\ ended = FALSE /\ closing = FALSE /\ monitored = TRUE
    /\ finals = <<>> /\ ends = 0 /\ terms = 0
    /\ store \in {"off", "open", "broken"} /\ saved = <<>>
    /\ due = {} /\ lost = {} /\ raced = {} /\ mishaps = 0

-----------------------------------------------------------------------------
(* The lag budget *)

\* _evaluate_lag_budget: the hard threshold must be exceeded twice, a grace period apart.
EvaluateLag(l) ==
    \/ ended /\ UNCHANGED flags
    \/ ~ended /\ l < HardLag /\ hard' = FALSE /\ UNCHANGED <<ended, terms>>
    \/ ~ended /\ l >= HardLag /\ hard' = TRUE /\ UNCHANGED <<ended, terms>>
    \/ ~ended /\ l >= HardLag /\ hard /\ ended' = TRUE /\ terms' = terms + 1 /\ UNCHANGED hard

LagTick ==
    /\ monitored /\ EvaluateLag(lag)
    /\ UNCHANGED <<mode, rate, at, job, then, audio, vad, acc, decoder, closing, monitored,
                   finals, ends, store, saved, fate, mishaps>>

\* A chunk was processed; the handler goes on with the buffer.
Processed == lag' = lag - 4 /\ EvaluateLag(lag - 4) /\ at' = "chunks"

\* What is left of the buffer is less than a chunk, too short for a transcription.
DiscardTail ==
    /\ buf' = 0 /\ lag' = lag - 2 * buf /\ EvaluateLag(lag - 2 * buf)
    /\ at' = "recv" /\ UNCHANGED <<taken, heard>>

-----------------------------------------------------------------------------
(* Audio *)

\* _handle_audio: a message of n half chunks.
Audio(n) ==
    /\ at = "recv" /\ ~ended /\ ~closing /\ heard + n <= MaxAudio
    /\ buf' = buf + n /\ heard' = heard + n
    /\ lag' = lag + n * rate /\ EvaluateLag(lag + n * rate)
    /\ at' = "chunks"
    /\ UNCHANGED <<mode, rate, job, then, taken, vad, acc, decoder, closing, monitored,
                   finals, ends, store, saved, fate, mishaps>>

\* Mutant: a session that has ended waits for its buffer to be empty.
ChunksDoneLate ==
    /\ at = "chunks" /\ buf < 2 /\ at' = "recv"
    /\ UNCHANGED <<mode, rate, job, then, audio, flags, vad, acc, decoder, closing, monitored,
                   finals, ends, store, saved, fate, mishaps>>

ChunksDone ==
    /\ at = "chunks" /\ (ended \/ buf < 2) /\ at' = "recv"
    /\ UNCHANGED <<mode, rate, job, then, audio, flags, vad, acc, decoder, closing, monitored,
                   finals, ends, store, saved, fate, mishaps>>

Chunk == taken + 1
Take  == buf' = buf - 2 /\ taken' = Chunk /\ heard' = heard

\* The lookback buffer drops one chunk at most, even when it was made shorter.
Looked(c) ==
    LET l == Append(vad.look, c) IN IF Len(l) > vad.pad THEN Tail(l) ELSE l

\* process_chunk, up to the test for an endpoint.
Detect(c, voice) ==
    IF vad.speaking
    THEN [vad EXCEPT !.speech = Append(@, c), !.look = Looked(c),
                     !.spoken = IF voice THEN @ + 1 ELSE @, !.silent = IF voice THEN 0 ELSE @ + 1]
    ELSE IF voice
    THEN [vad EXCEPT !.speaking = TRUE, !.speech = Looked(c), !.look = Looked(c), !.spoken = 1, !.silent = 0]
    ELSE [vad EXCEPT !.look = Looked(c)]

Endpoint(v) == v.speaking /\ v.silent >= MinSilence
TooLong(v)  == v.speaking /\ ~Endpoint(v) /\ Len(v.speech) >= MaxUtterance

Transcribe(s, k) == at' = "asr" /\ job' = s /\ then' = k

\* force_endpoint: the detector stays in the speech state.
Forced(v) == [v EXCEPT !.speech = <<>>, !.spoken = 0, !.silent = 0]

Heard(voice) == due' = IF voice THEN due \cup {Chunk} ELSE due

\* _process_chunk with a detector: nothing ends ...
ChunkContinues(voice) ==
    LET v == Detect(Chunk, voice) IN
    /\ at = "chunks" /\ ~ended /\ buf >= 2 /\ mode = "vad"
    /\ ~Endpoint(v) /\ ~TooLong(v)
    /\ Take /\ vad' = v /\ Heard(voice)
    /\ Processed
    /\ UNCHANGED <<mode, rate, job, then, acc, decoder, closing, monitored, finals, ends,
                   store, saved, lost, raced, mishaps>>

\* ... or an utterance ends, of itself or because it is too long.
ChunkEnds(voice) ==
    LET v == Detect(Chunk, voice) IN
    /\ at = "chunks" /\ ~ended /\ buf >= 2 /\ mode = "vad"
    /\ Take /\ Heard(voice)
    /\ \/ /\ Endpoint(v) /\ v.spoken >= MinSpeech
          /\ Transcribe(v.speech, "chunk") /\ vad' = Quiet(v) /\ UNCHANGED <<lag, flags, lost>>
       \/ /\ Endpoint(v) /\ v.spoken < MinSpeech
          /\ lost' = lost \cup ToSet(v.speech) /\ vad' = Quiet(v)
          /\ Processed /\ UNCHANGED <<job, then>>
       \/ /\ TooLong(v)
          /\ Transcribe(v.speech, "chunk") /\ vad' = Forced(v) /\ UNCHANGED <<lag, flags, lost>>
    /\ UNCHANGED <<mode, rate, acc, decoder, closing, monitored, finals, ends, store, saved, raced, mishaps>>

\* _process_chunk_no_vad: the audio is transcribed when enough has been collected.
ChunkCollected ==
    /\ at = "chunks" /\ ~ended /\ buf >= 2 /\ mode = "timed"
    /\ Take /\ Heard(TRUE) /\ acc' = Append(acc, Chunk)
    /\ IF Len(acc') >= MaxUtterance
       THEN Transcribe(acc', "timed") /\ UNCHANGED <<lag, flags>>
       ELSE Processed /\ UNCHANGED <<job, then>>
    /\ UNCHANGED <<mode, rate, vad, decoder, closing, monitored, finals, ends, store, saved,
                   lost, raced, mishaps>>

\* _process_chunk_streaming: the chunk goes to the decoder's queue, when there is room.
ChunkToQueue ==
    /\ at = "chunks" /\ ~ended /\ buf >= 2 /\ mode = "stream"
    /\ Take /\ at' = "put" /\ job' = <<Chunk>>
    /\ UNCHANGED <<mode, rate, then, lag, flags, vad, acc, decoder, closing, monitored, finals,
                   ends, store, saved, fate, mishaps>>

-----------------------------------------------------------------------------
(* Streaming *)

\* After the final was sent the words are reset: those that came meanwhile as well.
FinalSent ==
    /\ parts' = <<>> /\ raced' = raced \cup ToSet(SubSeq(parts, Len(job) + 1, Len(parts)))

\* _flush_streaming_final: the assembler gets the words, and they are sent.
FlushFinal(k) ==
    /\ parts # <<>> /\ finals' = Append(finals, parts)
    /\ at' = "final" /\ job' = parts /\ then' = k

\* The chunk is in the queue; the detector only tells when an utterance is over.
Put(voice) ==
    LET v == Detect(Head(job), voice) IN
    /\ at = "put" /\ Len(queue) < QueueSize
    /\ queue' = Append(queue, Head(job))
    /\ vad' = IF Endpoint(v) THEN Quiet(v) ELSE v
    /\ IF Endpoint(v) /\ parts # <<>>
       THEN FlushFinal("chunk") /\ UNCHANGED <<lag, flags>>
       ELSE /\ Processed
            /\ UNCHANGED <<job, then, finals>>
    /\ UNCHANGED <<mode, rate, buf, taken, heard, acc, dec, parts, closing, monitored, ends, store,
                   saved, fate, mishaps>>

\* The final has been sent.
Sent ==
    /\ at = "final" /\ FinalSent /\ job' = <<>>
    /\ \/ then = "chunk" /\ Processed /\ UNCHANGED <<buf, taken, heard>>
       \/ then = "flush" /\ DiscardTail
    /\ UNCHANGED <<mode, rate, then, vad, acc, queue, dec, closing, monitored, finals, ends,
                   store, saved, due, lost, mishaps>>

\* The decoder takes a chunk and yields a word, or not.  Once the session has ended the
\* collecting loop stops at the next word and only the thread goes on.
Decode ==
    /\ dec \in {"run", "mute"} /\ queue # <<>> /\ Head(queue) # Sentinel
    /\ queue' = Tail(queue)
    /\ \/ UNCHANGED <<parts, due, dec>>
       \/ dec = "run" /\ ~ended /\ parts' = Append(parts, Head(queue)) /\ due' = due \cup {Head(queue)}
          /\ UNCHANGED dec
       \/ dec = "run" /\ ended /\ dec' = "mute" /\ UNCHANGED <<parts, due>>
    /\ UNCHANGED <<mode, rate, at, job, then, audio, flags, vad, acc, closing, monitored,
                   finals, ends, store, saved, lost, raced, mishaps>>

DecoderEnds ==
    /\ dec \in {"run", "mute"} /\ queue # <<>> /\ Head(queue) = Sentinel
    /\ queue' = Tail(queue) /\ dec' = "done"
    /\ UNCHANGED <<mode, rate, at, job, then, audio, flags, vad, acc, parts, closing, monitored,
                   finals, ends, store, saved, fate, mishaps>>

\* No audio for ten seconds: the thread gives up, but the get it has begun takes one more.
DecoderGivesUp ==
    /\ dec = "run" /\ queue = <<>> /\ at \in {"recv", "asr"} /\ mishaps < MaxMishaps
    /\ dec' = "stale" /\ mishaps' = mishaps + 1
    /\ UNCHANGED <<mode, rate, at, job, then, audio, flags, vad, acc, queue, parts, closing,
                   monitored, finals, ends, store, saved, fate>>

StaleGet ==
    /\ dec = "stale" /\ queue # <<>> /\ queue' = Tail(queue) /\ dec' = "dead"
    /\ UNCHANGED <<mode, rate, at, job, then, audio, flags, vad, acc, parts, closing, monitored,
                   finals, ends, store, saved, fate, mishaps>>

-----------------------------------------------------------------------------
(* Control messages *)

\* VADProcessor.flush returns the utterance, unless it is too short.
Remaining == IF vad.speaking /\ vad.spoken >= MinSpeech THEN vad.speech ELSE <<>>

Flush ==
    /\ at = "recv" /\ ~ended /\ ~closing
    /\ vad' = Quiet(vad)
    /\ \/ /\ mode = "vad" /\ Remaining # <<>> /\ Transcribe(Remaining, "flush")
          /\ UNCHANGED <<audio, flags, finals, lost>>
       \/ /\ mode = "stream" /\ FlushFinal("flush")
          /\ UNCHANGED <<audio, flags, lost>>
       \/ /\ (mode = "vad" => Remaining = <<>>) /\ (mode = "stream" => parts = <<>>)
          /\ lost' = lost \cup ToSet(vad.speech) /\ DiscardTail
          /\ UNCHANGED <<job, then, finals>>
    /\ UNCHANGED <<mode, rate, acc, decoder, closing, monitored, ends, store, saved, due, raced, mishaps>>

\* input_audio_buffer.clear.  The decoder's queue and the lookback buffer are left.
Clear ==
    /\ at = "recv" /\ ~ended /\ ~closing
    /\ lost' = lost \cup ToSet(vad.speech) \cup ToSet(acc) \cup ToSet(parts)
    /\ vad' = Quiet(vad) /\ acc' = <<>> /\ parts' = <<>>
    /\ DiscardTail
    /\ UNCHANGED <<mode, rate, job, then, queue, dec, closing, monitored, finals, ends, store,
                   saved, due, raced, mishaps>>

\* config changes the lookback length.
Config(p) ==
    /\ at = "recv" /\ ~ended /\ ~closing /\ p # vad.pad
    /\ vad' = [vad EXCEPT !.pad = p] /\ EvaluateLag(lag)
    /\ UNCHANGED <<mode, rate, at, job, then, audio, acc, decoder, closing, monitored, finals,
                   ends, store, saved, fate, mishaps>>

\* _send_session_end begins with what the detector or the collector still holds.
EndSession ==
    LET rest == IF mode = "timed" THEN acc ELSE Remaining IN
    /\ vad' = Quiet(vad)
    /\ IF rest # <<>>
       THEN Transcribe(rest, "end") /\ UNCHANGED lost
       ELSE at' = "bye" /\ lost' = lost \cup ToSet(vad.speech) /\ UNCHANGED <<job, then>>

\* The client's end: with a decoder the handler first drains it.
EndMessage ==
    /\ at = "recv" /\ ~ended /\ ~closing
    /\ IF mode = "stream"
       THEN closing' = TRUE /\ EvaluateLag(lag) /\ UNCHANGED <<at, job, then, vad, lost>>
       ELSE EndSession /\ UNCHANGED <<closing, flags>>
    /\ UNCHANGED <<mode, rate, audio, acc, decoder, monitored, finals, ends, store, saved, due,
                   raced, mishaps>>

Usable == ~ended

\* _transcribe_and_send: the engine's answer, no text, or an error.
Transcribed ==
    /\ at = "asr" /\ job' = <<>>
    /\ \/ Usable /\ finals' = Append(finals, job) /\ UNCHANGED lost
       \/ lost' = lost \cup ToSet(job) /\ UNCHANGED finals
    /\ acc' = IF then \in {"timed", "end"} THEN <<>> ELSE acc
    /\ \/ then \in {"chunk", "timed"} /\ Processed /\ UNCHANGED <<buf, taken, heard>>
       \/ then = "flush" /\ DiscardTail
       \/ then = "end" /\ at' = "bye" /\ UNCHANGED <<audio, flags>>
    /\ UNCHANGED <<mode, rate, then, vad, decoder, closing, monitored, ends, store, saved,
                   due, raced, mishaps>>

-----------------------------------------------------------------------------
(* The end of the session *)

\* _send lets nothing but errors pass after a termination.
EndsSent == IF terms > 0 THEN ends ELSE ends + 1

\* The transcript is saved and the upload completed, or aborted when either fails.
Goodbye ==
    /\ at = "bye" /\ at' = "ending"
    /\ \/ store = "off" /\ UNCHANGED <<store, saved>>
       \/ store = "open" /\ store' = "saved" /\ saved' = finals
       \/ store \in {"open", "broken"} /\ store' = "gone" /\ UNCHANGED saved
    /\ ends' = EndsSent
    /\ UNCHANGED <<mode, rate, job, then, audio, flags, vad, acc, decoder, closing, monitored,
                   finals, fate, mishaps>>

Ended ==
    /\ at = "ending" /\ ended' = TRUE
    /\ at' = IF monitored THEN "recv" ELSE "over"
    /\ UNCHANGED <<mode, rate, job, then, audio, hard, terms, vad, acc, decoder, closing, monitored,
                   finals, ends, store, saved, fate, mishaps>>

\* The loop is left: at the end, when the client is gone, ...
LeaveLoop ==
    /\ at = "recv" /\ at' = "stop"
    /\ UNCHANGED <<mode, rate, job, then, audio, flags, vad, acc, decoder, closing, monitored,
                   finals, ends, store, saved, fate, mishaps>>

\* ... or by an exception of the detector or of the connection.
Raise ==
    /\ at = "chunks" /\ ~ended /\ mishaps < MaxMishaps /\ at' = "stop" /\ mishaps' = mishaps + 1
    /\ UNCHANGED <<mode, rate, job, then, audio, flags, vad, acc, decoder, closing, monitored,
                   finals, ends, store, saved, fate>>

\* _stop_streaming_decode: the sentinel needs room in the queue, ...
StopDecoder ==
    /\ at = "stop" /\ mode = "stream" /\ Len(queue) < QueueSize
    /\ queue' = Append(queue, Sentinel) /\ at' = "wait"
    /\ UNCHANGED <<mode, rate, job, then, audio, flags, vad, acc, dec, parts, closing, monitored,
                   finals, ends, store, saved, fate, mishaps>>

\* Mutant: the words that came after the last endpoint are not flushed.
DrainedUnflushed ==
    /\ \/ at = "stop" /\ mode # "stream" /\ UNCHANGED dec
       \/ at = "wait" /\ dec # "run" /\ UNCHANGED dec
       \/ at = "wait" /\ dec = "run" /\ dec' = "mute"
    /\ parts' = <<>> /\ monitored' = FALSE /\ at' = "last"
    /\ UNCHANGED <<mode, rate, job, then, audio, flags, vad, acc, queue, closing,
                   finals, ends, store, saved, fate, mishaps>>

\* ... and the collecting loop is waited for, a minute at most.  The last words are
\* flushed, the monitor is stopped.
Drained ==
    /\ \/ at = "stop" /\ mode # "stream" /\ UNCHANGED dec
       \/ at = "wait" /\ dec # "run" /\ UNCHANGED dec
       \/ at = "wait" /\ dec = "run" /\ dec' = "mute"
    /\ finals' = IF parts = <<>> THEN finals ELSE Append(finals, parts)
    /\ parts' = <<>> /\ monitored' = FALSE /\ at' = "last"
    /\ UNCHANGED <<mode, rate, job, then, audio, flags, vad, acc, queue, closing,
                   ends, store, saved, fate, mishaps>>

\* _cleanup_storage, after a termination.
Cleanup == IF store \in {"open", "broken"} THEN "gone" ELSE store

FinishSession ==
    /\ at = "last"
    /\ \/ ~ended /\ EndSession /\ UNCHANGED store
       \/ ended /\ at' = "over" /\ store' = Cleanup /\ UNCHANGED <<job, then, vad, lost>>
    /\ UNCHANGED <<mode, rate, audio, flags, acc, decoder, closing, monitored, finals, ends,
                   saved, due, raced, mishaps>>

-----------------------------------------------------------------------------
(* Specification *)

Client ==
    \/ \E n \in 1 .. MaxMessage : Audio(n)
    \/ Flush \/ Clear \/ EndMessage \/ (\E p \in Pads : Config(p))
    \/ (~ended /\ ~closing /\ LeaveLoop)

Handle ==
    \/ \E voice \in BOOLEAN : ChunkContinues(voice) \/ ChunkEnds(voice) \/ Put(voice)
    \/ ChunkCollected \/ ChunkToQueue \/ ChunksDone \/ Sent \/ Transcribed
    \/ Goodbye \/ Ended \/ ((ended \/ closing) /\ LeaveLoop) \/ StopDecoder \/ Drained \/ FinishSession

DecoderStep == Decode \/ DecoderEnds \/ StaleGet

SessionNext == Client \/ Handle \/ DecoderStep \/ DecoderGivesUp \/ Raise \/ LagTick

\* The event loop runs every task that is ready, the engine answers, the decoder decodes.
SessionFairness == WF_sessionVars(Handle) /\ WF_sessionVars(DecoderStep)

SessionSpec     == SessionInit /\ [][SessionNext]_sessionVars
SessionFairSpec == SessionSpec /\ SessionFairness

-----------------------------------------------------------------------------
(* Properties *)

Detectors == [speaking : BOOLEAN, speech : Seq(Nat), spoken : Nat, silent : Nat, look : Seq(Nat), pad : Pads]

\* Counters and buffers are in their ranges; the queue never exceeds its bound and the
\* lookback buffer never the longest length that was asked for.
SessionTypeOK ==
    /\ mode \in Modes /\ rate \in Rates
    /\ at \in {"recv", "chunks", "put", "asr", "final", "bye", "ending", "stop", "wait", "last", "over"}
    /\ then \in {"recv", "chunk", "timed", "flush", "end"}
    /\ buf \in 0 .. MaxMessage + 1 /\ taken \in Nat /\ heard \in 0 .. MaxAudio /\ lag \in Int
    /\ vad \in Detectors
    /\ \E p \in Pads : Len(vad.look) <= p
    /\ {job, acc, queue, parts} \subseteq Seq(Nat) /\ Len(queue) <= QueueSize
    /\ dec \in {"off", "run", "mute", "stale", "dead", "done"}
    /\ {hard, ended, closing, monitored} \subseteq BOOLEAN /\ {ends, terms, mishaps} \subseteq Nat
    /\ {finals, saved} \subseteq Seq(Seq(Nat))
    /\ store \in {"off", "open", "broken", "saved", "gone"}

Chunks(ss) == UNION {ToSet(ss[i]) : i \in DOMAIN ss}

\* Whatever should have become text did, or is held somewhere, or was dropped for a reason
\* (cleared, too short, no text, an error, a session that was over).  The one exception are
\* words that the decoder delivers while a final is being sent.
TextKept ==
    due \subseteq Chunks(finals) \cup lost \cup raced \cup ToSet(vad.speech) \cup ToSet(acc)
                  \cup ToSet(parts) \cup ToSet(job)

\* Segments follow the audio.  A chunk is in two successive segments only as lookback, or
\* because the last utterance of a stream is transcribed once more at the end.
SegmentsInOrder ==
    \A i \in 1 .. Len(finals) - 1 :
        LET s == ToSet(finals[i])
            t == ToSet(finals[i + 1])
            both == Cardinality(s \cap t)
        IN
        IF mode = "stream" THEN (monitored \/ i + 1 < Len(finals)) => both = 0
        ELSE /\ Last(finals[i]) < Last(finals[i + 1])
             /\ both > 0 => mode = "vad" /\ \E p \in Pads : both < p

\* When the client sends at the worker's rate, the lag is the audio that waits in the
\* buffer and the chunk in hand: the budget measures one message, not a backlog.
LagIsBacklog ==
    rate = 2 =>
        lag = 2 * buf + (IF at = "put" \/ (at \in {"asr", "final"} /\ then \in {"chunk", "timed"}) THEN 4 ELSE 0)

\* A client is told once how its session ended: by session.end or by session.terminated.
OneGoodbye == rate = 2 => ends + terms <= 1

\* When the session is over nothing is left of an upload, and a stored transcript is the
\* one that the client got.
StoreSettled ==
    /\ at = "over" => store \in {"off", "saved", "gone"}
    /\ store = "saved" => saved = finals

\* The decoder has given up and its queue is full: the handler waits for room for ever.
Jammed == at \in {"put", "stop"} /\ Len(queue) = QueueSize /\ dec \in {"stale", "dead"}

\* A session that is asked to end, that is terminated or whose client is gone comes to its
\* end and leaves the worker, unless it is jammed.
SessionOver == (ended \/ closing \/ at = "stop") ~> (at = "over" \/ Jammed)

(* Where a session keeps what it has heard, and how far it has come *)

\* The detector holds an utterance only while someone speaks, what is transcribed is all
\* that the mode collects, and only a stream has a decoder and words.
ModeKept ==
    /\ ~vad.speaking => vad.speech = <<>>
    /\ mode = "timed" => ~vad.speaking
    /\ mode # "timed" => acc = <<>>
    /\ mode # "stream" =>
         /\ dec = "off" /\ queue = <<>> /\ parts = <<>> /\ ~closing
         /\ at \notin {"put", "final", "wait"}
    /\ at \in {"put", "asr"} => job # <<>>
    /\ at = "asr" =>
         /\ mode = "vad" => vad.speech = <<>> /\ then \in {"chunk", "flush", "end"}
         /\ mode = "timed" => job = acc /\ then \in {"timed", "end"}
         /\ mode = "stream" => then = "end"
    /\ at = "final" =>
         /\ then \in {"chunk", "flush"} /\ finals # <<>> /\ Last(finals) = job
         /\ Len(job) <= Len(parts) /\ job = SubSeq(parts, 1, Len(job))

\* The lag monitor runs until the last words are flushed, after which the decoder adds
\* none; a session that lives on has less than a chunk in its buffer between messages.
StageKept ==
    /\ at \notin {"asr", "bye", "ending", "last", "over"} \/ (at = "asr" /\ then # "end") => monitored
    /\ at \in {"last", "over"} \/ (mode = "stream" /\ at \in {"asr", "bye", "ending"}) => ~monitored
    /\ ~monitored => parts = <<>> /\ dec # "run"
    /\ at = "recv" \/ (monitored /\ (at \in {"bye", "ending"} \/ (at = "asr" /\ then = "end"))) => ended \/ buf <= 1

\* What should have become text, and is neither sent nor dropped, is where the mode keeps it.
SpeechKept ==
    /\ mode = "vad" =>
         due \subseteq Chunks(finals) \cup lost \cup ToSet(vad.speech) \cup (IF at = "asr" THEN ToSet(job) ELSE {})
    /\ mode = "timed" => due \subseteq Chunks(finals) \cup lost \cup ToSet(acc)
    /\ mode = "stream" => due \subseteq Chunks(finals) \cup lost \cup raced \cup ToSet(parts)

\* Beyond a lookback shorter than some that was asked for, s is later than all of X.
Fresh(s, X) ==
    \E k \in 0 .. Len(s) :
        /\ \E p \in Pads : k < p
        /\ s # <<>> => k < Len(s)
        /\ \A j \in 1 .. Len(s) : j > k => \A x \in X : x < s[j]

\* Nothing is ahead of the audio, and what is held is later than what was sent.
AudioOrder ==
    /\ Chunks(finals) \cup ToSet(vad.speech) \cup ToSet(vad.look) \cup ToSet(acc) \cup ToSet(job)
          \subseteq 0 .. taken
    /\ mode # "stream" => \A i \in 1 .. Len(finals) : finals[i] # <<>>
    /\ mode = "vad" => Fresh(IF at = "asr" THEN job ELSE vad.speech, Chunks(finals))
    /\ mode = "timed" => \A x \in Chunks(finals), y \in ToSet(acc) : x < y

\* The words that were not yet sent.
Unsent == {parts[i] : i \in (IF at = "final" THEN Len(job) + 1 ELSE 1) .. Len(parts)}

\* The chunks in a queue follow one another and all that is in X.
Follows(q, X) ==
    /\ \A x \in X, j \in 1 .. Len(q) : q[j] # Sentinel => x < q[j]
    /\ \A i, j \in 1 .. Len(q) : i < j /\ q[j] # Sentinel => q[i] < q[j]

\* Words follow one another, and the chunks in the queue follow the words.
WordOrder ==
    mode = "stream" /\ monitored =>
        /\ \A x \in Chunks(finals), y \in Unsent : x < y
        /\ Follows(queue, Chunks(finals) \cup ToSet(parts))
        /\ ToSet(parts) \cup ToSet(queue) \subseteq 0 .. taken
        /\ at = "put" =>
             /\ job = <<taken>> /\ taken > 0
             /\ \A x \in Chunks(finals) \cup ToSet(parts) \cup ToSet(queue) : x < taken

\* The last utterance of a stream has not been transcribed once more.
NotRepeated ==
    mode = "stream" /\ at \in {"last", "asr"} =>
        \A i \in 1 .. Len(finals) - 1 : ToSet(finals[i]) \cap ToSet(finals[i + 1]) = {}

\* Each ending is sent once, a session that was terminated or has said goodbye is over ...
EndingKept ==
    /\ ends <= 1 /\ terms <= 1
    /\ terms = 1 => ended
    /\ ends = 1 => ended \/ at = "ending"
    /\ at = "bye" \/ (at = "asr" /\ then = "end") => ends = 0

\* ... and nothing is added to a transcript that was stored.
StoredKept ==
    /\ at = "ending" => store \in {"off", "saved", "gone"}
    /\ store = "saved" =>
         /\ at \in {"ending", "over"} \/ (mode # "stream" /\ at \in {"recv", "stop", "last"})
         /\ at # "ending" => ended

\* Handler, lag monitor and decoder work on one session without losing, doubling or
\* reordering what was said, and leave the client and the store with one ending.
SessionInv ==
    /\ SessionTypeOK /\ TextKept /\ SegmentsInOrder /\ LagIsBacklog /\ OneGoodbye
    /\ StoreSettled
    /\ ModeKept /\ StageKept /\ SpeechKept /\ AudioOrder /\ WordOrder /\ NotRepeated
    /\ EndingKept /\ StoredKept

=============================================================================
