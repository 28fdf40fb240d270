-------------------------- MODULE RealtimeProofs --------------------------
(***************************************************************************)
(* What a realtime session promises, in a worker and in the gateway.        *)
(*                                                                         *)
(* First the session in its worker: the invariant of RealtimeSession, for   *)
(* any endpointing, any bounds of its queue and of its audio, any number of *)
(* mishaps.  Its parts are proved one by one: types, what each mode keeps   *)
(* and where, the lag, the ending, the store, that nothing said is lost,    *)
(* and the order of segments and words.                                     *)
(*                                                                         *)
(* Then the allocation of sessions to workers: the counters, the capacity   *)
(* and that no reservation is given back twice, for any number of workers,  *)
(* sessions and faults.                                                     *)
(***************************************************************************)
EXTENDS SessionAllocator, RealtimeSession, FiniteSetTheorems, SequenceTheorems, TLAPS

(* Sequences of chunks *)

\* What is in a sequence is at one of its positions.
LEMMA Elements ==
    ASSUME NEW S, NEW s \in Seq(S)
    PROVE  /\ \A y : y \in ToSet(s) <=> \E i \in 1 .. Len(s) : s[i] = y
           /\ ToSet(s) \subseteq S /\ (s = <<>> => ToSet(s) = {})
<1>1. DOMAIN s = 1 .. Len(s)
  OBVIOUS
<1>2. \A y : y \in ToSet(s) <=> \E i \in 1 .. Len(s) : s[i] = y
  BY <1>1 DEF ToSet
<1>3. \A i \in 1 .. Len(s) : s[i] \in S
  BY ElementOfSeq
<1>4. s = <<>> => Len(s) = 0
  OBVIOUS
<1> QED BY <1>2, <1>3, <1>4

LEMMA ElementsOfAppend ==
    ASSUME NEW S, NEW s \in Seq(S), NEW x \in S
    PROVE  /\ Append(s, x) \in Seq(S) /\ Append(s, x) # <<>>
           /\ Last(Append(s, x)) = x /\ Len(Append(s, x)) = Len(s) + 1
           /\ ToSet(Append(s, x)) = ToSet(s) \cup {x}
<1>1. /\ Append(s, x) \in Seq(S) /\ Append(s, x) # <<>>
      /\ Len(Append(s, x)) = Len(s) + 1 /\ Append(s, x)[Len(s) + 1] = x
      /\ \A i \in 1 .. Len(s) : Append(s, x)[i] = s[i]
  BY AppendProperties
<1>2. \A y : y \in ToSet(Append(s, x)) <=> \E i \in 1 .. Len(s) + 1 : Append(s, x)[i] = y
  BY <1>1, Elements
<1>3. \A y : y \in ToSet(s) <=> \E i \in 1 .. Len(s) : s[i] = y
  BY Elements
<1>4. Len(s) \in Nat
  OBVIOUS
<1>5. \A y : y \in ToSet(Append(s, x)) <=> y \in ToSet(s) \/ y = x
  BY <1>1, <1>2, <1>3, <1>4
<1> QED BY <1>1, <1>5 DEF Last

LEMMA ElementsOfTail ==
    ASSUME NEW S, NEW s \in Seq(S), s # <<>>
    PROVE  /\ Tail(s) \in Seq(S) /\ Head(s) \in ToSet(s) /\ Head(s) \in S /\ Head(s) = s[1]
           /\ Len(Tail(s)) = Len(s) - 1 /\ \A i \in 1 .. Len(Tail(s)) : Tail(s)[i] = s[i + 1]
           /\ ToSet(Tail(s)) \subseteq ToSet(s)
           /\ Tail(s) # <<>> => Last(Tail(s)) = Last(s)
<1>1. /\ Tail(s) \in Seq(S) /\ Head(s) \in S /\ Head(s) = s[1]
      /\ Len(Tail(s)) = Len(s) - 1 /\ \A i \in 1 .. Len(Tail(s)) : Tail(s)[i] = s[i + 1]
      /\ Len(s) \in Nat \ {0}
  BY HeadTailProperties, EmptySeq
<1>2. Head(s) \in ToSet(s)
  BY <1>1, Elements
<1>3. \A y : y \in ToSet(Tail(s)) => \E i \in 1 .. Len(Tail(s)) : Tail(s)[i] = y
  BY <1>1, Elements
<1>4. \A i \in 1 .. Len(Tail(s)) : s[i + 1] \in ToSet(s)
  BY <1>1, Elements
<1>5. ToSet(Tail(s)) \subseteq ToSet(s)
  BY <1>1, <1>3, <1>4
<1>6. Tail(s) # <<>> => Len(Tail(s)) \in 1 .. Len(Tail(s))
  BY <1>1, EmptySeq
<1>7. Tail(s) # <<>> => Last(Tail(s)) = Last(s)
  BY <1>1, <1>6 DEF Last
<1> QED BY <1>1, <1>2, <1>5, <1>7

\* A segment more.
LEMMA ChunksOfAppend ==
    ASSUME NEW ss \in Seq(Seq(Nat)), NEW s \in Seq(Nat)
    PROVE  /\ Chunks(Append(ss, s)) = Chunks(ss) \cup ToSet(s)
           /\ Append(ss, s) \in Seq(Seq(Nat)) /\ Append(ss, s) # <<>> /\ Last(Append(ss, s)) = s
           /\ Len(Append(ss, s)) = Len(ss) + 1 /\ Append(ss, s)[Len(ss) + 1] = s
           /\ \A i \in 1 .. Len(ss) : Append(ss, s)[i] = ss[i]
<1> DEFINE t == Append(ss, s)
<1>1. /\ t \in Seq(Seq(Nat)) /\ t # <<>> /\ Len(t) = Len(ss) + 1 /\ t[Len(ss) + 1] = s
      /\ \A i \in 1 .. Len(ss) : t[i] = ss[i]
  BY AppendProperties
<1>2. DOMAIN ss = 1 .. Len(ss) /\ DOMAIN t = 1 .. Len(ss) + 1 /\ Len(ss) \in Nat
  BY <1>1
<1> HIDE DEF t
<1>3. ASSUME NEW y PROVE y \in Chunks(t) <=> y \in Chunks(ss) \/ y \in ToSet(s)
  <2>1. y \in Chunks(t) <=> \E i \in 1 .. Len(ss) + 1 : y \in ToSet(t[i])
    BY <1>2 DEF Chunks
  <2>2. y \in Chunks(ss) <=> \E i \in 1 .. Len(ss) : y \in ToSet(ss[i])
    BY <1>2 DEF Chunks
  <2>3. ASSUME NEW i \in 1 .. Len(ss) + 1 PROVE i = Len(ss) + 1 \/ i \in 1 .. Len(ss)
    BY <1>2
  <2>4. Len(ss) + 1 \in 1 .. Len(ss) + 1 /\ \A i \in 1 .. Len(ss) : i \in 1 .. Len(ss) + 1
    BY <1>2
  <2> QED BY <1>1, <2>1, <2>2, <2>3, <2>4
<1>4. Chunks(t) = Chunks(ss) \cup ToSet(s)
  BY <1>3
<1>5. Last(t) = s
  BY <1>1 DEF Last
<1> QED BY <1>1, <1>4, <1>5 DEF t

LEMMA NothingYet == ToSet(<<>>) = {} /\ Chunks(<<>>) = {} /\ <<>> \in Seq(Nat) /\ <<>> \in Seq(Seq(Nat)) /\ Len(<<>>) = 0
<1>1. DOMAIN <<>> = {}
  OBVIOUS
<1> QED BY <1>1 DEF ToSet, Chunks

-----------------------------------------------------------------------------
(* The detector and the lag *)

\* Records of the detector.
LEMMA DetectorIs ==
    ASSUME NEW s \in Seq(Nat), NEW p \in Pads
    PROVE  [speaking |-> TRUE, speech |-> s, spoken |-> 1, silent |-> 0, look |-> s, pad |-> p] \in Detectors
BY DEF Detectors

LEMMA DetectorChanged ==
    ASSUME NEW v \in Detectors, NEW s \in Seq(Nat), NEW n \in Nat
    PROVE  /\ [v EXCEPT !.speaking = FALSE, !.speech = s, !.spoken = n, !.silent = n] \in Detectors
           /\ [v EXCEPT !.speech = s, !.spoken = n, !.silent = n] \in Detectors
BY DEF Detectors

\* The lookback buffer ends with the chunk and is no longer than it was, or than its limit.
LEMMA LookedEffect ==
    ASSUME vad \in Detectors, \E p \in Pads : Len(vad.look) <= p, NEW c \in Nat
    PROVE  /\ Looked(c) \in Seq(Nat) /\ Looked(c) # <<>> /\ Last(Looked(c)) = c
           /\ ToSet(Looked(c)) \subseteq ToSet(vad.look) \cup {c} /\ c \in ToSet(Looked(c))
           /\ \E p \in Pads : Len(Looked(c)) <= p
<1> DEFINE l == Append(vad.look, c)
<1>0. vad.look \in Seq(Nat) /\ vad.pad \in Pads /\ vad.pad \in Nat \ {0} /\ Pads \subseteq Nat \ {0}
  BY SessionAssumption DEF Detectors
<1>1. /\ l \in Seq(Nat) /\ l # <<>> /\ Last(l) = c /\ Len(l) = Len(vad.look) + 1
      /\ ToSet(l) = ToSet(vad.look) \cup {c}
  BY <1>0, ElementsOfAppend
<1>2. Looked(c) = IF Len(l) > vad.pad THEN Tail(l) ELSE l
  BY DEF Looked
<1> HIDE DEF l
<1>3. CASE Len(l) > vad.pad
  <2>0. /\ Tail(l) \in Seq(Nat) /\ Len(Tail(l)) = Len(l) - 1 /\ ToSet(Tail(l)) \subseteq ToSet(l)
        /\ Tail(l) # <<>> => Last(Tail(l)) = Last(l)
    BY <1>1, ElementsOfTail
  <2>a. Len(vad.look) \in Nat
    BY <1>0
  <2>1. /\ Tail(l) \in Seq(Nat) /\ Len(Tail(l)) = Len(vad.look) /\ ToSet(Tail(l)) \subseteq ToSet(l)
        /\ Tail(l) # <<>> => Last(Tail(l)) = c
    BY <2>0, <2>a, <1>1
  <2>2. Len(vad.look) > 0 /\ Tail(l) # <<>>
    BY SMTT(30), <1>0, <1>1, <1>3, <2>1, <2>a, NothingYet
  <2>3. Len(Tail(l)) \in 1 .. Len(Tail(l))
    BY <2>1, <2>2
  <2>4. c \in ToSet(Tail(l))
    BY <2>1, <2>2, <2>3, Elements DEF Last
  <2> QED BY <1>1, <1>2, <1>3, <2>1, <2>2, <2>4
<1>4. CASE ~(Len(l) > vad.pad)
  <2>1. Len(l) <= vad.pad
    BY <1>0, <1>1, <1>4
  <2> QED BY SMTT(30), <1>0, <1>1, <1>2, <1>4, <2>1
<1> QED BY <1>3, <1>4

\* A chunk joins the utterance, begins one with its lookback, or is only remembered.
LEMMA DetectEffect ==
    ASSUME vad \in Detectors, \E p \in Pads : Len(vad.look) <= p, NEW c \in Nat, NEW voice \in BOOLEAN
    PROVE  LET v == Detect(c, voice)
           IN  /\ v \in Detectors /\ v.look = Looked(c) /\ v.pad = vad.pad
               /\ vad.speaking => v.speaking /\ v.speech = Append(vad.speech, c)
               /\ ~vad.speaking /\ voice => v.speaking /\ v.speech = Looked(c)
               /\ ~vad.speaking /\ ~voice => ~v.speaking /\ v.speech = vad.speech
<1> DEFINE v == Detect(c, voice)
<1>0. /\ vad.speaking \in BOOLEAN /\ vad.speech \in Seq(Nat) /\ vad.spoken \in Nat /\ vad.silent \in Nat
      /\ vad.pad \in Pads /\ Looked(c) \in Seq(Nat) /\ Append(vad.speech, c) \in Seq(Nat)
  BY LookedEffect, ElementsOfAppend DEF Detectors
<1>1. CASE vad.speaking
  <2>1. v = [speaking |-> vad.speaking, speech |-> Append(vad.speech, c),
             spoken |-> IF voice THEN vad.spoken + 1 ELSE vad.spoken,
             silent |-> IF voice THEN 0 ELSE vad.silent + 1, look |-> Looked(c), pad |-> vad.pad]
    BY <1>1 DEF Detect, Detectors
  <2> HIDE DEF v
  <2>2. v \in Detectors
    BY <1>0, <2>1 DEF Detectors
  <2> QED BY <1>1, <2>1, <2>2 DEF v
<1>2. CASE ~vad.speaking /\ voice
  <2>1. v = [speaking |-> TRUE, speech |-> Looked(c), spoken |-> 1, silent |-> 0,
             look |-> Looked(c), pad |-> vad.pad]
    BY <1>2 DEF Detect, Detectors
  <2> HIDE DEF v
  <2>3. v \in Detectors
    BY <1>0, <2>1, DetectorIs
  <2>4. v.speaking /\ v.speech = Looked(c) /\ v.look = Looked(c) /\ v.pad = vad.pad
    BY Zenon, <2>1
  <2> QED BY <1>2, <2>3, <2>4 DEF v
<1>3. CASE ~vad.speaking /\ ~voice
  <2>1. v = [speaking |-> vad.speaking, speech |-> vad.speech, spoken |-> vad.spoken,
             silent |-> vad.silent, look |-> Looked(c), pad |-> vad.pad]
    BY <1>3 DEF Detect, Detectors
  <2> HIDE DEF v
  <2>2. v \in Detectors
    BY <1>0, <2>1 DEF Detectors
  <2> QED BY <1>3, <2>1, <2>2 DEF v
<1> QED BY <1>0, <1>1, <1>2, <1>3

\* A detector that is reset, at the end of an utterance or in the middle of one, holds none.
LEMMA ResetEffect ==
    ASSUME NEW v \in Detectors
    PROVE  /\ Quiet(v) \in Detectors /\ Forced(v) \in Detectors
           /\ ~Quiet(v).speaking /\ Forced(v).speaking = v.speaking
           /\ Quiet(v).speech = <<>> /\ Forced(v).speech = <<>>
           /\ Quiet(v).look = v.look /\ Forced(v).look = v.look
<1>1. Quiet(v) \in Detectors /\ Forced(v) \in Detectors
  BY DetectorChanged, NothingYet DEF Quiet, Forced
<1>2. /\ ~Quiet(v).speaking /\ Quiet(v).speech = <<>> /\ Quiet(v).look = v.look
      /\ Forced(v).speaking = v.speaking /\ Forced(v).speech = <<>> /\ Forced(v).look = v.look
  BY DEF Quiet, Forced, Detectors
<1> QED BY <1>1, <1>2

\* The lag monitor goes on, or terminates the session once.
LEMMA LagEffect ==
    ASSUME {hard, ended} \subseteq BOOLEAN, terms \in Nat, NEW l \in Int, EvaluateLag(l)
    PROVE  /\ {hard', ended'} \subseteq BOOLEAN /\ terms' \in Nat
           /\ \/ ended' = ended /\ terms' = terms
              \/ ~ended /\ l >= HardLag /\ ended' = TRUE /\ terms' = terms + 1
<1>0. hard \in BOOLEAN /\ ended \in BOOLEAN
  OBVIOUS
<1>1. /\ hard' \in BOOLEAN /\ ended' \in BOOLEAN
      /\ \/ ended' = ended /\ terms' = terms
         \/ ~ended /\ l >= HardLag /\ ended' = TRUE /\ terms' = terms + 1
  <2>1. CASE ended /\ UNCHANGED flags
    BY <1>0, <2>1 DEF flags
  <2>2. CASE ~ended /\ l < HardLag /\ hard' = FALSE /\ UNCHANGED <<ended, terms>>
    BY <1>0, <2>2
  <2>4. CASE ~ended /\ l >= HardLag /\ hard' = TRUE /\ UNCHANGED <<ended, terms>>
    BY <1>0, <2>4
  <2>3. CASE ~ended /\ l >= HardLag /\ hard /\ ended' = TRUE /\ terms' = terms + 1 /\ UNCHANGED hard
    BY <1>0, <2>3
  <2> QED BY Zenon, <2>1, <2>2, <2>3, <2>4 DEF EvaluateLag
<1> QED BY <1>1

-----------------------------------------------------------------------------
(* Types *)

LEMMA SessionBounds ==
    /\ MaxMessage \in Nat /\ MaxAudio \in Nat /\ QueueSize \in Nat \ {0} /\ HardLag \in Nat /\ HardLag > 2
    /\ MinSpeech \in Nat \ {0} /\ MinSilence \in Nat \ {0} /\ MaxUtterance \in Nat \ {0}
    /\ Rates \subseteq Nat /\ Pads \subseteq Nat \ {0} /\ Pads # {}
BY SessionAssumption

LEMMA SessionTypes == SessionTypeOK =>
    /\ vad \in Detectors /\ \E p \in Pads : Len(vad.look) <= p
    /\ vad.speaking \in BOOLEAN /\ vad.speech \in Seq(Nat) /\ vad.look \in Seq(Nat) /\ vad.spoken \in Nat
    /\ {job, acc, queue, parts} \subseteq Seq(Nat) /\ finals \in Seq(Seq(Nat)) /\ saved \in Seq(Seq(Nat))
    /\ {hard, ended, closing, monitored} \subseteq BOOLEAN /\ ends \in Nat /\ terms \in Nat /\ mishaps \in Nat
    /\ buf \in 0 .. MaxMessage + 1 /\ taken \in Nat /\ heard \in 0 .. MaxAudio /\ lag \in Int
    /\ Chunk \in Nat /\ buf \in Nat /\ heard \in Nat /\ rate \in Nat
BY SessionBounds DEF SessionTypeOK, Detectors, Chunk

LEMMA ProcessedTypes == SessionTypeOK /\ Processed =>
    {hard', ended'} \subseteq BOOLEAN /\ terms' \in Nat /\ lag' \in Int /\ at' = "chunks"
<1>1. SessionTypeOK /\ Processed => lag - 4 \in Int /\ {hard, ended} \subseteq BOOLEAN /\ terms \in Nat
  BY SessionTypes
<1> QED BY <1>1, LagEffect DEF Processed

LEMMA DiscardTypes == SessionTypeOK /\ DiscardTail =>
    /\ {hard', ended'} \subseteq BOOLEAN /\ terms' \in Nat /\ lag' \in Int /\ at' = "recv"
    /\ buf' = 0 /\ UNCHANGED <<taken, heard>>
<1>1. SessionTypeOK /\ DiscardTail => lag - 2 * buf \in Int /\ {hard, ended} \subseteq BOOLEAN /\ terms \in Nat
  BY SMTT(30), SessionTypes
<1> QED BY <1>1, LagEffect DEF DiscardTail

LEMMA RemainingType == SessionTypeOK => Remaining \in Seq(Nat)
BY SessionTypes, NothingYet DEF Remaining

\* The end begins with a last transcription, or there is nothing left to transcribe.
LEMMA EndTypes == SessionTypeOK /\ EndSession =>
    /\ vad' = Quiet(vad) /\ vad' \in Detectors /\ \E p \in Pads : Len(vad'.look) <= p
    /\ \/ at' = "asr" /\ job' \in Seq(Nat) /\ job' # <<>> /\ then' = "end" /\ lost' = lost
          /\ job' = IF mode = "timed" THEN acc ELSE Remaining
       \/ at' = "bye" /\ UNCHANGED <<job, then>> /\ lost' = lost \cup ToSet(vad.speech)
          /\ (IF mode = "timed" THEN acc ELSE Remaining) = <<>>
<1> SUFFICES ASSUME SessionTypeOK, EndSession
             PROVE  /\ vad' = Quiet(vad) /\ vad' \in Detectors /\ \E p \in Pads : Len(vad'.look) <= p
                    /\ \/ at' = "asr" /\ job' \in Seq(Nat) /\ job' # <<>> /\ then' = "end" /\ lost' = lost
                          /\ job' = IF mode = "timed" THEN acc ELSE Remaining
                       \/ at' = "bye" /\ UNCHANGED <<job, then>> /\ lost' = lost \cup ToSet(vad.speech)
                          /\ (IF mode = "timed" THEN acc ELSE Remaining) = <<>>
  OBVIOUS
<1>1. vad' = Quiet(vad) /\ vad' \in Detectors /\ \E p \in Pads : Len(vad'.look) <= p
  BY SessionTypes, ResetEffect DEF EndSession
<1> DEFINE rest == IF mode = "timed" THEN acc ELSE Remaining
<1>2. rest \in Seq(Nat)
  BY SessionTypes, RemainingType
<1>3. IF rest # <<>> THEN Transcribe(rest, "end") /\ UNCHANGED lost
      ELSE at' = "bye" /\ lost' = lost \cup ToSet(vad.speech) /\ UNCHANGED <<job, then>>
  BY DEF EndSession
<1> HIDE DEF rest
<1>4. CASE rest # <<>>
  BY <1>1, <1>2, <1>3, <1>4 DEF Transcribe, rest
<1>5. CASE rest = <<>>
  BY <1>1, <1>3, <1>5 DEF rest
<1> QED BY <1>4, <1>5

LEMMA DetectTypes ==
    ASSUME SessionTypeOK, NEW c \in Nat, NEW voice \in BOOLEAN, NEW v, v = Detect(c, voice)
    PROVE  v \in Detectors /\ v.speech \in Seq(Nat) /\ \E p \in Pads : Len(v.look) <= p
<1>1. v \in Detectors /\ \E p \in Pads : Len(v.look) <= p
  BY ZenonT(30), SessionTypes, DetectEffect, LookedEffect
<1> QED BY <1>1 DEF Detectors

\* A message, a chunk, a word, a control message or the end leave the types as they are.
LEMMA SessionTypesStep == SessionTypeOK /\ ModeKept /\ StageKept /\ [SessionNext]_sessionVars => SessionTypeOK'
<1> SUFFICES ASSUME SessionTypeOK, ModeKept, StageKept, [SessionNext]_sessionVars PROVE SessionTypeOK'
  OBVIOUS
<1> USE DEF SessionTypeOK, audio, decoder, fate
<1>0. /\ vad \in Detectors /\ \E p \in Pads : Len(vad.look) <= p
      /\ {job, acc, queue, parts} \subseteq Seq(Nat) /\ finals \in Seq(Seq(Nat)) /\ saved \in Seq(Seq(Nat))
      /\ {hard, ended, closing, monitored} \subseteq BOOLEAN /\ ends \in Nat /\ terms \in Nat
      /\ Chunk \in Nat /\ MaxMessage \in Nat /\ MaxAudio \in Nat /\ QueueSize \in Nat \ {0}
      /\ lag \in Int /\ rate \in Nat /\ buf \in 0 .. MaxMessage + 1 /\ buf \in Nat /\ heard \in 0 .. MaxAudio
  BY SessionTypes, SessionBounds
<1>1. CASE UNCHANGED sessionVars
  BY <1>1 DEF sessionVars, flags
<1>2. CASE LagTick
  BY ZenonT(30), <1>2, <1>0, LagEffect DEF LagTick
<1>3. ASSUME NEW n \in 1 .. MaxMessage, Audio(n) PROVE SessionTypeOK'
  <2>1. /\ at = "recv" /\ ~ended /\ heard + n <= MaxAudio /\ buf' = buf + n /\ heard' = heard + n
        /\ lag' = lag + n * rate /\ EvaluateLag(lag + n * rate) /\ at' = "chunks"
        /\ UNCHANGED <<mode, rate, job, then, taken, vad, acc, decoder, closing, monitored, finals, ends,
                       store, saved, mishaps>>
    BY <1>3 DEF Audio
  <2>2. n * rate \in Int
    BY <1>0, <1>3
  <2> DEFINE l == lag + n * rate
  <2>3. l \in Int
    BY <1>0, <2>2
  <2> HIDE DEF l
  <2>4. {hard', ended'} \subseteq BOOLEAN /\ terms' \in Nat /\ lag' \in Int
    BY <1>0, <2>1, <2>3, LagEffect DEF l
  <2>5. buf' \in 0 .. MaxMessage + 1 /\ heard' \in 0 .. MaxAudio
    BY <1>0, <1>3, <2>1 DEF StageKept
  <2> QED BY <1>0, <2>1, <2>4, <2>5
<1>4. CASE ChunksDone
  BY <1>4 DEF ChunksDone, flags
<1>5. ASSUME NEW voice \in BOOLEAN, ChunkContinues(voice) PROVE SessionTypeOK'
  <2>1. vad' \in Detectors /\ \E p \in Pads : Len(vad'.look) <= p
    BY <1>5, <1>0, DetectTypes DEF ChunkContinues
  <2>2. buf' \in 0 .. MaxMessage + 1 /\ taken' \in Nat /\ heard' = heard
    BY <1>5, <1>0 DEF ChunkContinues, Take
  <2> QED BY <1>5, <1>0, <2>1, <2>2, ProcessedTypes DEF ChunkContinues
<1>6. ASSUME NEW voice \in BOOLEAN, ChunkEnds(voice) PROVE SessionTypeOK'
  <2> DEFINE v == Detect(Chunk, voice)
  <2>1. v \in Detectors /\ v.speech \in Seq(Nat) /\ \E p \in Pads : Len(v.look) <= p
    BY <1>0, DetectTypes
  <2>2. /\ Quiet(v) \in Detectors /\ \E p \in Pads : Len(Quiet(v).look) <= p
        /\ Forced(v) \in Detectors /\ \E p \in Pads : Len(Forced(v).look) <= p
    BY <2>1, ResetEffect
  <2>3. \/ /\ at' = "asr" /\ job' = v.speech /\ then' = "chunk" /\ vad' \in {Quiet(v), Forced(v)}
           /\ UNCHANGED <<lag, flags>>
        \/ vad' = Quiet(v) /\ Processed /\ UNCHANGED <<job, then>>
    BY <1>6 DEF ChunkEnds, Transcribe
  <2>a. buf >= 2 /\ buf' = buf - 2 /\ taken' = Chunk /\ heard' = heard
    BY <1>6 DEF ChunkEnds, Take
  <2>4. buf' \in 0 .. MaxMessage + 1 /\ taken' \in Nat /\ heard' = heard
    BY <1>0, <2>a
  <2>5. UNCHANGED <<mode, rate, acc, decoder, closing, monitored, finals, ends, store, saved, mishaps>>
    BY <1>6 DEF ChunkEnds
  <2> HIDE DEF v
  <2>6. CASE at' = "asr" /\ job' = v.speech /\ then' = "chunk" /\ vad' \in {Quiet(v), Forced(v)} /\ UNCHANGED <<lag, flags>>
    BY <2>1, <2>2, <2>4, <2>5, <2>6 DEF flags
  <2>7. CASE vad' = Quiet(v) /\ Processed /\ UNCHANGED <<job, then>>
    BY <2>1, <2>2, <2>4, <2>5, <2>7, ProcessedTypes
  <2> QED BY <2>3, <2>6, <2>7
<1>7. CASE ChunkCollected
  <2>1. acc' = Append(acc, Chunk) /\ acc' \in Seq(Nat)
    BY <1>7, <1>0, ElementsOfAppend DEF ChunkCollected
  <2>2. buf' \in 0 .. MaxMessage + 1 /\ taken' \in Nat /\ heard' = heard
    BY <1>7, <1>0 DEF ChunkCollected, Take
  <2>3. \/ at' = "asr" /\ job' = acc' /\ then' = "timed" /\ UNCHANGED <<lag, flags>>
        \/ Processed /\ UNCHANGED <<job, then>>
    BY <1>7 DEF ChunkCollected, Transcribe
  <2>4. UNCHANGED <<mode, rate, vad, decoder, closing, monitored, finals, ends, store, saved, mishaps>>
    BY <1>7 DEF ChunkCollected
  <2>5. CASE at' = "asr" /\ job' = acc' /\ then' = "timed" /\ UNCHANGED <<lag, flags>>
    BY <2>1, <2>2, <2>4, <2>5 DEF flags
  <2>6. CASE Processed /\ UNCHANGED <<job, then>>
    BY <2>1, <2>2, <2>4, <2>6, ProcessedTypes
  <2> QED BY <2>3, <2>5, <2>6
<1>8. CASE ChunkToQueue
  <2>1. job' \in Seq(Nat)
    BY <1>8, <1>0 DEF ChunkToQueue
  <2>2. buf' \in 0 .. MaxMessage + 1 /\ taken' \in Nat /\ heard' = heard
    BY <1>8, <1>0 DEF ChunkToQueue, Take
  <2>3. /\ at' = "put" /\ UNCHANGED flags
        /\ UNCHANGED <<mode, rate, then, lag, vad, acc, decoder, closing, monitored, finals, ends, store, saved, mishaps>>
    BY <1>8 DEF ChunkToQueue
  <2> QED BY <2>1, <2>2, <2>3 DEF flags
<1>9. ASSUME NEW voice \in BOOLEAN, Put(voice) PROVE SessionTypeOK'
  <2> DEFINE v == Detect(Head(job), voice)
  <2>0. Head(job) \in Nat
    BY <1>9, <1>0, ElementsOfTail DEF Put, ModeKept
  <2>1. v \in Detectors /\ \E p \in Pads : Len(v.look) <= p
    BY <1>0, <2>0, DetectTypes
  <2>2. Quiet(v) \in Detectors /\ \E p \in Pads : Len(Quiet(v).look) <= p
    BY <2>1, ResetEffect
  <2>3. vad' \in {v, Quiet(v)}
    BY <1>9 DEF Put
  <2>4. queue' \in Seq(Nat) /\ Len(queue') <= QueueSize
    BY <1>9, <1>0, <2>0, ElementsOfAppend DEF Put
  <2>5. \/ finals' = Append(finals, parts) /\ at' = "final" /\ job' = parts /\ then' = "chunk" /\ UNCHANGED <<lag, flags>>
        \/ Processed /\ UNCHANGED <<job, then, finals>>
    BY <1>9 DEF Put, FlushFinal
  <2>6. UNCHANGED <<mode, rate, buf, taken, heard, acc, dec, parts, closing, monitored, ends, store, saved, mishaps>>
    BY <1>9 DEF Put
  <2> HIDE DEF v
  <2>7. CASE finals' = Append(finals, parts) /\ at' = "final" /\ job' = parts /\ then' = "chunk" /\ UNCHANGED <<lag, flags>>
    <3>1. finals' \in Seq(Seq(Nat)) /\ job' \in Seq(Nat)
      BY <1>0, <2>7, ChunksOfAppend
    <3> QED BY <2>1, <2>2, <2>3, <2>4, <2>6, <2>7, <3>1 DEF flags
  <2>8. CASE Processed /\ UNCHANGED <<job, then, finals>>
    BY <2>1, <2>2, <2>3, <2>4, <2>6, <2>8, ProcessedTypes
  <2> QED BY <2>5, <2>7, <2>8
<1>10. CASE Sent
  <2>1. parts' \in Seq(Nat) /\ job' \in Seq(Nat)
    BY <1>10, NothingYet DEF Sent, FinalSent
  <2>2. \/ Processed /\ UNCHANGED <<buf, taken, heard>>
        \/ DiscardTail
    BY <1>10 DEF Sent
  <2>3. UNCHANGED <<mode, rate, then, vad, acc, queue, dec, closing, monitored, finals, ends, store, saved, mishaps>>
    BY <1>10 DEF Sent
  <2>4. CASE Processed /\ UNCHANGED <<buf, taken, heard>>
    BY <1>0, <2>1, <2>3, <2>4, ProcessedTypes
  <2>5. CASE DiscardTail
    <3>1. /\ {hard', ended'} \subseteq BOOLEAN /\ terms' \in Nat /\ lag' \in Int /\ at' = "recv"
          /\ buf' \in 0 .. MaxMessage + 1 /\ UNCHANGED <<taken, heard>>
      BY SMTT(30), <1>0, <2>5, DiscardTypes
    <3> QED BY <2>1, <2>3, <3>1
  <2> QED BY <2>2, <2>4, <2>5
<1>11. CASE Decode
  <2>0. queue # <<>> /\ queue' = Tail(queue) /\ (parts' = parts \/ parts' = Append(parts, Head(queue)))
    BY <1>11 DEF Decode
  <2>1. queue' \in Seq(Nat) /\ Len(queue') = Len(queue) - 1 /\ Head(queue) \in Nat
    BY <1>0, <2>0, ElementsOfTail
  <2>a. Len(queue') <= QueueSize
    BY <1>0, <2>1
  <2>2. parts' \in Seq(Nat)
    <3>1. parts \in Seq(Nat) /\ Head(queue) \in Nat
      BY <1>0, <2>1
    <3>2. Append(parts, Head(queue)) \in Seq(Nat)
      BY <3>1, ElementsOfAppend
    <3> QED BY <2>0, <3>1, <3>2
  <2>3. /\ dec' \in {dec, "mute"}
        /\ UNCHANGED <<mode, rate, at, job, then, audio, flags, vad, acc, closing, monitored, finals, ends, store, saved, mishaps>>
    BY <1>11 DEF Decode
  <2> QED BY SMTT(30), <2>1, <2>a, <2>2, <2>3 DEF flags
<1>12. CASE DecoderEnds \/ StaleGet
  <2>0. queue # <<>> /\ queue' = Tail(queue)
    BY <1>12 DEF DecoderEnds, StaleGet
  <2>a. queue' \in Seq(Nat) /\ Len(queue') = Len(queue) - 1
    BY <1>0, <2>0, ElementsOfTail
  <2>1. queue' \in Seq(Nat) /\ Len(queue') <= QueueSize
    BY <1>0, <2>a
  <2>2. /\ dec' \in {"done", "dead"}
        /\ UNCHANGED <<mode, rate, at, job, then, audio, flags, vad, acc, parts, closing, monitored, finals, ends, store, saved, mishaps>>
    BY <1>12 DEF DecoderEnds, StaleGet
  <2> QED BY <2>1, <2>2 DEF flags
<1>13. CASE DecoderGivesUp
  BY <1>13 DEF DecoderGivesUp, flags
<1>14. CASE Flush
  <2>1. vad' = Quiet(vad) /\ vad' \in Detectors /\ \E p \in Pads : Len(vad'.look) <= p
    BY <1>14, <1>0, ResetEffect DEF Flush
  <2>2. UNCHANGED <<mode, rate, acc, decoder, closing, monitored, ends, store, saved, mishaps>>
    BY <1>14 DEF Flush
  <2>3. \/ at' = "asr" /\ job' = Remaining /\ then' = "flush" /\ UNCHANGED <<audio, flags, finals>>
        \/ finals' = Append(finals, parts) /\ at' = "final" /\ job' = parts /\ then' = "flush" /\ UNCHANGED <<audio, flags>>
        \/ DiscardTail /\ UNCHANGED <<job, then, finals>>
    BY <1>14 DEF Flush, Transcribe, FlushFinal
  <2>4. CASE at' = "asr" /\ job' = Remaining /\ then' = "flush" /\ UNCHANGED <<audio, flags, finals>>
    BY <2>1, <2>2, <2>4, RemainingType DEF flags
  <2>5. CASE finals' = Append(finals, parts) /\ at' = "final" /\ job' = parts /\ then' = "flush" /\ UNCHANGED <<audio, flags>>
    <3>1. finals' \in Seq(Seq(Nat)) /\ job' \in Seq(Nat)
      BY <1>0, <2>5, ChunksOfAppend
    <3> QED BY <2>1, <2>2, <2>5, <3>1 DEF flags
  <2>6. CASE DiscardTail /\ UNCHANGED <<job, then, finals>>
    <3>1. /\ {hard', ended'} \subseteq BOOLEAN /\ terms' \in Nat /\ lag' \in Int /\ at' = "recv"
          /\ buf' \in 0 .. MaxMessage + 1 /\ UNCHANGED <<taken, heard>>
      BY SMTT(30), <1>0, <2>6, DiscardTypes
    <3> QED BY <2>1, <2>2, <2>6, <3>1
  <2> QED BY <2>3, <2>4, <2>5, <2>6
<1>15. CASE Clear
  <2>1. vad' \in Detectors /\ \E p \in Pads : Len(vad'.look) <= p
    BY <1>15, <1>0, ResetEffect DEF Clear
  <2>2. /\ acc' \in Seq(Nat) /\ parts' \in Seq(Nat) /\ DiscardTail
        /\ UNCHANGED <<mode, rate, job, then, queue, dec, closing, monitored, finals, ends, store, saved, mishaps>>
    BY <1>15, NothingYet DEF Clear
  <2>3. /\ {hard', ended'} \subseteq BOOLEAN /\ terms' \in Nat /\ lag' \in Int /\ at' = "recv"
        /\ buf' \in 0 .. MaxMessage + 1 /\ UNCHANGED <<taken, heard>>
    BY SMTT(30), <1>0, <2>2, DiscardTypes
  <2> QED BY <2>1, <2>2, <2>3
<1>16. ASSUME NEW p \in Pads, Config(p) PROVE SessionTypeOK'
  <2>1. vad' \in Detectors /\ vad'.look = vad.look
    BY <1>16, <1>0 DEF Config, Detectors
  <2>2. /\ EvaluateLag(lag)
        /\ UNCHANGED <<mode, rate, at, job, then, audio, acc, decoder, closing, monitored, finals, ends, store, saved, mishaps>>
    BY <1>16 DEF Config
  <2>3. {hard', ended'} \subseteq BOOLEAN /\ terms' \in Nat
    BY <1>0, <2>2, LagEffect, SessionTypes
  <2> QED BY <1>0, <2>1, <2>2, <2>3
<1>17. CASE EndMessage
  <2>1. UNCHANGED <<mode, rate, audio, acc, decoder, monitored, finals, ends, store, saved, mishaps>>
    BY <1>17 DEF EndMessage
  <2>2. \/ closing' = TRUE /\ EvaluateLag(lag) /\ UNCHANGED <<at, job, then, vad>>
        \/ EndSession /\ UNCHANGED <<closing, flags>>
    BY <1>17 DEF EndMessage
  <2>3. CASE closing' = TRUE /\ EvaluateLag(lag) /\ UNCHANGED <<at, job, then, vad>>
    <3>1. {hard', ended'} \subseteq BOOLEAN /\ terms' \in Nat
      BY <1>0, <2>3, LagEffect, SessionTypes
    <3> QED BY <2>1, <2>3, <3>1
  <2>4. CASE EndSession /\ UNCHANGED <<closing, flags>>
    BY <1>0, <2>1, <2>4, EndTypes DEF flags
  <2> QED BY <2>2, <2>3, <2>4
<1>18. CASE Transcribed
  <2>1. /\ job' = <<>> /\ UNCHANGED <<mode, rate, then, vad, decoder, closing, monitored, ends, store, saved, mishaps>>
        /\ (finals' = finals \/ finals' = Append(finals, job)) /\ (acc' = acc \/ acc' = <<>>)
    BY <1>18 DEF Transcribed
  <2>a. finals' \in Seq(Seq(Nat))
    BY ZenonT(30), <1>0, <2>1, ChunksOfAppend
  <2>2. finals' \in Seq(Seq(Nat)) /\ acc' \in Seq(Nat) /\ job' \in Seq(Nat)
    BY <1>0, <2>1, <2>a, NothingYet
  <2>3. \/ Processed /\ UNCHANGED <<buf, taken, heard>>
        \/ DiscardTail
        \/ at' = "bye" /\ UNCHANGED <<audio, flags>>
    BY <1>18 DEF Transcribed
  <2>4. CASE Processed /\ UNCHANGED <<buf, taken, heard>>
    BY <1>0, <2>1, <2>2, <2>4, ProcessedTypes
  <2>5. CASE DiscardTail
    <3>1. /\ {hard', ended'} \subseteq BOOLEAN /\ terms' \in Nat /\ lag' \in Int /\ at' = "recv"
          /\ buf' \in 0 .. MaxMessage + 1 /\ UNCHANGED <<taken, heard>>
      BY SMTT(30), <1>0, <2>5, DiscardTypes
    <3> QED BY <2>1, <2>2, <3>1
  <2>6. CASE at' = "bye" /\ UNCHANGED <<audio, flags>>
    BY <2>1, <2>2, <2>6 DEF flags
  <2> QED BY <2>3, <2>4, <2>5, <2>6
<1>19. CASE Goodbye
  <2>1. ends' \in Nat /\ store' \in {"off", "saved", "gone"} /\ saved' \in Seq(Seq(Nat)) /\ at' = "ending"
    BY <1>19, <1>0 DEF Goodbye, EndsSent
  <2>2. UNCHANGED <<mode, rate, job, then, audio, flags, vad, acc, decoder, closing, monitored, finals, mishaps>>
    BY <1>19 DEF Goodbye
  <2> QED BY <2>1, <2>2 DEF flags
<1>20. CASE Ended
  BY <1>20 DEF Ended
<1>21. CASE LeaveLoop
  BY <1>21 DEF LeaveLoop, flags
<1>25. CASE Raise
  BY <1>25, <1>0 DEF Raise, flags
<1>22. CASE StopDecoder
  <2>1. queue' = Append(queue, Sentinel) /\ queue' \in Seq(Nat) /\ Len(queue') <= QueueSize /\ at' = "wait"
    BY <1>22, <1>0, ElementsOfAppend DEF StopDecoder, Sentinel
  <2>2. UNCHANGED <<mode, rate, job, then, audio, flags, vad, acc, dec, parts, closing, monitored, finals, ends, store, saved, mishaps>>
    BY <1>22 DEF StopDecoder
  <2> QED BY <2>1, <2>2 DEF flags
<1>23. CASE Drained
  <2>1. finals' \in Seq(Seq(Nat)) /\ parts' \in Seq(Nat) /\ dec' \in {dec, "mute"} /\ monitored' = FALSE /\ at' = "last"
    BY <1>23, <1>0, ChunksOfAppend, NothingYet DEF Drained
  <2>2. UNCHANGED <<mode, rate, job, then, audio, flags, vad, acc, queue, closing, ends, store, saved, mishaps>>
    BY <1>23 DEF Drained
  <2> QED BY <2>1, <2>2 DEF flags
<1>24. CASE FinishSession
  <2>1. UNCHANGED <<mode, rate, audio, flags, acc, decoder, closing, monitored, finals, ends, saved, mishaps>>
    BY <1>24 DEF FinishSession
  <2>2. \/ EndSession /\ UNCHANGED store
        \/ at' = "over" /\ store' \in {store, "gone"} /\ UNCHANGED <<job, then, vad>>
    BY <1>24 DEF FinishSession, Cleanup
  <2> QED BY <1>0, <2>1, <2>2, EndTypes DEF flags
<1> QED
  BY <1>1, <1>2, <1>3, <1>4, <1>5, <1>6, <1>7, <1>8, <1>9, <1>10, <1>11, <1>12, <1>13, <1>14, <1>15, <1>16,
     <1>17, <1>18, <1>19, <1>20, <1>21, <1>22, <1>23, <1>24, <1>25 DEF SessionNext, Client, Handle, DecoderStep

-----------------------------------------------------------------------------
(* What each mode holds *)

LEMMA PrefixOfAppend ==
    ASSUME NEW s \in Seq(Nat), NEW x \in Nat, NEW n \in Nat, n <= Len(s)
    PROVE  SubSeq(Append(s, x), 1, n) = SubSeq(s, 1, n)
<1>1. /\ Append(s, x) \in Seq(Nat) /\ Len(Append(s, x)) = Len(s) + 1 /\ Len(s) \in Nat
      /\ \A i \in 1 .. Len(s) : Append(s, x)[i] = s[i]
  BY AppendProperties
<1>2. /\ \A i \in 1 .. n : s[i] \in Nat
      /\ \A i \in 1 .. n : Append(s, x)[i] = s[i]
  BY <1>1, ElementOfSeq
<1>3. /\ SubSeq(s, 1, n) \in Seq(Nat) /\ Len(SubSeq(s, 1, n)) = n
      /\ \A i \in 1 .. n : SubSeq(s, 1, n)[i] = s[i]
  <2>1. /\ SubSeq(s, 1, n) \in Seq(Nat) /\ Len(SubSeq(s, 1, n)) = IF 1 <= n THEN n - 1 + 1 ELSE 0
        /\ \A i \in 1 .. n - 1 + 1 : SubSeq(s, 1, n)[i] = s[1 + i - 1]
    BY <1>2, SubSeqProperties
  <2> QED BY <2>1
<1>4. /\ SubSeq(Append(s, x), 1, n) \in Seq(Nat) /\ Len(SubSeq(Append(s, x), 1, n)) = n
      /\ \A i \in 1 .. n : SubSeq(Append(s, x), 1, n)[i] = Append(s, x)[i]
  <2>1. /\ SubSeq(Append(s, x), 1, n) \in Seq(Nat)
        /\ Len(SubSeq(Append(s, x), 1, n)) = IF 1 <= n THEN n - 1 + 1 ELSE 0
        /\ \A i \in 1 .. n - 1 + 1 : SubSeq(Append(s, x), 1, n)[i] = Append(s, x)[1 + i - 1]
    BY <1>2, SubSeqProperties
  <2> QED BY <2>1
<1> QED BY <1>2, <1>3, <1>4, SeqEqual

\* The detector is silent without speech, and always without a detector.
DetectorKept == (~vad.speaking => vad.speech = <<>>) /\ (mode = "timed" => ~vad.speaking)

LEMMA DetectorStep == SessionTypeOK /\ ModeKept /\ [SessionNext]_sessionVars => DetectorKept'
<1> SUFFICES ASSUME SessionTypeOK, DetectorKept, ModeKept, [SessionNext]_sessionVars PROVE DetectorKept'
  BY DEF ModeKept, DetectorKept
<1>0. vad \in Detectors /\ vad.speaking \in BOOLEAN /\ Chunk \in Nat /\ \E p \in Pads : Len(vad.look) <= p
  BY SessionTypes
<1> USE DEF DetectorKept
<1>1. CASE UNCHANGED <<mode, vad>>
  BY <1>1
<1>2. CASE mode' = mode /\ vad' = Quiet(vad)
  BY <1>0, <1>2, ResetEffect
<1>3. ASSUME NEW c \in Nat, NEW voice \in BOOLEAN, mode # "timed", mode' = mode,
             \/ vad' = Detect(c, voice) \/ vad' = Quiet(Detect(c, voice))
             \/ vad' = Forced(Detect(c, voice)) /\ Detect(c, voice).speaking
      PROVE  DetectorKept'
  <2> DEFINE v == Detect(c, voice)
  <2>1. v \in Detectors /\ (~v.speaking => v.speech = <<>>)
    BY <1>0, DetectEffect
  <2>2. vad' = v \/ vad' = Quiet(v) \/ (vad' = Forced(v) /\ v.speaking)
    BY <1>3
  <2> HIDE DEF v
  <2> QED BY <1>3, <2>1, <2>2, ResetEffect
<1>4. ASSUME NEW p \in Pads, Config(p) PROVE DetectorKept'
  <2>1. mode' = mode /\ vad'.speaking = vad.speaking /\ vad'.speech = vad.speech
    BY <1>0, <1>4 DEF Config, Detectors
  <2> QED BY <2>1
<1>5. ASSUME NEW voice \in BOOLEAN, ChunkContinues(voice) \/ ChunkEnds(voice) PROVE DetectorKept'
  <2>1. CASE ChunkContinues(voice)
    <3>1. mode # "timed" /\ mode' = mode /\ vad' = Detect(Chunk, voice)
      BY <2>1 DEF ChunkContinues
    <3> QED BY <1>0, <1>3, <3>1
  <2>2. CASE ChunkEnds(voice)
    <3>1. /\ mode # "timed" /\ mode' = mode
          /\ \/ vad' = Quiet(Detect(Chunk, voice))
             \/ vad' = Forced(Detect(Chunk, voice)) /\ Detect(Chunk, voice).speaking
      BY <2>2 DEF ChunkEnds, TooLong, Endpoint
    <3> QED BY <1>0, <1>3, <3>1
  <2> QED BY <1>5, <2>1, <2>2
<1>6. ASSUME NEW voice \in BOOLEAN, Put(voice) PROVE DetectorKept'
  <2>1. Head(job) \in Nat /\ mode = "stream"
    BY <1>6, ElementsOfTail, SessionTypes DEF Put, ModeKept
  <2>2. mode' = mode /\ (vad' = Detect(Head(job), voice) \/ vad' = Quiet(Detect(Head(job), voice)))
    BY <1>6 DEF Put
  <2> QED BY <1>3, <2>1, <2>2
<1>7. CASE Client
  <2>1. CASE Flush \/ Clear
    BY <1>2, <2>1 DEF Flush, Clear
  <2>2. CASE EndMessage
    BY <1>1, <1>2, <2>2 DEF EndMessage, EndSession
  <2> QED BY <1>1, <1>4, <1>7, <2>1, <2>2 DEF Client, Audio, LeaveLoop
<1>8. CASE Handle
  <2>1. CASE FinishSession
    BY <1>1, <1>2, <2>1 DEF FinishSession, EndSession
  <2> QED BY <1>1, <1>5, <1>6, <1>8, <2>1 DEF Handle, ChunkCollected, ChunkToQueue, ChunksDone, Sent, Transcribed,
             Goodbye, Ended, LeaveLoop, StopDecoder, Drained
<1> QED BY <1>1, <1>7, <1>8 DEF SessionNext, DecoderStep, Decode, DecoderEnds, StaleGet, DecoderGivesUp, Raise,
           LagTick, sessionVars

\* The handler's hands: what it has transcribed or sends fits the mode.
LEMMA ModeStep == SessionTypeOK /\ ModeKept /\ StageKept /\ [SessionNext]_sessionVars => ModeKept'
<1> SUFFICES ASSUME SessionTypeOK, ModeKept, StageKept, [SessionNext]_sessionVars PROVE ModeKept'
  OBVIOUS
<1>0. DetectorKept'
  BY DetectorStep
<1>1. /\ job \in Seq(Nat) /\ parts \in Seq(Nat) /\ finals \in Seq(Seq(Nat)) /\ queue \in Seq(Nat) /\ acc \in Seq(Nat)
      /\ Chunk \in Nat /\ vad.speech \in Seq(Nat)
  BY SessionTypes
<1> DEFINE Held ==
             /\ mode # "timed" => acc = <<>>
             /\ mode # "stream" =>
                  /\ dec = "off" /\ queue = <<>> /\ parts = <<>> /\ ~closing
                  /\ at \notin {"put", "final", "wait"}
             /\ at \in {"put", "asr"} => job # <<>>
             /\ at = "asr" =>
                  /\ mode = "vad" => vad.speech = <<>> /\ then \in {"chunk", "flush", "end"}
                  /\ mode = "timed" => job = acc /\ then \in {"timed", "end"}
                  /\ mode = "stream" => then = "end"
           Sending ==
             at = "final" =>
               /\ then \in {"chunk", "flush"} /\ finals # <<>> /\ Last(finals) = job
               /\ Len(job) <= Len(parts) /\ job = SubSeq(parts, 1, Len(job))
<1>2. SUFFICES Held' /\ Sending'
  BY <1>0 DEF ModeKept, DetectorKept
<1>3. Held /\ Sending
  BY DEF ModeKept
<1>4. ASSUME at' = "final", job' = parts, parts' = parts, finals' = Append(finals, parts), then' \in {"chunk", "flush"}
      PROVE  Sending'
  <2>1. SubSeq(parts, 1, Len(parts)) = parts /\ Len(parts) <= Len(parts)
    BY <1>1, SubSeqFull
  <2>2. finals' # <<>> /\ Last(finals') = parts
    BY <1>1, <1>4, ChunksOfAppend
  <2> QED BY <1>4, <2>1, <2>2
<1>5. ASSUME UNCHANGED <<at, then, finals, job, parts>> PROVE Sending'
  BY <1>3, <1>5
<1>6. ASSUME at' # "final" PROVE Sending'
  BY <1>6
<1> USE DEF audio, decoder, fate, flags
<1>10. CASE UNCHANGED sessionVars
  BY <1>3, <1>5, <1>10 DEF sessionVars
<1>11. CASE Client
  <2>1. ASSUME NEW n \in 1 .. MaxMessage, Audio(n) PROVE Held' /\ Sending'
    BY <1>3, <1>6, <2>1 DEF Audio
  <2>2. CASE Flush
    <3>1. CASE mode = "vad" /\ Remaining # <<>> /\ Transcribe(Remaining, "flush")
      BY <1>1, <1>3, <1>6, <2>2, <3>1, SessionTypes, ResetEffect DEF Flush, Transcribe
    <3>2. CASE mode = "stream" /\ FlushFinal("flush")
      BY <1>1, <1>3, <1>4, <2>2, <3>2 DEF Flush, FlushFinal
    <3>3. CASE DiscardTail /\ UNCHANGED <<job, then, finals>>
      BY <1>3, <1>6, <2>2, <3>3 DEF Flush, DiscardTail
    <3> QED BY <2>2, <3>1, <3>2, <3>3 DEF Flush
  <2>3. CASE Clear
    BY <1>3, <1>6, <2>3 DEF Clear, DiscardTail
  <2>4. CASE EndMessage
    <3>1. CASE mode = "stream"
      BY <1>3, <1>6, <2>4, <3>1 DEF EndMessage
    <3>2. CASE mode # "stream"
      <4>1. EndSession
        BY <2>4, <3>2 DEF EndMessage
      <4>2. /\ at' \in {"asr", "bye"} /\ (at' = "asr" => job' # <<>> /\ then' = "end" /\ (mode = "timed" => job' = acc))
            /\ vad' = Quiet(vad) /\ vad'.speech = <<>>
        BY <4>1, EndTypes, ResetEffect, SessionTypes
      <4> QED BY <1>3, <1>6, <2>4, <3>2, <4>2 DEF EndMessage
    <3> QED BY <3>1, <3>2
  <2>5. ASSUME NEW p \in Pads, Config(p) PROVE Held' /\ Sending'
    BY <1>3, <1>6, <2>5 DEF Config
  <2>6. CASE LeaveLoop
    BY <1>3, <1>6, <2>6 DEF LeaveLoop
  <2> QED BY <1>11, <2>1, <2>2, <2>3, <2>4, <2>5, <2>6 DEF Client
<1>12. CASE Handle
  <2>1. ASSUME NEW voice \in BOOLEAN, ChunkContinues(voice) PROVE Held' /\ Sending'
    BY <1>3, <1>6, <2>1 DEF ChunkContinues, Processed
  <2>2. ASSUME NEW voice \in BOOLEAN, ChunkEnds(voice) PROVE Held' /\ Sending'
    <3> DEFINE v == Detect(Chunk, voice)
    <3>1. /\ at' \in {"asr", "chunks"} /\ mode = "vad" /\ UNCHANGED <<mode, acc, queue, parts, dec, closing>>
          /\ at' = "asr" => /\ job' = v.speech /\ then' = "chunk" /\ v.speaking
                            /\ vad' = Quiet(v) \/ vad' = Forced(v)
      BY <2>2 DEF ChunkEnds, Transcribe, Processed, TooLong, Endpoint
    <3>2. v \in Detectors /\ (v.speaking => v.speech # <<>>)
      <4>1. vad \in Detectors /\ \E p \in Pads : Len(vad.look) <= p
        BY SessionTypes
      <4>2. Looked(Chunk) # <<>>
        BY <1>1, <4>1, LookedEffect
      <4>3. Append(vad.speech, Chunk) # <<>>
        BY <1>1, ElementsOfAppend
      <4> QED BY <1>1, <4>1, <4>2, <4>3, DetectEffect
    <3> HIDE DEF v
    <3>3. at' = "asr" => job' # <<>> /\ vad'.speech = <<>>
      BY <3>1, <3>2, ResetEffect
    <3> QED BY <1>3, <1>6, <3>1, <3>3
  <2>3. ASSUME NEW voice \in BOOLEAN, Put(voice) PROVE Held' /\ Sending'
    <3>1. CASE FlushFinal("chunk")
      BY <1>1, <1>3, <1>4, <2>3, <3>1 DEF Put, FlushFinal
    <3>2. CASE Processed
      BY <1>3, <1>6, <2>3, <3>2 DEF Put, Processed
    <3> QED BY <2>3, <3>1, <3>2 DEF Put
  <2>4. CASE ChunkCollected
    <3>1. acc' # <<>> /\ mode = "timed" /\ UNCHANGED <<mode, queue, parts, dec, closing>>
      BY <1>1, <2>4, ElementsOfAppend DEF ChunkCollected
    <3>2. at' \in {"asr", "chunks"} /\ (at' = "asr" => job' = acc' /\ then' = "timed")
      BY <2>4 DEF ChunkCollected, Transcribe, Processed
    <3> QED BY <1>3, <1>6, <3>1, <3>2
  <2>5. CASE ChunkToQueue
    <3>1. job' # <<>> /\ at' = "put" /\ mode = "stream" /\ UNCHANGED <<mode, acc>>
      BY <2>5 DEF ChunkToQueue
    <3> QED BY <1>3, <1>6, <3>1
  <2>6. CASE ChunksDone
    BY <1>3, <1>6, <2>6 DEF ChunksDone
  <2>7. CASE Sent
    BY <1>3, <1>6, <2>7 DEF Sent, Processed, DiscardTail
  <2>8. CASE Transcribed
    <3>1. at' \in {"chunks", "recv", "bye"} /\ acc' \in {acc, <<>>} /\ UNCHANGED <<mode, queue, parts, dec, closing>>
      BY <2>8 DEF Transcribed, Processed, DiscardTail
    <3> QED BY <1>3, <1>6, <3>1
  <2>9. CASE Goodbye \/ Ended \/ LeaveLoop
    BY <1>3, <1>6, <2>9 DEF Goodbye, Ended, LeaveLoop
  <2>10. CASE StopDecoder
    BY <1>3, <1>6, <2>10 DEF StopDecoder
  <2>11. CASE Drained
    BY <1>3, <1>6, <2>11 DEF Drained
  <2>12. CASE FinishSession
    <3>1. CASE EndSession
      <4>1. /\ at' \in {"asr", "bye"} /\ (at' = "asr" => job' # <<>> /\ then' = "end" /\ (mode = "timed" => job' = acc))
            /\ vad' = Quiet(vad) /\ vad'.speech = <<>>
        BY <3>1, EndTypes, ResetEffect, SessionTypes
      <4> QED BY <1>3, <1>6, <2>12, <4>1 DEF FinishSession
    <3>2. CASE at' = "over"
      BY <1>3, <1>6, <2>12, <3>2 DEF FinishSession
    <3> QED BY <2>12, <3>1, <3>2 DEF FinishSession
  <2> QED BY <1>12, <2>1, <2>2, <2>3, <2>4, <2>5, <2>6, <2>7, <2>8, <2>9, <2>10, <2>11, <2>12 DEF Handle
<1>13. CASE DecoderStep
  <2>1. CASE Decode
    <3>1. /\ queue # <<>> /\ mode = "stream" /\ (parts' = parts \/ parts' = Append(parts, Head(queue)))
          /\ UNCHANGED <<mode, at, job, then, vad, acc, closing, finals>>
      BY <1>3, <2>1 DEF Decode
    <3>2. Held'
      BY <1>3, <3>1
    <3>3. ASSUME at = "final", parts' = Append(parts, Head(queue)) PROVE Sending'
      <4>1. Head(queue) \in Nat /\ Len(job) \in Nat /\ Len(job) <= Len(parts) /\ Len(parts) \in Nat
        BY SMTT(30), <1>1, <1>3, <3>1, <3>3, ElementsOfTail
      <4>2. SubSeq(parts', 1, Len(job)) = SubSeq(parts, 1, Len(job)) /\ Len(parts') = Len(parts) + 1
        BY <1>1, <3>3, <4>1, PrefixOfAppend, ElementsOfAppend
      <4> QED BY <1>3, <3>1, <3>3, <4>1, <4>2
    <3> QED BY <1>5, <1>6, <3>1, <3>2, <3>3
  <2>2. CASE DecoderEnds \/ StaleGet
    BY <1>3, <1>5, <2>2 DEF DecoderEnds, StaleGet
  <2> QED BY <1>13, <2>1, <2>2 DEF DecoderStep
<1>14. CASE DecoderGivesUp \/ LagTick
  BY <1>3, <1>5, <1>14 DEF DecoderGivesUp, LagTick
<1>15. CASE Raise
  BY <1>3, <1>6, <1>15 DEF Raise
<1> QED BY <1>10, <1>11, <1>12, <1>13, <1>14, <1>15 DEF SessionNext

-----------------------------------------------------------------------------
(* The stages of a session *)

LEMMA StageStep == SessionTypeOK /\ ModeKept /\ StageKept /\ [SessionNext]_sessionVars => StageKept'
<1> SUFFICES ASSUME SessionTypeOK, ModeKept, StageKept, [SessionNext]_sessionVars PROVE StageKept'
  OBVIOUS
<1> USE DEF StageKept, audio, decoder
<1>0. /\ buf \in Nat /\ lag \in Int /\ {hard, ended} \subseteq BOOLEAN /\ terms \in Nat /\ rate \in Nat
      /\ {closing, monitored} \subseteq BOOLEAN
  BY SessionTypes
<1>1. ASSUME NEW l \in Int, EvaluateLag(l) PROVE ended' \in BOOLEAN /\ (ended => ended')
  BY <1>0, <1>1, LagEffect
<1>2. CASE UNCHANGED sessionVars
  BY <1>2 DEF sessionVars, flags
<1>3. CASE LagTick
  BY <1>0, <1>1, <1>3 DEF LagTick
<1>4. ASSUME Processed PROVE at' = "chunks"
  BY <1>4 DEF Processed
<1>5. ASSUME DiscardTail PROVE at' = "recv" /\ buf' = 0
  BY <1>5 DEF DiscardTail
<1>6. ASSUME EndSession PROVE at' = "bye" \/ (at' = "asr" /\ then' = "end")
  BY <1>6 DEF EndSession, Transcribe
<1>11. CASE Client
  <2>1. ASSUME NEW n \in 1 .. MaxMessage, Audio(n) PROVE StageKept'
    BY <2>1 DEF Audio
  <2>2. CASE Flush
    BY <1>5, <2>2 DEF Flush, Transcribe, FlushFinal
  <2>3. CASE Clear
    BY <1>5, <2>3 DEF Clear
  <2>4. CASE EndMessage
    <3>1. CASE mode = "stream"
      BY <1>0, <1>1, <2>4, <3>1 DEF EndMessage
    <3>2. CASE mode # "stream"
      BY <1>6, <2>4, <3>2 DEF EndMessage, flags
    <3> QED BY <3>1, <3>2
  <2>5. ASSUME NEW p \in Pads, Config(p) PROVE StageKept'
    BY <1>0, <1>1, <2>5 DEF Config
  <2>6. CASE LeaveLoop
    BY <2>6 DEF LeaveLoop
  <2> QED BY <1>11, <2>1, <2>2, <2>3, <2>4, <2>5, <2>6 DEF Client
<1>12. CASE Handle
  <2>1. ASSUME NEW voice \in BOOLEAN, ChunkContinues(voice) PROVE StageKept'
    BY <1>4, <2>1 DEF ChunkContinues
  <2>2. ASSUME NEW voice \in BOOLEAN, ChunkEnds(voice) PROVE StageKept'
    <3>1. at = "chunks" /\ mode = "vad" /\ UNCHANGED <<mode, parts, dec, monitored>>
      BY <2>2 DEF ChunkEnds
    <3>2. at' = "chunks" \/ (at' = "asr" /\ then' = "chunk")
      BY <1>4, <2>2 DEF ChunkEnds, Transcribe
    <3> QED BY <3>1, <3>2
  <2>3. ASSUME NEW voice \in BOOLEAN, Put(voice) PROVE StageKept'
    BY <1>4, <2>3 DEF Put, FlushFinal
  <2>4. CASE ChunkCollected
    BY <1>4, <2>4 DEF ChunkCollected, Transcribe
  <2>5. CASE ChunkToQueue
    BY <2>5 DEF ChunkToQueue
  <2>6. CASE ChunksDone
    BY <1>0, <2>6 DEF ChunksDone, flags
  <2>7. CASE Sent
    BY <1>4, <1>5, <2>7 DEF Sent, FinalSent
  <2>8. CASE Transcribed
    <3>1. CASE then = "end" /\ at' = "bye" /\ UNCHANGED <<audio, flags>>
      BY <2>8, <3>1 DEF Transcribed, flags
    <3>2. CASE then # "end"
      BY <1>4, <1>5, <2>8, <3>2 DEF Transcribed
    <3> QED BY <2>8, <3>1, <3>2 DEF Transcribed
  <2>9. CASE Goodbye
    BY <2>9 DEF Goodbye, flags
  <2>10. CASE Ended
    BY <1>0, <2>10 DEF Ended
  <2>11. CASE LeaveLoop
    BY <2>11 DEF LeaveLoop
  <2>12. CASE StopDecoder
    BY <2>12 DEF StopDecoder
  <2>13. CASE Drained
    BY <2>13 DEF Drained, ModeKept
  <2>14. CASE FinishSession
    BY <1>6, <2>14 DEF FinishSession
  <2> QED BY <1>12, <2>1, <2>2, <2>3, <2>4, <2>5, <2>6, <2>7, <2>8, <2>9, <2>10, <2>11, <2>12, <2>13, <2>14 DEF Handle
<1>13. CASE DecoderStep
  BY <1>13 DEF DecoderStep, Decode, DecoderEnds, StaleGet, flags
<1>14. CASE DecoderGivesUp
  BY <1>14 DEF DecoderGivesUp, flags
<1>15. CASE Raise
  BY <1>15 DEF Raise
<1> QED BY <1>2, <1>3, <1>11, <1>12, <1>13, <1>14, <1>15 DEF SessionNext

\* The lag is the backlog.
LEMMA LagStep == SessionTypeOK /\ ModeKept /\ StageKept /\ LagIsBacklog /\ [SessionNext]_sessionVars => LagIsBacklog'
<1> SUFFICES ASSUME SessionTypeOK, ModeKept, StageKept, LagIsBacklog, [SessionNext]_sessionVars, rate' = 2 PROVE LagIsBacklog'
  BY DEF LagIsBacklog
<1> DEFINE hand == at = "put" \/ (at \in {"asr", "final"} /\ then \in {"chunk", "timed"})
<1>0. rate = 2 /\ buf \in Nat /\ lag \in Int /\ UNCHANGED rate
  <2>1. UNCHANGED rate
    BY DEF SessionNext, Client, Handle, DecoderStep, LagTick, Audio, ChunksDone, ChunkContinues, ChunkEnds, ChunkCollected,
           ChunkToQueue, Put, Sent, Decode, DecoderEnds, DecoderGivesUp, StaleGet, Flush, Clear, Config, EndMessage,
           Transcribed, Goodbye, Ended, LeaveLoop, Raise, StopDecoder, Drained, FinishSession, sessionVars
  <2> QED BY <2>1, SessionTypes
<1>1. lag = 2 * buf + (IF hand THEN 4 ELSE 0)
  BY <1>0 DEF LagIsBacklog
<1>2. SUFFICES lag' = 2 * buf' + (IF hand' THEN 4 ELSE 0)
  BY DEF LagIsBacklog
<1> USE DEF audio
<1>3. ASSUME UNCHANGED <<lag, buf>>, hand' <=> hand PROVE lag' = 2 * buf' + (IF hand' THEN 4 ELSE 0)
  BY <1>1, <1>3
<1>4. ASSUME Processed, hand, UNCHANGED buf PROVE lag' = 2 * buf' + (IF hand' THEN 4 ELSE 0)
  BY <1>0, <1>1, <1>4 DEF Processed
<1>5. ASSUME Processed, ~hand, buf >= 2, buf' = buf - 2 PROVE lag' = 2 * buf' + (IF hand' THEN 4 ELSE 0)
  BY <1>0, <1>1, <1>5 DEF Processed
<1>6. ASSUME hand', ~hand, buf >= 2, buf' = buf - 2, UNCHANGED lag PROVE lag' = 2 * buf' + (IF hand' THEN 4 ELSE 0)
  BY <1>0, <1>1, <1>6
<1>7. ASSUME DiscardTail, ~hand PROVE lag' = 2 * buf' + (IF hand' THEN 4 ELSE 0)
  BY <1>0, <1>1, <1>7 DEF DiscardTail
<1>8. ASSUME EndSession, ~hand, UNCHANGED <<lag, buf>> PROVE lag' = 2 * buf' + (IF hand' THEN 4 ELSE 0)
  BY <1>3, <1>8 DEF EndSession, Transcribe
<1> HIDE DEF hand
<1>9. /\ at \notin {"put", "asr", "final"} => ~hand
      /\ at' \notin {"put", "asr", "final"} => ~hand'
      /\ at = "put" \/ (at \in {"asr", "final"} /\ then \in {"chunk", "timed"}) <=> hand
      /\ at' = "put" \/ (at' \in {"asr", "final"} /\ then' \in {"chunk", "timed"}) <=> hand'
  BY DEF hand
<1>11. CASE Client
  <2>1. ASSUME NEW n \in 1 .. MaxMessage, Audio(n) PROVE lag' = 2 * buf' + (IF hand' THEN 4 ELSE 0)
    <3>1. buf' = buf + n /\ lag' = lag + n * 2 /\ ~hand /\ ~hand'
      BY <1>0, <1>9, <2>1 DEF Audio
    <3> QED BY <1>0, <1>1, <3>1
  <2>2. CASE Flush
    <3>1. ~hand
      BY <1>9, <2>2 DEF Flush
    <3>2. CASE DiscardTail
      BY <1>7, <3>1, <3>2
    <3>3. CASE UNCHANGED audio /\ at' \in {"asr", "final"} /\ then' = "flush"
      BY <1>3, <1>9, <3>1, <3>3
    <3> QED BY <2>2, <3>2, <3>3 DEF Flush, Transcribe, FlushFinal
  <2>3. CASE Clear
    BY <1>7, <1>9, <2>3 DEF Clear
  <2>4. CASE EndMessage
    BY <1>3, <1>8, <1>9, <2>4 DEF EndMessage
  <2>5. ASSUME NEW p \in Pads, Config(p) PROVE lag' = 2 * buf' + (IF hand' THEN 4 ELSE 0)
    BY <1>3, <1>9, <2>5 DEF Config
  <2>6. CASE LeaveLoop
    BY <1>3, <1>9, <2>6 DEF LeaveLoop
  <2> QED BY <1>11, <2>1, <2>2, <2>3, <2>4, <2>5, <2>6 DEF Client
<1>12. CASE Handle
  <2>1. ASSUME NEW voice \in BOOLEAN, ChunkContinues(voice) PROVE lag' = 2 * buf' + (IF hand' THEN 4 ELSE 0)
    BY <1>5, <1>9, <2>1 DEF ChunkContinues, Take
  <2>2. ASSUME NEW voice \in BOOLEAN, ChunkEnds(voice) PROVE lag' = 2 * buf' + (IF hand' THEN 4 ELSE 0)
    <3>1. ~hand /\ buf >= 2 /\ buf' = buf - 2
      BY <1>9, <2>2 DEF ChunkEnds, Take
    <3>2. Processed \/ (hand' /\ UNCHANGED lag)
      BY <1>9, <2>2 DEF ChunkEnds, Transcribe
    <3> QED BY <1>5, <1>6, <3>1, <3>2
  <2>3. ASSUME NEW voice \in BOOLEAN, Put(voice) PROVE lag' = 2 * buf' + (IF hand' THEN 4 ELSE 0)
    <3>1. hand /\ UNCHANGED buf
      BY <1>9, <2>3 DEF Put
    <3>2. Processed \/ (hand' /\ UNCHANGED lag)
      BY <1>9, <2>3 DEF Put, FlushFinal
    <3> QED BY <1>3, <1>4, <3>1, <3>2
  <2>4. CASE ChunkCollected
    <3>1. ~hand /\ buf >= 2 /\ buf' = buf - 2
      BY <1>9, <2>4 DEF ChunkCollected, Take
    <3>2. Processed \/ (hand' /\ UNCHANGED lag)
      BY <1>9, <2>4 DEF ChunkCollected, Transcribe
    <3> QED BY <1>5, <1>6, <3>1, <3>2
  <2>5. CASE ChunkToQueue
    BY <1>6, <1>9, <2>5 DEF ChunkToQueue, Take
  <2>6. CASE ChunksDone
    BY <1>3, <1>9, <2>6 DEF ChunksDone
  <2>7. CASE Sent
    BY <1>4, <1>7, <1>9, <2>7 DEF Sent
  <2>8. CASE Transcribed
    <3>1. CASE then = "end" /\ at' = "bye" /\ UNCHANGED audio
      BY <1>3, <1>9, <2>8, <3>1 DEF Transcribed
    <3>2. CASE then \in {"chunk", "timed"} /\ Processed /\ UNCHANGED buf
      BY <1>4, <1>9, <2>8, <3>2 DEF Transcribed
    <3>3. CASE then = "flush" /\ DiscardTail
      BY <1>7, <1>9, <2>8, <3>3 DEF Transcribed
    <3> QED BY <2>8, <3>1, <3>2, <3>3 DEF Transcribed
  <2>9. CASE Goodbye \/ Ended \/ LeaveLoop
    BY <1>3, <1>9, <2>9 DEF Goodbye, Ended, LeaveLoop
  <2>10. CASE StopDecoder \/ Drained
    BY <1>3, <1>9, <2>10 DEF StopDecoder, Drained
  <2>11. CASE FinishSession
    BY <1>3, <1>8, <1>9, <2>11 DEF FinishSession
  <2> QED BY <1>12, <2>1, <2>2, <2>3, <2>4, <2>5, <2>6, <2>7, <2>8, <2>9, <2>10, <2>11 DEF Handle
<1>13. CASE DecoderStep \/ DecoderGivesUp \/ LagTick \/ UNCHANGED sessionVars
  BY <1>3, <1>9, <1>13 DEF DecoderStep, Decode, DecoderEnds, StaleGet, DecoderGivesUp, LagTick, sessionVars
<1>14. CASE Raise
  BY <1>3, <1>9, <1>14 DEF Raise
<1> QED BY <1>11, <1>12, <1>13, <1>14 DEF SessionNext

\* What ends a session ends it once.
LEMMA EndingStep ==
    ASSUME SessionTypeOK, ModeKept, StageKept, LagIsBacklog, EndingKept, OneGoodbye, [SessionNext]_sessionVars
    PROVE  EndingKept' /\ OneGoodbye'
<1> USE DEF audio, decoder
<1>0. /\ buf \in Nat /\ lag \in Int /\ {hard, ended, monitored} \subseteq BOOLEAN /\ terms \in Nat /\ ends \in Nat
      /\ rate \in Nat /\ HardLag \in Nat /\ HardLag > 2
  BY SessionTypes, SessionBounds
<1>1. ASSUME NEW l \in Int, EvaluateLag(l)
      PROVE  \/ ended' = ended /\ terms' = terms
             \/ ~ended /\ l >= HardLag /\ ended' = TRUE /\ terms' = terms + 1
  BY <1>0, <1>1, LagEffect
<1>2. UNCHANGED rate
  BY DEF SessionNext, Client, Handle, DecoderStep, LagTick, Audio, ChunksDone, ChunkContinues, ChunkEnds, ChunkCollected,
         ChunkToQueue, Put, Sent, Decode, DecoderEnds, DecoderGivesUp, StaleGet, Flush, Clear, Config, EndMessage,
         Transcribed, Goodbye, Ended, LeaveLoop, Raise, StopDecoder, Drained, FinishSession, sessionVars
<1> USE DEF EndingKept, OneGoodbye
\* A termination: nothing was said before.
<1>3. ASSUME ~ended, ended' = TRUE, terms' = terms + 1, UNCHANGED ends, at # "ending", at' # "ending",
             at' = "bye" \/ (at' = "asr" /\ then' = "end") => ends = 0
      PROVE  EndingKept' /\ OneGoodbye'
  BY <1>0, <1>3
\* No termination, and the handler does not come to the end.
<1>4. ASSUME UNCHANGED <<ends, ended, terms>>, at # "ending", at' \notin {"bye"}, at' = "asr" => then' # "end" \/ UNCHANGED <<at, then>>
      PROVE  EndingKept' /\ OneGoodbye'
  BY <1>0, <1>2, <1>4
<1>5. ASSUME UNCHANGED <<ends, ended, terms, at, then>> PROVE EndingKept' /\ OneGoodbye'
  BY <1>0, <1>2, <1>5
<1>6. ASSUME NEW l \in Int, EvaluateLag(l), UNCHANGED ends, at # "ending", at' \notin {"bye", "asr", "ending"}
      PROVE  EndingKept' /\ OneGoodbye'
  BY <1>1, <1>3, <1>4, <1>6
<1>7. ASSUME Processed \/ DiscardTail, UNCHANGED ends, at # "ending" PROVE EndingKept' /\ OneGoodbye'
  <2>1. lag - 4 \in Int /\ lag - 2 * buf \in Int
    BY <1>0
  <2> QED BY <1>6, <1>7, <2>1 DEF Processed, DiscardTail
<1>8. ASSUME EndSession, ~ended, at # "ending", UNCHANGED <<ends, ended, terms>> PROVE EndingKept' /\ OneGoodbye'
  <2>1. ends = 0 /\ terms = 0
    BY <1>0, <1>8
  <2> QED BY <1>0, <1>2, <1>8, <2>1 DEF EndSession, Transcribe
<1>10. CASE UNCHANGED sessionVars
  BY <1>5, <1>10 DEF sessionVars, flags
<1>11. CASE Client
  <2>1. ASSUME NEW n \in 1 .. MaxMessage, Audio(n) PROVE EndingKept' /\ OneGoodbye'
    <3>1. n * rate \in Int
      BY <1>0
    <3>2. lag + n * rate \in Int
      BY <1>0, <3>1
    <3> QED BY <1>6, <2>1, <3>2 DEF Audio
  <2>2. CASE Flush
    <3>1. CASE DiscardTail
      BY <1>7, <2>2, <3>1 DEF Flush
    <3>2. CASE UNCHANGED flags /\ at' \in {"asr", "final"} /\ then' = "flush"
      BY <1>4, <2>2, <3>2 DEF Flush, flags
    <3> QED BY <2>2, <3>1, <3>2 DEF Flush, Transcribe, FlushFinal
  <2>3. CASE Clear
    BY <1>7, <2>3 DEF Clear
  <2>4. CASE EndMessage
    <3>1. CASE mode = "stream"
      BY <1>0, <1>6, <2>4, <3>1 DEF EndMessage
    <3>2. CASE mode # "stream"
      BY <1>8, <2>4, <3>2 DEF EndMessage, flags
    <3> QED BY <3>1, <3>2
  <2>5. ASSUME NEW p \in Pads, Config(p) PROVE EndingKept' /\ OneGoodbye'
    BY <1>0, <1>6, <2>5 DEF Config
  <2>6. CASE LeaveLoop
    BY <1>4, <2>6 DEF LeaveLoop, flags
  <2> QED BY <1>11, <2>1, <2>2, <2>3, <2>4, <2>5, <2>6 DEF Client
<1>12. CASE Handle
  <2>1. ASSUME NEW voice \in BOOLEAN, ChunkContinues(voice) PROVE EndingKept' /\ OneGoodbye'
    BY <1>7, <2>1 DEF ChunkContinues
  <2>2. ASSUME NEW voice \in BOOLEAN, ChunkEnds(voice) PROVE EndingKept' /\ OneGoodbye'
    <3>1. at = "chunks" /\ UNCHANGED ends
      BY <2>2 DEF ChunkEnds
    <3>2. Processed \/ (at' = "asr" /\ then' = "chunk" /\ UNCHANGED flags)
      BY <2>2 DEF ChunkEnds, Transcribe
    <3> QED BY <1>4, <1>7, <3>1, <3>2 DEF flags
  <2>3. ASSUME NEW voice \in BOOLEAN, Put(voice) PROVE EndingKept' /\ OneGoodbye'
    <3>1. at = "put" /\ UNCHANGED ends
      BY <2>3 DEF Put
    <3>2. Processed \/ (at' = "final" /\ UNCHANGED flags)
      BY <2>3 DEF Put, FlushFinal
    <3> QED BY <1>4, <1>7, <3>1, <3>2 DEF flags
  <2>4. CASE ChunkCollected
    <3>1. at = "chunks" /\ UNCHANGED ends
      BY <2>4 DEF ChunkCollected
    <3>2. Processed \/ (at' = "asr" /\ then' = "timed" /\ UNCHANGED flags)
      BY <2>4 DEF ChunkCollected, Transcribe
    <3> QED BY <1>4, <1>7, <3>1, <3>2 DEF flags
  <2>5. CASE ChunkToQueue \/ ChunksDone
    BY <1>4, <2>5 DEF ChunkToQueue, ChunksDone, flags
  <2>6. CASE Sent
    BY <1>7, <2>6 DEF Sent
  <2>7. CASE Transcribed
    <3>1. CASE then = "end" /\ at' = "bye" /\ UNCHANGED flags
      BY <1>0, <1>2, <2>7, <3>1 DEF Transcribed, flags
    <3>2. CASE Processed \/ DiscardTail
      BY <1>7, <2>7, <3>2 DEF Transcribed
    <3> QED BY <2>7, <3>1, <3>2 DEF Transcribed
  <2>8. CASE Goodbye
    BY <1>0, <1>2, <2>8 DEF Goodbye, EndsSent, flags
  <2>9. CASE Ended
    BY <1>0, <1>2, <2>9 DEF Ended
  <2>10. CASE LeaveLoop \/ StopDecoder \/ Drained
    BY <1>4, <2>10 DEF LeaveLoop, StopDecoder, Drained, flags
  <2>11. CASE FinishSession
    BY <1>4, <1>8, <2>11 DEF FinishSession, flags
  <2> QED BY <1>12, <2>1, <2>2, <2>3, <2>4, <2>5, <2>6, <2>7, <2>8, <2>9, <2>10, <2>11 DEF Handle
<1>13. CASE LagTick
  <2>1. /\ monitored /\ EvaluateLag(lag) /\ UNCHANGED <<at, then, ends>>
    BY <1>13 DEF LagTick
  <2>2. CASE UNCHANGED <<ended, terms>>
    BY <1>5, <2>1, <2>2
  <2>3. CASE ~ended /\ lag >= HardLag /\ ended' = TRUE /\ terms' = terms + 1
    <3>1. terms = 0
      BY <1>0, <2>3
    <3>2. CASE at = "ending"
      <4>1. rate = 2 => lag <= 2
        BY <1>0, <2>1, <2>3, <3>2 DEF LagIsBacklog, StageKept
      <4> QED BY <1>0, <1>2, <2>1, <2>3, <3>1, <3>2, <4>1
    <3>3. CASE at # "ending"
      BY <1>3, <2>1, <2>3, <3>3
    <3> QED BY <3>2, <3>3
  <2> QED BY <1>0, <1>1, <2>1, <2>2, <2>3
<1>14. CASE DecoderStep \/ DecoderGivesUp
  BY <1>5, <1>14 DEF DecoderStep, Decode, DecoderEnds, StaleGet, DecoderGivesUp, flags
<1>15. CASE Raise
  BY <1>4, <1>15 DEF Raise, flags
<1> QED BY <1>10, <1>11, <1>12, <1>13, <1>14, <1>15 DEF SessionNext

\* What was stored is what was sent, and whatever was uploaded is dealt with.
LEMMA StoreStep ==
    ASSUME SessionTypeOK, ModeKept, StageKept, EndingKept, StoredKept, StoreSettled, [SessionNext]_sessionVars
    PROVE  StoredKept' /\ StoreSettled'
<1> USE DEF StoredKept, StoreSettled, audio, decoder
<1>0. /\ store \in {"off", "open", "broken", "saved", "gone"} /\ {ended, monitored, hard} \subseteq BOOLEAN /\ lag \in Int /\ terms \in Nat
  BY SessionTypes DEF SessionTypeOK
<1>1. ASSUME NEW l \in Int, EvaluateLag(l) PROVE ended => ended'
  BY <1>0, <1>1, LagEffect
\* While something can be added nothing is stored yet.
<1>2. ASSUME store # "saved", UNCHANGED store, at' \notin {"ending", "over"} PROVE StoredKept' /\ StoreSettled'
  BY <1>2
<1>3. at \in {"chunks", "put", "asr", "final", "wait", "bye"} \/ (at \in {"recv", "last"} /\ ~ended) => store # "saved"
  OBVIOUS
<1>4. ASSUME UNCHANGED <<store, saved, finals, at, mode>>, ended => ended' PROVE StoredKept' /\ StoreSettled'
  BY <1>0, <1>4
<1>10. CASE UNCHANGED sessionVars
  BY <1>4, <1>10 DEF sessionVars, flags
<1>11. CASE Client
  <2>1. CASE LeaveLoop
    BY <2>1 DEF LeaveLoop, flags
  <2>2. CASE ~LeaveLoop
    <3>1. /\ at = "recv" /\ ~ended /\ UNCHANGED store /\ at' \notin {"ending", "over"}
      BY <1>11, <2>2 DEF Client, Audio, Flush, Transcribe, FlushFinal, DiscardTail, Clear, EndMessage, EndSession, Config
    <3> QED BY <1>2, <1>3, <3>1
  <2> QED BY <2>1, <2>2
<1>12. CASE Handle
  <2>1. ASSUME NEW voice \in BOOLEAN, ChunkContinues(voice) \/ ChunkEnds(voice) \/ Put(voice) PROVE StoredKept' /\ StoreSettled'
    <3>1. at \in {"chunks", "put"} /\ UNCHANGED store /\ at' \in {"chunks", "asr", "final"}
      BY <2>1 DEF ChunkContinues, ChunkEnds, Put, Processed, Transcribe, FlushFinal
    <3> QED BY <1>2, <1>3, <3>1
  <2>2. CASE ChunkCollected \/ ChunkToQueue \/ ChunksDone \/ Sent
    <3>1. at \in {"chunks", "final"} /\ UNCHANGED store /\ at' \in {"chunks", "asr", "put", "recv"}
      BY <2>2 DEF ChunkCollected, ChunkToQueue, ChunksDone, Sent, Processed, DiscardTail, Transcribe
    <3> QED BY <1>2, <1>3, <3>1
  <2>3. CASE Transcribed
    <3>1. at = "asr" /\ UNCHANGED store /\ at' \in {"chunks", "recv", "bye"}
      BY <2>3 DEF Transcribed, Processed, DiscardTail
    <3> QED BY <1>2, <1>3, <3>1
  <2>4. CASE Goodbye
    BY <1>3, <2>4 DEF Goodbye, flags
  <2>5. CASE Ended
    BY <2>5 DEF Ended, StageKept
  <2>6. CASE LeaveLoop
    BY <2>6 DEF LeaveLoop, flags
  <2>7. CASE StopDecoder
    BY <2>7 DEF StopDecoder, flags
  <2>8. CASE Drained
    <3>1. mode = "stream" => store # "saved"
      BY <2>8 DEF Drained
    <3>2. mode # "stream" => finals' = finals
      BY <2>8 DEF Drained, ModeKept
    <3> QED BY <2>8, <3>1, <3>2 DEF Drained, flags
  <2>9. CASE FinishSession
    <3>1. CASE ~ended /\ EndSession /\ UNCHANGED store
      BY <1>2, <1>3, <2>9, <3>1 DEF FinishSession, EndSession, Transcribe
    <3>2. CASE ended /\ at' = "over" /\ store' = Cleanup
      BY <1>0, <2>9, <3>2 DEF FinishSession, Cleanup, flags
    <3> QED BY <2>9, <3>1, <3>2 DEF FinishSession
  <2> QED BY <1>12, <2>1, <2>2, <2>3, <2>4, <2>5, <2>6, <2>7, <2>8, <2>9 DEF Handle
<1>13. CASE LagTick
  BY <1>0, <1>1, <1>4, <1>13 DEF LagTick
<1>14. CASE DecoderStep \/ DecoderGivesUp
  BY <1>4, <1>14 DEF DecoderStep, Decode, DecoderEnds, StaleGet, DecoderGivesUp, flags
<1>15. CASE Raise
  BY <1>2, <1>3, <1>15 DEF Raise
<1> QED BY <1>10, <1>11, <1>12, <1>13, <1>14, <1>15 DEF SessionNext

-----------------------------------------------------------------------------
(* Nothing that was said vanishes *)

\* The words that are being sent and those that came meanwhile are all the words.
LEMMA SplitElements ==
    ASSUME NEW s \in Seq(Nat), NEW n \in Nat, n <= Len(s)
    PROVE  /\ ToSet(s) \subseteq ToSet(SubSeq(s, 1, n)) \cup ToSet(SubSeq(s, n + 1, Len(s)))
           /\ ToSet(SubSeq(s, n + 1, Len(s))) = {s[i] : i \in n + 1 .. Len(s)}
<1>0. Len(s) \in Nat /\ \A i \in 1 .. Len(s) : s[i] \in Nat
  BY ElementOfSeq
<1> DEFINE a == SubSeq(s, 1, n)
           b == SubSeq(s, n + 1, Len(s))
<1>1. a \in Seq(Nat) /\ Len(a) = n /\ \A i \in 1 .. n : a[i] = s[i]
  <2>1. \A i \in 1 .. n : s[i] \in Nat
    BY <1>0
  <2>2. /\ a \in Seq(Nat) /\ Len(a) = (IF 1 <= n THEN n - 1 + 1 ELSE 0)
        /\ \A i \in 1 .. n - 1 + 1 : a[i] = s[1 + i - 1]
    BY <2>1, SubSeqProperties
  <2> HIDE DEF a
  <2> QED BY <2>2
<1>2. b \in Seq(Nat) /\ Len(b) = Len(s) - n /\ \A i \in 1 .. Len(s) - n : b[i] = s[n + i]
  <2>1. \A i \in n + 1 .. Len(s) : s[i] \in Nat
    BY <1>0
  <2>2. /\ b \in Seq(Nat) /\ Len(b) = (IF n + 1 <= Len(s) THEN Len(s) - (n + 1) + 1 ELSE 0)
        /\ \A i \in 1 .. Len(s) - (n + 1) + 1 : b[i] = s[n + 1 + i - 1]
    BY <1>0, <2>1, SubSeqProperties
  <2> HIDE DEF b
  <2> QED BY <1>0, <2>2
<1> HIDE DEF a, b
<1>3. /\ \A y : y \in ToSet(s) <=> \E i \in 1 .. Len(s) : s[i] = y
      /\ \A y : y \in ToSet(a) <=> \E i \in 1 .. n : a[i] = y
      /\ \A y : y \in ToSet(b) <=> \E i \in 1 .. Len(s) - n : b[i] = y
  BY <1>1, <1>2, Elements
<1>4. ASSUME NEW i \in 1 .. Len(s) PROVE s[i] \in ToSet(a) \cup ToSet(b)
  <2>1. CASE i <= n
    BY <1>0, <1>1, <1>3, <2>1
  <2>2. CASE i > n
    <3>1. i - n \in 1 .. Len(s) - n /\ n + (i - n) = i
      BY <1>0, <2>2
    <3>2. b[i - n] = s[i]
      BY <1>2, <3>1
    <3> QED BY <1>3, <3>1, <3>2
  <2> QED BY <1>0, <2>1, <2>2
<1>5. ToSet(s) \subseteq ToSet(a) \cup ToSet(b)
  BY <1>3, <1>4
<1>6. ASSUME NEW i \in n + 1 .. Len(s) PROVE s[i] \in ToSet(b)
  <2>1. i - n \in 1 .. Len(s) - n /\ n + (i - n) = i
    BY <1>0
  <2>2. b[i - n] = s[i]
    BY <1>2, <2>1
  <2> QED BY <1>3, <2>1, <2>2
<1>7. ASSUME NEW j \in 1 .. Len(s) - n PROVE b[j] \in {s[i] : i \in n + 1 .. Len(s)}
  <2>1. n + j \in n + 1 .. Len(s)
    BY <1>0
  <2> QED BY <1>2, <2>1
<1>8. ToSet(b) = {s[i] : i \in n + 1 .. Len(s)}
  BY <1>3, <1>6, <1>7
<1> QED BY <1>5, <1>8 DEF a, b

\* The last segment is one of them.
LEMMA LastIsSent ==
    ASSUME NEW ss \in Seq(Seq(Nat)), ss # <<>>
    PROVE  /\ Len(ss) \in 1 .. Len(ss) /\ ToSet(Last(ss)) \subseteq Chunks(ss)
           /\ \A i \in 1 .. Len(ss) : ToSet(ss[i]) \subseteq Chunks(ss)
<1>1. Len(ss) \in Nat \ {0} /\ DOMAIN ss = 1 .. Len(ss)
  BY EmptySeq
<1>2. \A i \in 1 .. Len(ss) : ToSet(ss[i]) \subseteq Chunks(ss)
  BY <1>1 DEF Chunks
<1>3. Len(ss) \in 1 .. Len(ss)
  BY <1>1
<1>4. ToSet(ss[Len(ss)]) \subseteq Chunks(ss)
  BY <1>2, <1>3
<1> QED BY <1>2, <1>3, <1>4 DEF Last

\* The chunk, and what the utterance held, is in the utterance.
LEMMA DetectKeeps ==
    ASSUME SessionTypeOK, ModeKept, NEW c \in Nat, NEW voice \in BOOLEAN
    PROVE  LET v == Detect(c, voice)
           IN  /\ ToSet(vad.speech) \subseteq ToSet(v.speech)
               /\ voice => c \in ToSet(v.speech)
               /\ ToSet(v.speech) \subseteq ToSet(vad.speech) \cup ToSet(vad.look) \cup {c}
               /\ ToSet(v.look) \subseteq ToSet(vad.look) \cup {c}
<1> DEFINE v == Detect(c, voice)
<1>1. vad \in Detectors /\ \E p \in Pads : Len(vad.look) <= p
  BY SessionTypes
<1>2. vad.speech \in Seq(Nat) /\ vad.speaking \in BOOLEAN
  BY SessionTypes
<1>3. /\ v.look = Looked(c)
      /\ vad.speaking => v.speech = Append(vad.speech, c)
      /\ ~vad.speaking /\ voice => v.speech = Looked(c)
      /\ ~vad.speaking /\ ~voice => v.speech = vad.speech
  BY <1>1, DetectEffect
<1> HIDE DEF v
<1>4. ToSet(Looked(c)) \subseteq ToSet(vad.look) \cup {c} /\ c \in ToSet(Looked(c))
  BY <1>1, LookedEffect
<1>5. ToSet(Append(vad.speech, c)) = ToSet(vad.speech) \cup {c}
  BY <1>2, ElementsOfAppend
<1>6. ~vad.speaking => ToSet(vad.speech) = {}
  BY NothingYet DEF ModeKept
<1> QED BY <1>3, <1>4, <1>5, <1>6 DEF v

\* Every step takes what was said along.
LEMMA SpeechStep == SessionTypeOK /\ ModeKept /\ SpeechKept /\ [SessionNext]_sessionVars => SpeechKept'
<1> SUFFICES ASSUME SessionTypeOK, ModeKept, SpeechKept, [SessionNext]_sessionVars PROVE SpeechKept'
  OBVIOUS
<1> USE DEF SpeechKept, audio, decoder, fate
<1>0. /\ vad \in Detectors /\ vad.speech \in Seq(Nat) /\ {job, acc, queue, parts} \subseteq Seq(Nat)
      /\ finals \in Seq(Seq(Nat)) /\ Chunk \in Nat
  BY SessionTypes
<1>1. /\ ToSet(<<>>) = {} /\ Quiet(vad).speech = <<>>
  BY <1>0, ResetEffect, NothingYet
<1>2. ASSUME UNCHANGED <<mode, due, lost, raced, finals, acc, parts>>, vad'.speech = vad.speech, at' # "asr", at # "asr"
      PROVE  SpeechKept'
  BY <1>2
<1>3. ASSUME UNCHANGED <<mode, due, lost, raced, finals, acc, parts, at, job>>, vad'.speech = vad.speech PROVE SpeechKept'
  BY <1>3
\* What the detector held is transcribed, or dropped.
<1>4. ASSUME mode = "vad", at # "asr", UNCHANGED <<mode, due, raced, finals>>,
             \/ at' = "asr" /\ job' = vad.speech /\ lost' = lost
             \/ at' # "asr" /\ lost' = lost \cup ToSet(vad.speech)
      PROVE  SpeechKept'
  BY <1>4
\* Other modes keep nothing there.
<1>5. ASSUME mode # "vad", UNCHANGED <<mode, due, raced, finals, acc, parts>>, lost \subseteq lost'
      PROVE  SpeechKept'
  BY <1>5
<1>6. Remaining # <<>> => Remaining = vad.speech
  BY DEF Remaining
<1>7. ASSUME EndSession, at # "asr", UNCHANGED <<mode, due, raced, finals, acc, parts>> PROVE SpeechKept'
  <2>1. /\ lost \subseteq lost'
        /\ mode = "vad" =>
             \/ at' = "asr" /\ job' = vad.speech /\ lost' = lost
             \/ at' # "asr" /\ lost' = lost \cup ToSet(vad.speech)
    BY <1>6, <1>7 DEF EndSession, Transcribe
  <2> QED BY <1>4, <1>5, <1>7, <2>1
<1>10. CASE UNCHANGED sessionVars
  BY <1>3, <1>10 DEF sessionVars
<1>11. CASE Client
  <2>1. ASSUME NEW n \in 1 .. MaxMessage, Audio(n) PROVE SpeechKept'
    BY <1>2, <2>1 DEF Audio
  <2>2. CASE Flush
    <3>1. at = "recv" /\ vad' = Quiet(vad) /\ UNCHANGED <<mode, acc, parts, due, raced>>
      BY <2>2 DEF Flush
    <3>2. CASE mode = "vad" /\ Remaining # <<>> /\ Transcribe(Remaining, "flush") /\ UNCHANGED <<finals, lost>>
      BY <1>4, <1>6, <3>1, <3>2 DEF Transcribe
    <3>3. CASE mode = "stream" /\ FlushFinal("flush") /\ UNCHANGED lost
      <4>1. Chunks(finals) \subseteq Chunks(finals')
        BY <1>0, <3>3, ChunksOfAppend DEF FlushFinal
      <4> QED BY <3>1, <3>3, <4>1
    <3>4. CASE lost' = lost \cup ToSet(vad.speech) /\ DiscardTail /\ UNCHANGED finals
      <4>1. at' # "asr"
        BY <3>4 DEF DiscardTail
      <4> QED BY <1>4, <1>5, <3>1, <3>4, <4>1
    <3> QED BY <2>2, <3>2, <3>3, <3>4 DEF Flush
  <2>3. CASE Clear
    <3>1. /\ lost' = lost \cup ToSet(vad.speech) \cup ToSet(acc) \cup ToSet(parts)
          /\ at # "asr" /\ UNCHANGED <<mode, finals, due, raced>>
      BY <2>3 DEF Clear
    <3> QED BY <3>1
  <2>4. CASE EndMessage
    <3>1. CASE mode = "stream"
      BY <1>2, <2>4, <3>1 DEF EndMessage
    <3>2. CASE mode # "stream"
      BY <1>7, <2>4, <3>2 DEF EndMessage
    <3> QED BY <3>1, <3>2
  <2>5. ASSUME NEW p \in Pads, Config(p) PROVE SpeechKept'
    <3>1. vad'.speech = vad.speech
      BY <1>0, <2>5 DEF Config, Detectors
    <3> QED BY <1>2, <2>5, <3>1 DEF Config
  <2>6. CASE LeaveLoop
    BY <1>2, <2>6 DEF LeaveLoop
  <2> QED BY <1>11, <2>1, <2>2, <2>3, <2>4, <2>5, <2>6 DEF Client
<1>12. CASE Handle
  <2>1. ASSUME NEW voice \in BOOLEAN, ChunkContinues(voice) PROVE SpeechKept'
    <3> DEFINE v == Detect(Chunk, voice)
    <3>1. ToSet(vad.speech) \subseteq ToSet(v.speech) /\ (voice => Chunk \in ToSet(v.speech))
      BY <1>0, DetectKeeps
    <3>2. /\ mode = "vad" /\ at # "asr" /\ vad' = v /\ due' = (IF voice THEN due \cup {Chunk} ELSE due)
          /\ UNCHANGED <<mode, finals, lost>>
      BY <2>1 DEF ChunkContinues, Heard
    <3> HIDE DEF v
    <3> QED BY <3>1, <3>2
  <2>2. ASSUME NEW voice \in BOOLEAN, ChunkEnds(voice) PROVE SpeechKept'
    <3> DEFINE v == Detect(Chunk, voice)
    <3>1. ToSet(vad.speech) \subseteq ToSet(v.speech) /\ (voice => Chunk \in ToSet(v.speech))
      BY <1>0, DetectKeeps
    <3>2. /\ mode = "vad" /\ at # "asr" /\ due' = (IF voice THEN due \cup {Chunk} ELSE due)
          /\ UNCHANGED <<mode, finals>>
          /\ \/ at' = "asr" /\ job' = v.speech /\ lost' = lost
             \/ lost' = lost \cup ToSet(v.speech)
      BY <2>2 DEF ChunkEnds, Heard, Transcribe
    <3> HIDE DEF v
    <3> QED BY <3>1, <3>2
  <2>3. ASSUME NEW voice \in BOOLEAN, Put(voice) PROVE SpeechKept'
    <3>1. mode = "stream" /\ UNCHANGED <<mode, due, lost, raced, parts>>
      BY <2>3 DEF Put, ModeKept
    <3>2. finals' = finals \/ finals' = Append(finals, parts)
      BY <2>3 DEF Put, FlushFinal
    <3>3. Chunks(finals) \subseteq Chunks(finals')
      BY <1>0, <3>2, ChunksOfAppend
    <3> QED BY <3>1, <3>3
  <2>4. CASE ChunkCollected
    <3>1. /\ mode = "timed" /\ due' = due \cup {Chunk} /\ acc' = Append(acc, Chunk)
          /\ UNCHANGED <<mode, finals, lost>>
      BY <2>4 DEF ChunkCollected, Heard
    <3>2. ToSet(acc') = ToSet(acc) \cup {Chunk}
      <4>1. acc \in Seq(Nat)
        BY <1>0
      <4>2. Chunk \in Nat
        BY <1>0
      <4>3. ToSet(Append(acc, Chunk)) = ToSet(acc) \cup {Chunk}
        BY ONLY <4>1, <4>2, ElementsOfAppend
      <4> QED BY <3>1, <4>3
    <3> QED BY <3>1, <3>2
  <2>5. CASE ChunkToQueue
    BY <1>2, <2>5 DEF ChunkToQueue
  <2>6. CASE ChunksDone
    BY <1>2, <2>6 DEF ChunksDone
  <2>7. CASE Sent
    <3>1. /\ mode = "stream" /\ raced' = raced \cup ToSet(SubSeq(parts, Len(job) + 1, Len(parts)))
          /\ UNCHANGED <<mode, finals, due, lost>>
      BY <2>7 DEF Sent, FinalSent, ModeKept
    <3>2. /\ finals # <<>> /\ Last(finals) = job /\ Len(job) \in Nat /\ Len(job) <= Len(parts)
          /\ job = SubSeq(parts, 1, Len(job))
      BY SMTT(30), <1>0, <2>7 DEF Sent, ModeKept
    <3>3. ToSet(parts) \subseteq ToSet(job) \cup ToSet(SubSeq(parts, Len(job) + 1, Len(parts)))
      BY <1>0, <3>2, SplitElements
    <3>4. ToSet(job) \subseteq Chunks(finals)
      BY <1>0, <3>2, LastIsSent
    <3> QED BY <3>1, <3>3, <3>4
  <2>8. CASE Transcribed
    <3>1. /\ at = "asr" /\ at' # "asr" /\ UNCHANGED <<mode, vad, parts, due, raced>>
          /\ acc' = (IF then \in {"timed", "end"} THEN <<>> ELSE acc)
          /\ \/ finals' = Append(finals, job) /\ UNCHANGED lost
             \/ lost' = lost \cup ToSet(job) /\ UNCHANGED finals
      BY <2>8 DEF Transcribed, Processed, DiscardTail
    <3>2. Chunks(finals) \cup lost \cup ToSet(job) \subseteq Chunks(finals') \cup lost'
      <4>1. job \in Seq(Nat)
        BY <1>0
      <4>2. Chunks(Append(finals, job)) = Chunks(finals) \cup ToSet(job)
        BY <1>0, <4>1, ChunksOfAppend
      <4> QED BY <3>1, <4>2
    <3>3. mode = "timed" => job = acc
      BY <3>1 DEF ModeKept
    <3> QED BY <3>1, <3>2, <3>3
  <2>9. CASE Goodbye \/ Ended \/ LeaveLoop \/ StopDecoder
    BY <1>2, <2>9 DEF Goodbye, Ended, LeaveLoop, StopDecoder
  <2>10. CASE Drained
    <3>1. /\ at # "asr" /\ at' # "asr" /\ UNCHANGED <<mode, vad, acc, due, lost, raced>>
          /\ finals' = IF parts = <<>> THEN finals ELSE Append(finals, parts)
      BY <2>10 DEF Drained
    <3>2. Chunks(finals) \cup ToSet(parts) \subseteq Chunks(finals')
      BY <1>0, <1>1, <3>1, ChunksOfAppend
    <3> QED BY <3>1, <3>2
  <2>11. CASE FinishSession
    <3>1. CASE EndSession
      BY <1>7, <2>11, <3>1 DEF FinishSession
    <3>2. CASE at' = "over" /\ UNCHANGED <<vad, lost>>
      BY <1>2, <2>11, <3>2 DEF FinishSession
    <3> QED BY <2>11, <3>1, <3>2 DEF FinishSession
  <2> QED BY <1>12, <2>1, <2>2, <2>3, <2>4, <2>5, <2>6, <2>7, <2>8, <2>9, <2>10, <2>11 DEF Handle
<1>13. CASE Decode
  <2>1. /\ mode = "stream" /\ queue # <<>> /\ UNCHANGED <<mode, finals, lost, raced>>
        /\ \/ UNCHANGED <<parts, due>>
           \/ parts' = Append(parts, Head(queue)) /\ due' = due \cup {Head(queue)}
    BY <1>13 DEF Decode, ModeKept
  <2>2. Head(queue) \in Nat
    BY <1>0, <2>1, ElementsOfTail
  <2>3. ToSet(Append(parts, Head(queue))) = ToSet(parts) \cup {Head(queue)}
    BY <1>0, <2>2, ElementsOfAppend
  <2> QED BY <2>1, <2>3
<1>14. CASE DecoderEnds \/ StaleGet \/ DecoderGivesUp \/ LagTick
  BY <1>3, <1>14 DEF DecoderEnds, StaleGet, DecoderGivesUp, LagTick
<1>15. CASE Raise
  BY <1>2, <1>15 DEF Raise
<1> QED BY <1>10, <1>11, <1>12, <1>13, <1>14, <1>15 DEF SessionNext, DecoderStep

\* What is kept where the mode keeps it is kept.
LEMMA SpeechIsText == SessionTypeOK /\ SpeechKept => TextKept
<1>1. SessionTypeOK => mode \in {"vad", "timed", "stream"}
  BY SessionAssumption DEF SessionTypeOK
<1> QED BY <1>1 DEF SpeechKept, TextKept

-----------------------------------------------------------------------------(* Segments follow the audio *)

\* What is in s and in a sequence of k of its chunks.
LEMMA FirstFew ==
    ASSUME NEW s \in Seq(Nat), NEW k \in Nat, k <= Len(s), NEW T,
           \A y \in T : \E j \in 1 .. k : s[j] = y
    PROVE  IsFiniteSet(T) /\ Cardinality(T) <= k
<1> DEFINE S == {s[j] : j \in 1 .. k}
           f == [j \in 1 .. k |-> s[j]]
<1>1. f \in Surjection(1 .. k, S)
  BY DEF Surjection
<1>2. IsFiniteSet(1 .. k) /\ Cardinality(1 .. k) = k
  <2>1. IsFiniteSet(1 .. k) /\ Cardinality(1 .. k) = IF 1 > k THEN 0 ELSE k - 1 + 1
    BY FS_Interval
  <2> QED BY <2>1
<1>3. T \in SUBSET S
  OBVIOUS
<1> HIDE DEF S, f
<1>4. IsFiniteSet(S) /\ Cardinality(S) <= k
  BY <1>1, <1>2, FS_Surjection
<1>5. IsFiniteSet(T) /\ Cardinality(T) <= Cardinality(S)
  BY <1>3, <1>4, FS_Subset
<1>6. Cardinality(S) \in Nat /\ Cardinality(T) \in Nat
  BY <1>4, <1>5, FS_CardinalityType
<1> QED BY <1>4, <1>5, <1>6

\* The chunks of a sequence are finitely many.
LEMMA FiniteElements ==
    ASSUME NEW s \in Seq(Nat), NEW T, T \subseteq ToSet(s)
    PROVE  IsFiniteSet(T) /\ (Cardinality(T) = 0 <=> T = {})
<1>1. Len(s) \in Nat /\ \A y \in T : \E j \in 1 .. Len(s) : s[j] = y
  BY Elements
<1>2. IsFiniteSet(T)
  BY <1>1, FirstFew
<1> QED BY <1>2, FS_EmptySet

LEMMA FreshNothing == ASSUME NEW X PROVE Fresh(<<>>, X)
<1>0. PICK p \in Pads : TRUE
  BY SessionBounds
<1>1. p \in Pads /\ 0 < p
  <2>1. p \in Nat \ {0}
    BY SessionBounds
  <2> QED BY <2>1
<1>2. 0 \in 0 .. Len(<<>>) /\ ~(\E j \in 1 .. Len(<<>>) : TRUE)
  OBVIOUS
<1> QED BY <1>1, <1>2 DEF Fresh

LEMMA FreshAppend ==
    ASSUME NEW X, NEW s \in Seq(Nat), NEW c \in Nat, \A x \in X : x < c, Fresh(s, X)
    PROVE  Fresh(Append(s, c), X)
<1>1. PICK k \in 0 .. Len(s) : /\ \E p \in Pads : k < p
                               /\ s # <<>> => k < Len(s)
                               /\ \A j \in 1 .. Len(s) : j > k => \A x \in X : x < s[j]
  BY DEF Fresh
<1> DEFINE t == Append(s, c)
<1>2. Len(t) = Len(s) + 1 /\ t[Len(s) + 1] = c /\ \A i \in 1 .. Len(s) : t[i] = s[i]
  BY AppendProperties
<1>3. Len(s) \in Nat
  OBVIOUS
<1> HIDE DEF t
<1>4. k \in 0 .. Len(t) /\ k < Len(t)
  BY <1>2, <1>3
<1>5. ASSUME NEW j \in 1 .. Len(t), j > k, NEW x \in X PROVE x < t[j]
  <2>1. CASE j = Len(s) + 1
    BY <1>2, <2>1
  <2>2. CASE j # Len(s) + 1
    <3>1. j \in 1 .. Len(s)
      BY <1>2, <1>3, <2>2
    <3> QED BY <1>1, <1>2, <1>5, <3>1
  <2> QED BY <2>1, <2>2
<1>6. Fresh(t, X)
  BY <1>1, <1>4, <1>5 DEF Fresh
<1> QED BY <1>6 DEF t

\* The lookback and the chunk that begins an utterance: only the chunk needs to be new.
LEMMA FreshLookback ==
    ASSUME NEW X, NEW s \in Seq(Nat), s # <<>>, \A x \in X : x < Last(s), \E p \in Pads : Len(s) <= p
    PROVE  Fresh(s, X)
<1>1. Len(s) \in Nat \ {0}
  BY EmptySeq
<1>2. PICK p \in Pads : Len(s) <= p
  OBVIOUS
<1>3. p \in Nat
  BY SessionBounds
<1> DEFINE k == Len(s) - 1
<1>4. k \in 0 .. Len(s) /\ k < Len(s) /\ k < p
  BY <1>1, <1>2, <1>3
<1>5. \A j \in 1 .. Len(s) : j > k => j = Len(s)
  BY <1>1
<1> HIDE DEF k
<1>6. \A j \in 1 .. Len(s) : j > k => \A x \in X : x < s[j]
  BY <1>5 DEF Last
<1> QED BY <1>2, <1>4, <1>6 DEF Fresh

\* What is fresh ends later than any segment and shares less than a lookback with it.
LEMMA FreshOverlap ==
    ASSUME NEW X, NEW s \in Seq(Nat), s # <<>>, Fresh(s, X), NEW t \in Seq(Nat), t # <<>>,
           X \subseteq Nat, ToSet(t) \subseteq X
    PROVE  Last(t) < Last(s) /\ \E p \in Pads : Cardinality(ToSet(t) \cap ToSet(s)) < p
<1>1. PICK k \in 0 .. Len(s) : /\ \E p \in Pads : k < p
                               /\ s # <<>> => k < Len(s)
                               /\ \A j \in 1 .. Len(s) : j > k => \A x \in X : x < s[j]
  BY DEF Fresh
<1>2. Len(s) \in 1 .. Len(s) /\ Len(t) \in 1 .. Len(t) /\ k \in Nat /\ k <= Len(s)
  BY EmptySeq
<1>3. Last(t) \in X
  <2>1. t[Len(t)] \in ToSet(t)
    BY <1>2, Elements
  <2> QED BY <2>1 DEF Last
<1>4. Last(t) < Last(s)
  BY <1>1, <1>2, <1>3 DEF Last
<1> DEFINE T == ToSet(t) \cap ToSet(s)
<1>5. ASSUME NEW y \in T PROVE \E j \in 1 .. k : s[j] = y
  <2>1. PICK j \in 1 .. Len(s) : s[j] = y
    BY Elements
  <2>2. y \in X /\ y \in Nat
    BY <1>5
  <2>a. ~(y < y)
    BY ONLY <2>2
  <2>3. ~(j > k)
    BY <1>1, <2>1, <2>2, <2>a
  <2>4. j \in 1 .. k
    BY <1>2, <2>3
  <2> QED BY <2>1, <2>4
<1> HIDE DEF T
<1>6. IsFiniteSet(T) /\ Cardinality(T) <= k
  BY <1>2, <1>5, FirstFew
<1>7. Cardinality(T) \in Nat
  BY <1>6, FS_CardinalityType
<1>8. PICK p \in Pads : k < p
  BY <1>1
<1>9. Cardinality(T) < p /\ p \in Pads
  BY <1>2, <1>6, <1>7, <1>8, SessionBounds
<1> QED BY <1>4, <1>9 DEF T

LEMMA AudioStep ==
    SessionTypeOK /\ ModeKept /\ StageKept /\ AudioOrder /\ WordOrder /\ [SessionNext]_sessionVars => AudioOrder'
<1> SUFFICES ASSUME SessionTypeOK, ModeKept, StageKept, AudioOrder, WordOrder, [SessionNext]_sessionVars
             PROVE  AudioOrder'
  OBVIOUS
<1> USE DEF AudioOrder, audio, decoder, fate
<1>0. /\ vad \in Detectors /\ vad.speech \in Seq(Nat) /\ {job, acc, queue, parts} \subseteq Seq(Nat)
      /\ finals \in Seq(Seq(Nat)) /\ Chunk \in Nat /\ taken \in Nat /\ Chunk = taken + 1
      /\ parts \in Seq(Nat) /\ acc \in Seq(Nat) /\ job \in Seq(Nat)
  BY SessionTypes DEF Chunk
<1>1. /\ ToSet(<<>>) = {} /\ Quiet(vad).speech = <<>> /\ Quiet(vad).look = vad.look
  BY <1>0, ResetEffect, NothingYet
<1>2. ASSUME UNCHANGED <<mode, finals, taken>>, ToSet(acc') \subseteq ToSet(acc),
             ToSet(vad'.speech) \cup ToSet(vad'.look) \cup ToSet(job') \subseteq 0 .. taken,
             mode = "vad" => Fresh(IF at' = "asr" THEN job' ELSE vad'.speech, Chunks(finals))
      PROVE  AudioOrder'
  BY <1>2
<1>3. ASSUME UNCHANGED <<mode, finals, taken, acc, job>>, vad'.speech = vad.speech, vad'.look = vad.look,
             at' = at \/ (at # "asr" /\ at' # "asr")
      PROVE  AudioOrder'
  BY <1>3
<1>4. ASSUME UNCHANGED <<mode, finals, taken, acc, job, vad>>, at' = at \/ (at # "asr" /\ at' # "asr")
      PROVE  AudioOrder'
  BY <1>4
\* The detector is reset, and what it held is transcribed, or not.
<1>5. ASSUME UNCHANGED <<mode, finals, taken>>, vad' = Quiet(vad), at # "asr", acc' = acc \/ acc' = <<>>,
             \/ at' # "asr" /\ job' = job
             \/ at' = "asr" /\ job' = (IF mode = "timed" THEN acc ELSE vad.speech)
      PROVE  AudioOrder'
  <2>1. ToSet(acc') \subseteq ToSet(acc)
    BY <1>1, <1>5
  <2>2. ToSet(vad'.speech) \cup ToSet(vad'.look) \cup ToSet(job') \subseteq 0 .. taken
    BY <1>1, <1>5
  <2>3. mode = "vad" => Fresh(IF at' = "asr" THEN job' ELSE vad'.speech, Chunks(finals))
    BY <1>1, <1>5, FreshNothing
  <2> QED BY <1>2, <1>5, <2>1, <2>2, <2>3
<1>6. ASSUME EndSession, at # "asr", UNCHANGED <<mode, finals, taken, acc>> PROVE AudioOrder'
  <2>1. /\ vad' = Quiet(vad)
        /\ \/ at' # "asr" /\ job' = job
           \/ at' = "asr" /\ job' = (IF mode = "timed" THEN acc ELSE vad.speech)
    BY <1>6 DEF EndSession, Transcribe, Remaining
  <2> QED BY <1>5, <1>6, <2>1
\* The words are sent.
<1>7. ASSUME mode = "stream", UNCHANGED <<mode, taken, acc>>, finals' = Append(finals, parts),
             job' = parts \/ job' = job, monitored,
             ToSet(vad'.speech) \cup ToSet(vad'.look) \subseteq 0 .. taken
      PROVE  AudioOrder'
  <2>1. Chunks(finals') = Chunks(finals) \cup ToSet(parts)
    BY <1>0, <1>7, ChunksOfAppend
  <2>2. ToSet(parts) \subseteq 0 .. taken
    BY <1>7 DEF WordOrder
  <2> QED BY <1>7, <2>1, <2>2
\* Another chunk.
<1>8. ASSUME NEW x \in Chunks(finals) \cup ToSet(vad.speech) \cup ToSet(vad.look) \cup ToSet(acc) \cup ToSet(job)
      PROVE  x \in 0 .. Chunk /\ x < Chunk
  <2>1. x \in 0 .. taken
    OBVIOUS
  <2> QED BY <1>0, <2>1
<1>9. Chunk \in 0 .. Chunk
  BY <1>0
<1>10. ASSUME NEW voice \in BOOLEAN, NEW v, v = Detect(Chunk, voice)
       PROVE  /\ ToSet(v.speech) \cup ToSet(v.look) \subseteq 0 .. Chunk
              /\ mode = "vad" /\ at # "asr" => Fresh(v.speech, Chunks(finals))
  <2>1. /\ ToSet(v.speech) \subseteq ToSet(vad.speech) \cup ToSet(vad.look) \cup {Chunk}
        /\ ToSet(v.look) \subseteq ToSet(vad.look) \cup {Chunk}
    BY <1>0, <1>10, DetectKeeps
  <2>2. ToSet(v.speech) \cup ToSet(v.look) \subseteq 0 .. Chunk
    BY <1>8, <1>9, <2>1
  <2>3. vad \in Detectors /\ \E p \in Pads : Len(vad.look) <= p
    BY SessionTypes
  <2>4. /\ vad.speaking => v.speech = Append(vad.speech, Chunk)
        /\ ~vad.speaking /\ voice => v.speech = Looked(Chunk)
        /\ ~vad.speaking /\ ~voice => v.speech = vad.speech
    BY <1>0, <1>10, <2>3, DetectEffect
  <2>5. \A x \in Chunks(finals) : x < Chunk
    BY <1>8
  <2>6. ASSUME mode = "vad", at # "asr" PROVE Fresh(v.speech, Chunks(finals))
    <3>1. Fresh(vad.speech, Chunks(finals))
      BY <2>6
    <3>2. Fresh(Append(vad.speech, Chunk), Chunks(finals))
      BY <1>0, <2>5, <3>1, FreshAppend
    <3>3. /\ Looked(Chunk) \in Seq(Nat) /\ Looked(Chunk) # <<>> /\ Last(Looked(Chunk)) = Chunk
          /\ \E p \in Pads : Len(Looked(Chunk)) <= p
      BY <1>0, <2>3, LookedEffect
    <3>4. Fresh(Looked(Chunk), Chunks(finals))
      BY <2>5, <3>3, FreshLookback
    <3> QED BY <2>4, <3>1, <3>2, <3>4
  <2> QED BY <2>2, <2>6
<1>11. CASE UNCHANGED sessionVars
  BY <1>4, <1>11 DEF sessionVars
<1>12. CASE Client
  <2>1. ASSUME NEW n \in 1 .. MaxMessage, Audio(n) PROVE AudioOrder'
    BY <1>4, <2>1 DEF Audio
  <2>2. CASE Flush
    <3>1. at = "recv" /\ vad' = Quiet(vad) /\ UNCHANGED <<mode, acc>>
      BY <2>2 DEF Flush
    <3>2. CASE mode = "vad" /\ Remaining # <<>> /\ Transcribe(Remaining, "flush") /\ UNCHANGED <<taken, finals>>
      <4>1. at' = "asr" /\ job' = (IF mode = "timed" THEN acc ELSE vad.speech)
        BY <3>2 DEF Transcribe, Remaining
      <4> QED BY <1>5, <3>1, <3>2, <4>1
    <3>3. CASE mode = "stream" /\ FlushFinal("flush") /\ UNCHANGED taken
      <4>1. ToSet(vad'.speech) \cup ToSet(vad'.look) \subseteq 0 .. taken
        BY <1>1, <3>1
      <4>2. monitored /\ finals' = Append(finals, parts) /\ job' = parts
        BY <3>1, <3>3 DEF FlushFinal, StageKept
      <4> QED BY <1>7, <3>1, <3>3, <4>1, <4>2
    <3>4. CASE DiscardTail /\ UNCHANGED <<job, finals>>
      <4>1. at' = "recv" /\ taken' = taken
        BY <3>4 DEF DiscardTail
      <4> QED BY <1>5, <3>1, <3>4, <4>1
    <3> QED BY <2>2, <3>2, <3>3, <3>4 DEF Flush
  <2>3. CASE Clear
    BY <1>5, <2>3 DEF Clear, DiscardTail
  <2>4. CASE EndMessage
    <3>1. CASE mode = "stream"
      BY <1>4, <2>4, <3>1 DEF EndMessage
    <3>2. CASE mode # "stream"
      BY <1>6, <2>4, <3>2 DEF EndMessage
    <3> QED BY <3>1, <3>2
  <2>5. ASSUME NEW p \in Pads, Config(p) PROVE AudioOrder'
    <3>1. vad'.speech = vad.speech /\ vad'.look = vad.look
      BY <1>0, <2>5 DEF Config, Detectors
    <3> QED BY <1>3, <2>5, <3>1 DEF Config
  <2>6. CASE LeaveLoop
    BY <1>4, <2>6 DEF LeaveLoop
  <2> QED BY <1>12, <2>1, <2>2, <2>3, <2>4, <2>5, <2>6 DEF Client
<1>13. CASE Handle
  <2>1. ASSUME NEW voice \in BOOLEAN, ChunkContinues(voice) PROVE AudioOrder'
    <3> DEFINE v == Detect(Chunk, voice)
    <3>1. /\ mode = "vad" /\ at # "asr" /\ at' # "asr" /\ vad' = v /\ taken' = Chunk
          /\ UNCHANGED <<mode, finals, acc, job>>
      BY <2>1 DEF ChunkContinues, Processed, Take
    <3>2. ToSet(v.speech) \cup ToSet(v.look) \subseteq 0 .. Chunk /\ Fresh(v.speech, Chunks(finals))
      BY <1>10, <3>1
    <3> HIDE DEF v
    <3> QED BY <1>8, <3>1, <3>2
  <2>2. ASSUME NEW voice \in BOOLEAN, ChunkEnds(voice) PROVE AudioOrder'
    <3> DEFINE v == Detect(Chunk, voice)
    <3>1. mode = "vad" /\ at = "chunks" /\ taken' = Chunk /\ UNCHANGED <<mode, finals, acc>>
      BY <2>2 DEF ChunkEnds, Take
    <3>2. /\ vad' = Quiet(v) \/ vad' = Forced(v)
          /\ (at' = "asr" /\ job' = v.speech) \/ (at' # "asr" /\ job' = job)
      BY <2>2 DEF ChunkEnds, Processed, Transcribe
    <3>3. ToSet(v.speech) \cup ToSet(v.look) \subseteq 0 .. Chunk /\ Fresh(v.speech, Chunks(finals))
      BY <1>10, <3>1
    <3>4. v \in Detectors
      BY <1>0, DetectTypes
    <3> HIDE DEF v
    <3>5. vad'.speech = <<>> /\ vad'.look = v.look
      BY <3>2, <3>4, ResetEffect
    <3>6. Fresh(IF at' = "asr" THEN job' ELSE vad'.speech, Chunks(finals))
      BY <3>2, <3>3, <3>5, FreshNothing
    <3>7. ToSet(vad'.speech) \cup ToSet(vad'.look) \cup ToSet(job') \subseteq 0 .. Chunk
      BY <1>1, <1>8, <3>2, <3>3, <3>5
    <3> QED BY <1>8, <3>1, <3>6, <3>7
  <2>3. ASSUME NEW voice \in BOOLEAN, Put(voice) PROVE AudioOrder'
    <3> DEFINE v == Detect(Head(job), voice)
    <3>1. /\ mode = "stream" /\ monitored /\ UNCHANGED <<mode, taken, acc>> /\ job # <<>>
          /\ vad' = v \/ vad' = Quiet(v)
          /\ \/ finals' = Append(finals, parts) /\ job' = parts
             \/ UNCHANGED <<finals, job>>
      BY <2>3 DEF Put, ModeKept, StageKept, FlushFinal
    <3>2. Head(job) \in Nat /\ Head(job) \in ToSet(job)
      BY <1>0, <3>1, ElementsOfTail
    <3>3. /\ ToSet(v.speech) \subseteq ToSet(vad.speech) \cup ToSet(vad.look) \cup {Head(job)}
          /\ ToSet(v.look) \subseteq ToSet(vad.look) \cup {Head(job)}
      BY <3>2, DetectKeeps
    <3>4. v \in Detectors
      BY <3>2, DetectTypes
    <3> HIDE DEF v
    <3>5. Quiet(v).speech = <<>> /\ Quiet(v).look = v.look
      BY <3>4, ResetEffect
    <3>6. ToSet(vad'.speech) \cup ToSet(vad'.look) \subseteq 0 .. taken
      BY <1>1, <3>1, <3>2, <3>3, <3>5
    <3>7. CASE finals' = Append(finals, parts) /\ job' = parts
      BY <1>7, <3>1, <3>6, <3>7
    <3>8. CASE UNCHANGED <<finals, job>>
      BY <1>2, <3>1, <3>6, <3>8
    <3> QED BY <3>1, <3>7, <3>8
  <2>4. CASE ChunkCollected
    <3>1. /\ mode = "timed" /\ taken' = Chunk /\ acc' = Append(acc, Chunk) /\ job' \in {job, acc'}
          /\ UNCHANGED <<mode, finals, vad>>
      BY <2>4 DEF ChunkCollected, Take, Transcribe
    <3>2. ToSet(Append(acc, Chunk)) = ToSet(acc) \cup {Chunk}
      <4>1. acc \in Seq(Nat) /\ Chunk \in Nat
        BY <1>0
      <4> QED BY ONLY <4>1, ElementsOfAppend
    <3>3. ToSet(acc') = ToSet(acc) \cup {Chunk}
      BY <3>1, <3>2
    <3>4. ToSet(acc') \cup ToSet(job') \subseteq 0 .. Chunk
      BY <1>8, <1>9, <3>1, <3>3
    <3>5. \A x \in Chunks(finals), y \in ToSet(acc') : x < y
      BY <1>8, <3>1, <3>3
    <3> QED BY <1>8, <3>1, <3>4, <3>5
  <2>5. CASE ChunkToQueue
    <3>1. /\ mode = "stream" /\ taken' = Chunk /\ job' = <<Chunk>> /\ UNCHANGED <<mode, finals, vad, acc>>
      BY <2>5 DEF ChunkToQueue, Take
    <3>2. ToSet(<<Chunk>>) = {Chunk}
      BY DEF ToSet
    <3>3. ToSet(job') \subseteq 0 .. Chunk
      BY <1>9, <3>1, <3>2
    <3> QED BY <1>8, <3>1, <3>3
  <2>6. CASE ChunksDone
    BY <1>4, <2>6 DEF ChunksDone
  <2>7. CASE Sent
    <3>1. /\ mode = "stream" /\ UNCHANGED <<mode, finals, taken, vad, acc>> /\ job' = <<>>
      BY <2>7 DEF Sent, DiscardTail, ModeKept
    <3> QED BY <1>1, <3>1
  <2>8. CASE Transcribed
    <3>1. /\ at = "asr" /\ at' # "asr" /\ job' = <<>> /\ UNCHANGED <<mode, taken, vad>>
          /\ acc' = (IF then \in {"timed", "end"} THEN <<>> ELSE acc)
          /\ finals' = Append(finals, job) \/ UNCHANGED finals
      BY <2>8 DEF Transcribed, Processed, DiscardTail
    <3>2. /\ job # <<>>
          /\ mode = "vad" => vad.speech = <<>>
          /\ mode = "timed" => acc' = <<>>
      BY <3>1 DEF ModeKept
    <3>3. /\ Chunks(Append(finals, job)) = Chunks(finals) \cup ToSet(job)
          /\ Len(Append(finals, job)) = Len(finals) + 1 /\ Append(finals, job)[Len(finals) + 1] = job
          /\ \A i \in 1 .. Len(finals) : Append(finals, job)[i] = finals[i]
      BY <1>0, ChunksOfAppend
    <3>4. Chunks(finals') \cup ToSet(acc') \cup ToSet(job') \subseteq 0 .. taken
      BY <1>1, <3>1, <3>3
    <3>5. mode # "stream" => \A i \in 1 .. Len(finals') : finals'[i] # <<>>
      <4>1. CASE finals' = Append(finals, job)
        <5>0. Len(finals) \in Nat
          BY <1>0
        <5>1. \A i \in 1 .. Len(finals) + 1 : i = Len(finals) + 1 \/ i \in 1 .. Len(finals)
          BY ONLY <5>0
        <5> QED BY <3>2, <3>3, <4>1, <5>1
      <4> QED BY <3>1, <4>1
    <3>6. mode = "vad" => Fresh(vad'.speech, Chunks(finals'))
      BY <3>1, <3>2, FreshNothing
    <3>7. mode = "timed" => ToSet(acc') = {}
      BY <1>1, <3>2
    <3> QED BY <3>1, <3>4, <3>5, <3>6, <3>7
  <2>9. CASE Goodbye \/ Ended \/ LeaveLoop \/ StopDecoder
    BY <1>4, <2>9 DEF Goodbye, Ended, LeaveLoop, StopDecoder
  <2>10. CASE Drained
    <3>1. /\ at \in {"stop", "wait"} /\ at' = "last" /\ UNCHANGED <<mode, taken, vad, acc, job>>
          /\ finals' = IF parts = <<>> THEN finals ELSE Append(finals, parts)
      BY <2>10 DEF Drained
    <3>2. CASE parts = <<>>
      BY <1>4, <3>1, <3>2
    <3>3. CASE parts # <<>>
      <4>1. mode = "stream" /\ monitored
        <5>1. mode = "stream"
          BY <3>3 DEF ModeKept
        <5> QED BY <3>1, <5>1 DEF StageKept
      <4> QED BY <1>7, <3>1, <3>3, <4>1
    <3> QED BY <3>2, <3>3
  <2>11. CASE FinishSession
    <3>1. CASE EndSession
      BY <1>6, <2>11, <3>1 DEF FinishSession
    <3>2. CASE at' = "over" /\ UNCHANGED <<vad, job>>
      BY <1>4, <2>11, <3>2 DEF FinishSession
    <3> QED BY <2>11, <3>1, <3>2 DEF FinishSession
  <2> QED BY <1>13, <2>1, <2>2, <2>3, <2>4, <2>5, <2>6, <2>7, <2>8, <2>9, <2>10, <2>11 DEF Handle
<1>14. CASE DecoderStep \/ DecoderGivesUp \/ LagTick
  BY <1>4, <1>14 DEF DecoderStep, Decode, DecoderEnds, StaleGet, DecoderGivesUp, LagTick
<1>15. CASE Raise
  BY <1>4, <1>15 DEF Raise
<1> QED BY <1>11, <1>12, <1>13, <1>14, <1>15 DEF SessionNext

\* A chunk or the sentinel joins the queue, and the first leaves it.
LEMMA FollowsAppend ==
    ASSUME NEW q \in Seq(Nat), NEW X, Follows(q, X), NEW c \in Nat,
           c # Sentinel => \A x \in X \cup ToSet(q) : x < c
    PROVE  Follows(Append(q, c), X)
<1> DEFINE t == Append(q, c)
<1>1. Len(t) = Len(q) + 1 /\ t[Len(q) + 1] = c /\ \A i \in 1 .. Len(q) : t[i] = q[i]
  BY AppendProperties
<1>2. Len(q) \in Nat
  OBVIOUS
<1> HIDE DEF t
<1>3. \A j \in 1 .. Len(t) : j = Len(q) + 1 \/ j \in 1 .. Len(q)
  BY <1>1, <1>2
<1>4. ASSUME NEW x \in X, NEW j \in 1 .. Len(t), t[j] # Sentinel PROVE x < t[j]
  BY <1>1, <1>3, <1>4 DEF Follows
<1>5. ASSUME NEW i \in 1 .. Len(t), NEW j \in 1 .. Len(t), i < j, t[j] # Sentinel PROVE t[i] < t[j]
  <2>1. i \in 1 .. Len(q)
    BY <1>1, <1>2, <1>5
  <2>2. CASE j = Len(q) + 1
    <3>1. q[i] \in ToSet(q)
      BY <2>1, Elements
    <3> QED BY <1>1, <1>5, <2>1, <2>2, <3>1
  <2>3. CASE j \in 1 .. Len(q)
    BY <1>1, <1>5, <2>1, <2>3 DEF Follows
  <2> QED BY <1>3, <2>2, <2>3
<1>6. Follows(t, X)
  BY <1>4, <1>5 DEF Follows
<1> QED BY <1>6 DEF t

LEMMA FollowsTail ==
    ASSUME NEW q \in Seq(Nat), NEW X, Follows(q, X), q # <<>>
    PROVE  /\ Follows(Tail(q), X \cup {Head(q)}) /\ Follows(Tail(q), X)
           /\ Head(q) # Sentinel => \A x \in X : x < Head(q)
<1>1. /\ Head(q) = q[1] /\ Len(Tail(q)) = Len(q) - 1 /\ \A i \in 1 .. Len(Tail(q)) : Tail(q)[i] = q[i + 1]
  BY ElementsOfTail
<1>2. Len(q) \in Nat \ {0}
  BY EmptySeq
<1> DEFINE t == Tail(q)
<1>3. /\ Len(t) = Len(q) - 1 /\ \A i \in 1 .. Len(t) : t[i] = q[i + 1]
  BY <1>1
<1> HIDE DEF t
<1>4. 1 \in 1 .. Len(q) /\ \A j \in 1 .. Len(t) : j + 1 \in 1 .. Len(q) /\ 1 < j + 1
  BY <1>2, <1>3
<1>5. ASSUME NEW x \in X, NEW j \in 1 .. Len(t), t[j] # Sentinel PROVE x < t[j]
  BY <1>3, <1>4, <1>5 DEF Follows
<1>6. ASSUME NEW j \in 1 .. Len(t), t[j] # Sentinel PROVE Head(q) < t[j]
  BY <1>1, <1>3, <1>4, <1>6 DEF Follows
<1>7. ASSUME NEW i \in 1 .. Len(t), NEW j \in 1 .. Len(t), i < j, t[j] # Sentinel PROVE t[i] < t[j]
  <2>1. i + 1 \in 1 .. Len(q) /\ j + 1 \in 1 .. Len(q) /\ i + 1 < j + 1
    BY <1>4, <1>7
  <2> QED BY <1>3, <1>7, <2>1 DEF Follows
<1>8. Follows(t, X) /\ Follows(t, X \cup {Head(q)})
  BY <1>5, <1>6, <1>7 DEF Follows
<1>9. Head(q) # Sentinel => \A x \in X : x < Head(q)
  BY <1>1, <1>4 DEF Follows
<1> QED BY <1>8, <1>9 DEF t

LEMMA Fixed == [SessionNext]_sessionVars => mode' = mode /\ (monitored' = monitored \/ monitored' = FALSE)
BY DEF sessionVars, SessionNext, Client, Audio, Flush, Clear, EndMessage, Config, LeaveLoop, Handle, ChunkContinues,
       ChunkEnds, Put, ChunkCollected, ChunkToQueue, ChunksDone, Sent, Transcribed, Goodbye, Ended, StopDecoder,
       Drained, FinishSession, DecoderStep, Decode, DecoderEnds, StaleGet, DecoderGivesUp, Raise, LagTick

LEMMA WordStep ==
    SessionTypeOK /\ ModeKept /\ StageKept /\ AudioOrder /\ WordOrder /\ [SessionNext]_sessionVars => WordOrder'
<1> SUFFICES ASSUME SessionTypeOK, ModeKept, StageKept, AudioOrder, WordOrder, [SessionNext]_sessionVars,
                    mode' = "stream", monitored'
             PROVE  WordOrder'
  BY DEF WordOrder
<1> USE DEF audio, decoder, fate
<1>0. /\ job \in Seq(Nat) /\ queue \in Seq(Nat) /\ parts \in Seq(Nat) /\ finals \in Seq(Seq(Nat))
      /\ Chunk \in Nat /\ taken \in Nat /\ Chunk = taken + 1 /\ Len(parts) \in Nat /\ Len(job) \in Nat
      /\ monitored \in BOOLEAN
  <2>1. job \in Seq(Nat) /\ queue \in Seq(Nat) /\ parts \in Seq(Nat) /\ finals \in Seq(Seq(Nat))
    BY SessionTypes
  <2>2. Chunk \in Nat /\ taken \in Nat /\ Chunk = taken + 1 /\ monitored \in BOOLEAN
    BY SessionTypes DEF Chunk
  <2> QED BY <2>1, <2>2
<1>1. mode = "stream" /\ monitored
  BY <1>0, Fixed
<1>2. /\ \A x \in Chunks(finals), y \in Unsent : x < y
      /\ Follows(queue, Chunks(finals) \cup ToSet(parts))
      /\ ToSet(parts) \cup ToSet(queue) \subseteq 0 .. taken
      /\ at = "put" =>
           /\ job = <<taken>> /\ taken > 0
           /\ \A x \in Chunks(finals) \cup ToSet(parts) \cup ToSet(queue) : x < taken
  BY <1>1 DEF WordOrder
<1>3. Chunks(finals) \subseteq 0 .. taken
  BY DEF AudioOrder
<1>4. at # "final" => Unsent = ToSet(parts)
  BY <1>0, Elements DEF Unsent
<1>5. ASSUME UNCHANGED <<finals, parts, queue, taken>>,
             (at' = at /\ job' = job) \/ (at \notin {"put", "final"} /\ at' \notin {"put", "final"})
      PROVE  WordOrder'
  <2>1. Unsent' = Unsent
    BY <1>5 DEF Unsent
  <2> QED BY <1>2, <1>5, <2>1 DEF WordOrder
\* The words are being sent, ...
<1>6. ASSUME UNCHANGED <<parts, taken>>, finals' = Append(finals, parts), at' = "final", job' = parts,
             Follows(queue', Chunks(finals) \cup ToSet(parts)), ToSet(queue') \subseteq 0 .. taken
      PROVE  WordOrder'
  <2>1. Chunks(finals') \cup ToSet(parts') = Chunks(finals) \cup ToSet(parts)
    BY <1>0, <1>6, ChunksOfAppend
  <2>2. ~(\E i \in Len(parts) + 1 .. Len(parts) : TRUE)
    BY <1>0
  <2>3. Unsent' = {}
    BY <1>6, <2>2 DEF Unsent
  <2> QED BY <1>2, <1>6, <2>1, <2>3 DEF WordOrder
\* ... were sent, or were cleared.
<1>7. ASSUME UNCHANGED <<finals, queue, taken>>, parts' = <<>>, at' \notin {"put", "final"} PROVE WordOrder'
  <2>1. ToSet(parts') = {} /\ Len(parts') = 0
    BY <1>7, NothingYet
  <2>2. Unsent' = {}
    BY <1>7, <2>1 DEF Unsent
  <2>3. Follows(queue, Chunks(finals))
    BY <1>2 DEF Follows
  <2> QED BY <1>2, <1>7, <2>1, <2>2, <2>3 DEF WordOrder
\* The first chunk leaves the queue, without a word.
<1>8. ASSUME UNCHANGED <<finals, parts, taken, at, job>>, queue # <<>>, queue' = Tail(queue) PROVE WordOrder'
  <2>1. ToSet(queue') \subseteq ToSet(queue)
    BY <1>0, <1>8, ElementsOfTail
  <2>2. Follows(queue', Chunks(finals) \cup ToSet(parts))
    BY <1>0, <1>2, <1>8, FollowsTail
  <2>3. Unsent' = Unsent
    BY <1>8 DEF Unsent
  <2> QED BY <1>2, <1>8, <2>1, <2>2, <2>3 DEF WordOrder
<1>11. CASE UNCHANGED sessionVars
  BY <1>5, <1>11 DEF sessionVars
<1>12. CASE Client
  <2>1. ASSUME NEW n \in 1 .. MaxMessage, Audio(n) PROVE WordOrder'
    BY <1>5, <2>1 DEF Audio
  <2>2. CASE Flush
    <3>1. at = "recv" /\ UNCHANGED <<queue, parts>>
      BY <2>2 DEF Flush
    <3>2. CASE FlushFinal("flush") /\ UNCHANGED taken
      <4>1. UNCHANGED <<parts, taken>> /\ finals' = Append(finals, parts) /\ at' = "final" /\ job' = parts
        BY <3>1, <3>2 DEF FlushFinal
      <4>2. Follows(queue', Chunks(finals) \cup ToSet(parts)) /\ ToSet(queue') \subseteq 0 .. taken
        BY <1>2, <3>1
      <4> QED BY <1>6, <4>1, <4>2
    <3>3. CASE DiscardTail /\ UNCHANGED finals
      BY <1>5, <3>1, <3>3 DEF DiscardTail
    <3> QED BY <1>1, <2>2, <3>2, <3>3 DEF Flush
  <2>3. CASE Clear
    BY <1>7, <2>3 DEF Clear, DiscardTail
  <2>4. CASE EndMessage
    BY <1>1, <1>5, <2>4 DEF EndMessage
  <2>5. ASSUME NEW p \in Pads, Config(p) PROVE WordOrder'
    BY <1>5, <2>5 DEF Config
  <2>6. CASE LeaveLoop
    BY <1>5, <2>6 DEF LeaveLoop
  <2> QED BY <1>12, <2>1, <2>2, <2>3, <2>4, <2>5, <2>6 DEF Client
<1>13. CASE Handle
  <2>1. ASSUME NEW voice \in BOOLEAN, ChunkContinues(voice) \/ ChunkEnds(voice) PROVE FALSE
    BY <1>1, <2>1 DEF ChunkContinues, ChunkEnds
  <2>3. ASSUME NEW voice \in BOOLEAN, Put(voice) PROVE WordOrder'
    <3>1. /\ at = "put" /\ queue' = Append(queue, Head(job)) /\ UNCHANGED <<taken, parts>>
          /\ \/ finals' = Append(finals, parts) /\ at' = "final" /\ job' = parts
             \/ UNCHANGED <<finals, job>> /\ at' = "chunks"
      BY <2>3 DEF Put, FlushFinal, Processed
    <3>2. Head(job) = taken /\ taken > 0
      BY <1>2, <3>1
    <3>3. \A x \in (Chunks(finals) \cup ToSet(parts)) \cup ToSet(queue) : x < taken
      BY <1>2, <3>1
    <3>4. queue' = Append(queue, taken)
      BY <3>1, <3>2
    <3>5. Follows(queue', Chunks(finals) \cup ToSet(parts))
      BY <1>0, <1>2, <3>3, <3>4, FollowsAppend
    <3>6. ToSet(queue') = ToSet(queue) \cup {taken}
      <4>1. queue \in Seq(Nat) /\ taken \in Nat
        BY <1>0
      <4> QED BY ONLY <3>4, <4>1, ElementsOfAppend
    <3>7. taken \in 0 .. taken
      BY <1>0
    <3>8. ToSet(queue') \subseteq 0 .. taken
      BY <1>2, <3>6, <3>7
    <3>9. CASE finals' = Append(finals, parts) /\ at' = "final" /\ job' = parts
      BY <1>6, <3>1, <3>5, <3>8, <3>9
    <3>10. CASE UNCHANGED <<finals, job>> /\ at' = "chunks"
      <4>1. Unsent' = Unsent
        BY <3>1, <3>10 DEF Unsent
      <4> QED BY <1>2, <3>1, <3>5, <3>8, <3>10, <4>1 DEF WordOrder
    <3> QED BY <3>1, <3>9, <3>10
  <2>4. CASE ChunkCollected
    BY <1>1, <2>4 DEF ChunkCollected
  <2>5. CASE ChunkToQueue
    <3>1. /\ at = "chunks" /\ at' = "put" /\ taken' = Chunk /\ job' = <<Chunk>>
          /\ UNCHANGED <<finals, parts, queue>>
      BY <2>5 DEF ChunkToQueue, Take
    <3>2. Unsent' = Unsent
      BY <3>1 DEF Unsent
    <3>3. \A x \in 0 .. taken : x \in 0 .. Chunk /\ x < Chunk
      BY <1>0
    <3>4. Chunk > 0
      BY <1>0
    <3> QED BY <1>2, <1>3, <3>1, <3>2, <3>3, <3>4 DEF WordOrder
  <2>6. CASE ChunksDone
    BY <1>5, <2>6 DEF ChunksDone
  <2>7. CASE Sent
    BY <1>7, <2>7 DEF Sent, FinalSent, Processed, DiscardTail
  <2>8. CASE Transcribed
    BY <1>1, <2>8 DEF Transcribed, StageKept
  <2>9. CASE Goodbye \/ Ended
    BY <1>1, <2>9 DEF Goodbye, Ended, StageKept
  <2>10. CASE LeaveLoop
    BY <1>5, <2>10 DEF LeaveLoop
  <2>11. CASE StopDecoder
    <3>1. /\ at = "stop" /\ at' = "wait" /\ queue' = Append(queue, Sentinel)
          /\ UNCHANGED <<finals, parts, taken>>
      BY <2>11 DEF StopDecoder
    <3>2. Sentinel \in Nat /\ Sentinel \in 0 .. taken
      BY <1>0 DEF Sentinel
    <3>3. Follows(queue', Chunks(finals) \cup ToSet(parts))
      BY <1>0, <1>2, <3>1, <3>2, FollowsAppend
    <3>4. ToSet(queue') = ToSet(queue) \cup {Sentinel}
      <4>1. queue \in Seq(Nat) /\ Sentinel \in Nat /\ queue' = Append(queue, Sentinel)
        BY <1>0, <3>1, <3>2
      <4> QED BY ONLY <4>1, ElementsOfAppend
    <3>5. Unsent' = Unsent
      BY <3>1 DEF Unsent
    <3> QED BY <1>2, <3>1, <3>2, <3>3, <3>4, <3>5 DEF WordOrder
  <2>12. CASE Drained
    BY <2>12 DEF Drained
  <2>13. CASE FinishSession
    BY <1>1, <2>13 DEF FinishSession, StageKept
  <2> QED BY <1>13, <2>1, <2>3, <2>4, <2>5, <2>6, <2>7, <2>8, <2>9, <2>10, <2>11, <2>12, <2>13 DEF Handle
<1>14. CASE Decode
  <2>1. /\ queue # <<>> /\ Head(queue) # Sentinel /\ queue' = Tail(queue)
        /\ UNCHANGED <<finals, taken, at, job>>
        /\ UNCHANGED parts \/ parts' = Append(parts, Head(queue))
    BY <1>14 DEF Decode
  <2>2. CASE UNCHANGED parts
    BY <1>8, <2>1, <2>2
  <2>3. CASE parts' = Append(parts, Head(queue))
    <3>1. Head(queue) \in Nat /\ Head(queue) \in ToSet(queue) /\ ToSet(Tail(queue)) \subseteq ToSet(queue)
      BY <1>0, <2>1, ElementsOfTail
    <3>2. /\ Follows(Tail(queue), (Chunks(finals) \cup ToSet(parts)) \cup {Head(queue)})
          /\ \A x \in Chunks(finals) \cup ToSet(parts) : x < Head(queue)
      BY <1>0, <1>2, <2>1, FollowsTail
    <3>3. ToSet(parts') = ToSet(parts) \cup {Head(queue)}
      BY <1>0, <2>3, <3>1, ElementsOfAppend
    <3>4. Follows(queue', Chunks(finals) \cup ToSet(parts'))
      <4>1. (Chunks(finals) \cup ToSet(parts)) \cup {Head(queue)} = Chunks(finals) \cup ToSet(parts')
        BY <3>3
      <4> QED BY <2>1, <3>2, <4>1
    <3>5. /\ Len(parts') = Len(parts) + 1 /\ parts'[Len(parts) + 1] = Head(queue)
          /\ \A i \in 1 .. Len(parts) : parts'[i] = parts[i]
      BY <1>0, <2>3, <3>1, AppendProperties
    <3>6. ASSUME NEW y \in Unsent' PROVE y \in Unsent \/ y = Head(queue)
      <4> DEFINE first == IF at = "final" THEN Len(job) + 1 ELSE 1
      <4>1. first \in Nat \ {0} /\ first = (IF at' = "final" THEN Len(job') + 1 ELSE 1)
        BY <1>0, <2>1
      <4>2. Unsent = {parts[i] : i \in first .. Len(parts)} /\ Unsent' = {parts'[i] : i \in first .. Len(parts')}
        BY <4>1 DEF Unsent
      <4> HIDE DEF first
      <4>3. PICK i \in first .. Len(parts') : y = parts'[i]
        BY <3>6, <4>2
      <4>4. i = Len(parts) + 1 \/ (i \in first .. Len(parts) /\ i \in 1 .. Len(parts))
        BY <1>0, <3>5, <4>1, <4>3
      <4> QED BY <3>5, <4>2, <4>3, <4>4
    <3>7. \A x \in Chunks(finals), y \in Unsent' : x < y
      BY <1>2, <3>2, <3>6
    <3>8. ToSet(parts') \cup ToSet(queue') \subseteq ToSet(parts) \cup ToSet(queue)
      BY <2>1, <3>1, <3>3
    <3> QED BY <1>2, <2>1, <3>4, <3>7, <3>8 DEF WordOrder
  <2> QED BY <2>1, <2>2, <2>3
<1>15. CASE DecoderEnds \/ StaleGet
  BY <1>8, <1>15 DEF DecoderEnds, StaleGet
<1>16. CASE DecoderGivesUp \/ LagTick
  BY <1>5, <1>16 DEF DecoderGivesUp, LagTick
<1>17. CASE Raise
  BY <1>5, <1>17 DEF Raise
<1> QED BY <1>11, <1>12, <1>13, <1>14, <1>15, <1>16, <1>17 DEF SessionNext, DecoderStep

\* Segments s and t, one after the other: t ends later and begins, at most, with the lookback.
Succeeds(s, t) ==
    LET both == Cardinality(ToSet(s) \cap ToSet(t))
    IN  /\ Last(s) < Last(t)
        /\ both > 0 => mode = "vad" /\ \E p \in Pads : both < p

LEMMA Ordered ==
    SegmentsInOrder <=>
        \A i \in 1 .. Len(finals) - 1 :
            /\ mode = "stream" /\ (monitored \/ i + 1 < Len(finals)) =>
                 Cardinality(ToSet(finals[i]) \cap ToSet(finals[i + 1])) = 0
            /\ mode # "stream" => Succeeds(finals[i], finals[i + 1])
BY DEF SegmentsInOrder, Succeeds

LEMMA LastElement == ASSUME NEW s \in Seq(Nat), s # <<>> PROVE Last(s) \in ToSet(s)
<1>1. Len(s) \in 1 .. Len(s)
  BY EmptySeq
<1>2. s[Len(s)] \in ToSet(s)
  BY <1>1, Elements
<1> QED BY <1>2 DEF Last

\* A segment is added where it belongs.
LEMMA OrderStep ==
    SessionTypeOK /\ ModeKept /\ StageKept /\ AudioOrder /\ WordOrder /\ NotRepeated /\ SegmentsInOrder
        /\ [SessionNext]_sessionVars => SegmentsInOrder' /\ NotRepeated'
<1> SUFFICES ASSUME SessionTypeOK, ModeKept, StageKept, AudioOrder, WordOrder, NotRepeated, SegmentsInOrder,
                    [SessionNext]_sessionVars
             PROVE  SegmentsInOrder' /\ NotRepeated'
  OBVIOUS
<1> USE DEF audio, decoder, fate
<1> DEFINE n == Len(finals)
<1>0. job \in Seq(Nat) /\ parts \in Seq(Nat) /\ finals \in Seq(Seq(Nat)) /\ taken \in Nat /\ monitored \in BOOLEAN
  BY SessionTypes
<1>1. n \in Nat /\ \A i \in 1 .. n : finals[i] \in Seq(Nat) /\ ToSet(finals[i]) \subseteq Chunks(finals)
  <2>1. n \in Nat /\ \A i \in 1 .. n : finals[i] \in Seq(Nat)
    BY <1>0, ElementOfSeq
  <2>2. \A i \in 1 .. n : ToSet(finals[i]) \subseteq Chunks(finals)
    BY <1>0 DEF Chunks
  <2> QED BY <2>1, <2>2
<1>2. mode' = mode /\ (monitored' = monitored \/ monitored' = FALSE)
  BY Fixed
<1>3. Chunks(finals) \subseteq Nat
  BY <1>0 DEF AudioOrder
<1>4. \A i \in 1 .. n - 1 : i \in 1 .. n /\ i + 1 \in 1 .. n
  BY <1>1
<1> HIDE DEF n
<1>5. ASSUME mode = "stream", monitored, NEW i \in 1 .. n - 1
      PROVE  ToSet(finals[i]) \cap ToSet(finals[i + 1]) = {}
  <2> DEFINE T == ToSet(finals[i]) \cap ToSet(finals[i + 1])
  <2>1. Cardinality(T) = 0
    BY <1>5, Ordered DEF n
  <2>2. finals[i] \in Seq(Nat)
    BY <1>1, <1>4
  <2>3. T \subseteq ToSet(finals[i])
    OBVIOUS
  <2> HIDE DEF T
  <2>4. T = {}
    BY <2>1, <2>2, <2>3, FiniteElements
  <2> QED BY <2>4 DEF T
\* Nothing is added.
<1>6. ASSUME finals' = finals, mode = "stream" /\ at' \in {"last", "asr"} => at \in {"last", "asr"} \/ monitored
      PROVE  SegmentsInOrder' /\ NotRepeated'
  <2>1. SegmentsInOrder'
    <3>1. \A i \in 1 .. n - 1 :
            /\ mode = "stream" /\ (monitored \/ i + 1 < n) =>
                 Cardinality(ToSet(finals[i]) \cap ToSet(finals[i + 1])) = 0
            /\ mode # "stream" => Succeeds(finals[i], finals[i + 1])
      BY Ordered DEF n
    <3>2. \A i \in 1 .. n - 1 :
            IF mode' = "stream"
            THEN (monitored' \/ i + 1 < n) => Cardinality(ToSet(finals[i]) \cap ToSet(finals[i + 1])) = 0
            ELSE /\ Last(finals[i]) < Last(finals[i + 1])
                 /\ Cardinality(ToSet(finals[i]) \cap ToSet(finals[i + 1])) > 0 =>
                      mode' = "vad" /\ \E p \in Pads : Cardinality(ToSet(finals[i]) \cap ToSet(finals[i + 1])) < p
      BY <1>2, <3>1 DEF Succeeds
    <3> QED BY <1>6, <3>2 DEF SegmentsInOrder, n
  <2>2. NotRepeated'
    BY <1>2, <1>5, <1>6 DEF NotRepeated, n
  <2> QED BY <2>1, <2>2
\* Words that follow the others.
<1>7. ASSUME mode = "stream", monitored, at # "final", finals' = Append(finals, parts)
      PROVE  SegmentsInOrder' /\ NotRepeated'
  <2>1. Len(finals') = n + 1 /\ finals'[n + 1] = parts /\ \A i \in 1 .. n : finals'[i] = finals[i]
    BY <1>0, <1>7, ChunksOfAppend DEF n
  <2>2. Unsent = ToSet(parts)
    <3>1. Unsent = {parts[i] : i \in 1 .. Len(parts)}
      BY <1>7 DEF Unsent
    <3>2. \A y : y \in ToSet(parts) <=> \E i \in 1 .. Len(parts) : parts[i] = y
      BY <1>0, Elements
    <3> QED BY <3>1, <3>2
  <2>3. \A x \in Chunks(finals), y \in ToSet(parts) : x < y
    BY <1>7, <2>2 DEF WordOrder
  <2>4. ASSUME NEW i \in 1 .. n PROVE ToSet(finals'[i]) \cap ToSet(finals'[i + 1]) = {}
    <3>1. CASE i = n
      <4>1. finals'[i] = finals[i] /\ finals'[i + 1] = parts /\ ToSet(finals[i]) \subseteq Chunks(finals)
        BY <1>1, <2>1, <3>1
      <4>2. \A y \in Chunks(finals) : ~(y < y)
        BY <1>3
      <4> QED BY <2>3, <4>1, <4>2
    <3>2. CASE i # n
      <4>1. i \in 1 .. n - 1 /\ i + 1 \in 1 .. n
        BY <1>1, <3>2
      <4> QED BY <1>5, <1>7, <2>1, <4>1
    <3> QED BY <3>1, <3>2
  <2>5. Len(finals') - 1 = n
    BY <1>1, <2>1
  <2>6. \A i \in 1 .. Len(finals') - 1 : ToSet(finals'[i]) \cap ToSet(finals'[i + 1]) = {}
    BY <2>4, <2>5
  <2>7. SegmentsInOrder'
    BY <1>2, <1>7, <2>6, FS_EmptySet DEF SegmentsInOrder
  <2> QED BY <2>6, <2>7 DEF NotRepeated
\* What was transcribed.
<1>8. CASE Transcribed
  <2>1. /\ at = "asr" /\ at' # "asr" /\ at' # "last" /\ UNCHANGED <<mode, monitored>>
        /\ finals' = Append(finals, job) \/ UNCHANGED finals
    BY <1>8 DEF Transcribed, Processed, DiscardTail
  <2>2. CASE UNCHANGED finals
    BY <1>6, <2>1, <2>2
  <2>3. CASE finals' = Append(finals, job)
    <3>1. Len(finals') = n + 1 /\ finals'[n + 1] = job /\ \A i \in 1 .. n : finals'[i] = finals[i]
      BY <1>0, <2>3, ChunksOfAppend DEF n
    <3>2. Len(finals') - 1 = n
      BY <1>1, <3>1
    <3>3. NotRepeated'
      BY <2>1 DEF NotRepeated
    <3>4. CASE mode = "stream"
      <4>1. ~monitored
        BY <2>1, <3>4 DEF StageKept
      <4>2. ASSUME NEW i \in 1 .. n, i + 1 < n + 1
            PROVE  Cardinality(ToSet(finals'[i]) \cap ToSet(finals'[i + 1])) = 0
        <5>1. i \in 1 .. n - 1 /\ i + 1 \in 1 .. n
          BY <1>1, <4>2
        <5>2. ToSet(finals[i]) \cap ToSet(finals[i + 1]) = {}
          BY <2>1, <3>4, <5>1 DEF NotRepeated, n
        <5> QED BY <3>1, <5>1, <5>2, FS_EmptySet
      <4> QED BY <2>1, <3>1, <3>2, <3>3, <3>4, <4>1, <4>2 DEF SegmentsInOrder
    <3>5. CASE mode # "stream"
      <4>1. ASSUME NEW i \in 1 .. n PROVE Succeeds(finals'[i], finals'[i + 1])
        <5>1. CASE i = n
          <6>1. /\ finals'[i] = finals[i] /\ finals'[i + 1] = job /\ ToSet(finals[i]) \subseteq Chunks(finals)
                /\ finals[i] \in Seq(Nat)
            BY <1>1, <3>1, <5>1
          <6>2. finals[i] # <<>> /\ job # <<>>
            BY <2>1, <3>5 DEF AudioOrder, ModeKept, n
          <6>3. CASE mode = "vad"
            <7>1. Fresh(job, Chunks(finals))
              BY <2>1, <6>3 DEF AudioOrder
            <7>2. /\ Last(finals[i]) < Last(job)
                  /\ \E p \in Pads : Cardinality(ToSet(finals[i]) \cap ToSet(job)) < p
              BY <1>0, <1>3, <6>1, <6>2, <7>1, FreshOverlap
            <7> QED BY <6>1, <6>3, <7>2 DEF Succeeds
          <6>4. CASE mode = "timed"
            <7>1. \A x \in Chunks(finals), y \in ToSet(job) : x < y
              BY <2>1, <6>4 DEF AudioOrder, ModeKept
            <7>2. \A y \in Chunks(finals) : ~(y < y)
              BY <1>3
            <7>3. ToSet(finals[i]) \cap ToSet(job) = {}
              BY <6>1, <7>1, <7>2
            <7>4. Cardinality(ToSet(finals[i]) \cap ToSet(job)) = 0
              BY <7>3, FS_EmptySet
            <7>5. Last(finals[i]) \in ToSet(finals[i]) /\ Last(job) \in ToSet(job)
              BY <1>0, <6>1, <6>2, LastElement
            <7>6. Last(finals[i]) < Last(job)
              BY <6>1, <7>1, <7>5
            <7> QED BY <6>1, <7>4, <7>6 DEF Succeeds
          <6>5. mode \in {"vad", "timed", "stream"}
            BY SessionAssumption DEF SessionTypeOK
          <6> QED BY <3>5, <6>3, <6>4, <6>5
        <5>2. CASE i # n
          <6>1. i \in 1 .. n - 1 /\ i + 1 \in 1 .. n
            BY <1>1, <5>2
          <6>2. Succeeds(finals[i], finals[i + 1])
            BY <3>5, <6>1, Ordered DEF n
          <6> QED BY <3>1, <6>1, <6>2
        <5> QED BY <5>1, <5>2
      <4> QED BY <2>1, <3>2, <3>3, <3>5, <4>1 DEF SegmentsInOrder, Succeeds
    <3> QED BY <3>4, <3>5
  <2> QED BY <2>1, <2>2, <2>3
<1>9. CASE Drained
  <2>1. /\ at \in {"stop", "wait"} /\ UNCHANGED mode
        /\ finals' = IF parts = <<>> THEN finals ELSE Append(finals, parts)
    BY <1>9 DEF Drained
  <2>2. monitored
    BY <2>1 DEF StageKept
  <2>3. parts # <<>> => mode = "stream"
    BY DEF ModeKept
  <2> QED BY <1>6, <1>7, <2>1, <2>2, <2>3
<1>10. ASSUME NEW voice \in BOOLEAN, Put(voice) PROVE SegmentsInOrder' /\ NotRepeated'
  <2>1. at = "put" /\ (finals' = Append(finals, parts) \/ (UNCHANGED finals /\ at' = "chunks"))
    BY <1>10 DEF Put, FlushFinal, Processed
  <2>2. mode = "stream" /\ monitored
    BY <2>1 DEF ModeKept, StageKept
  <2> QED BY <1>6, <1>7, <2>1, <2>2
<1>11. CASE Flush
  <2>1. at = "recv" /\ ((mode = "stream" /\ finals' = Append(finals, parts))
                        \/ (UNCHANGED finals /\ (mode = "stream" => at' = "recv")))
    BY <1>11 DEF Flush, FlushFinal, DiscardTail
  <2>2. monitored
    BY <2>1 DEF StageKept
  <2> QED BY <1>6, <1>7, <2>1, <2>2
<1>12. CASE FinishSession
  BY <1>6, <1>12 DEF FinishSession
<1>13. CASE UNCHANGED sessionVars
  BY <1>6, <1>13 DEF sessionVars
<1>14. CASE Client /\ ~Flush
  <2>1. /\ UNCHANGED finals /\ at = "recv"
    BY <1>14 DEF Client, Audio, Clear, EndMessage, Config, LeaveLoop
  <2>2. monitored
    BY <2>1 DEF StageKept
  <2> QED BY <1>6, <2>1, <2>2
<1>15. CASE Handle /\ ~Transcribed /\ ~Drained /\ ~FinishSession
  <2>1. ASSUME NEW voice \in BOOLEAN, ChunkContinues(voice) \/ ChunkEnds(voice) PROVE UNCHANGED finals /\ mode = "vad"
    BY <2>1 DEF ChunkContinues, ChunkEnds
  <2>2. CASE ChunkCollected
    BY <1>6, <2>2 DEF ChunkCollected
  <2>3. CASE ChunkToQueue \/ ChunksDone \/ Sent \/ Goodbye \/ Ended \/ LeaveLoop \/ StopDecoder
    <3>1. UNCHANGED finals /\ at' \notin {"last", "asr"}
      BY <2>3 DEF ChunkToQueue, ChunksDone, Sent, Processed, DiscardTail, Goodbye, Ended, LeaveLoop, StopDecoder
    <3> QED BY <1>6, <3>1
  <2> QED BY <1>6, <1>10, <1>15, <2>1, <2>2, <2>3 DEF Handle
<1>16. CASE DecoderStep \/ DecoderGivesUp \/ LagTick
  BY <1>6, <1>16 DEF DecoderStep, Decode, DecoderEnds, StaleGet, DecoderGivesUp, LagTick
<1>17. CASE Raise
  BY <1>6, <1>17 DEF Raise
<1> QED BY <1>8, <1>9, <1>11, <1>12, <1>13, <1>14, <1>15, <1>16, <1>17 DEF SessionNext, Handle

-----------------------------------------------------------------------------
(* The session's invariant *)

\* All of the session's invariant but what follows from the rest.
SessionParts ==
    /\ SessionTypeOK /\ SegmentsInOrder /\ LagIsBacklog /\ OneGoodbye /\ StoreSettled
    /\ ModeKept /\ StageKept /\ SpeechKept /\ AudioOrder /\ WordOrder /\ NotRepeated
    /\ EndingKept /\ StoredKept

LEMMA PartsSuffice == SessionParts => SessionInv
BY SpeechIsText DEF SessionParts, SessionInv

LEMMA SessionBegins == SessionInit => SessionParts
<1> SUFFICES ASSUME SessionInit PROVE SessionParts
  OBVIOUS
<1> USE DEF SessionInit
<1>0. /\ ToSet(<<>>) = {} /\ Chunks(<<>>) = {} /\ <<>> \in Seq(Nat) /\ <<>> \in Seq(Seq(Nat)) /\ Len(<<>>) = 0
  BY NothingYet
<1>1. PICK p \in Pads :
        vad = [speaking |-> FALSE, speech |-> <<>>, spoken |-> 0, silent |-> 0, look |-> <<>>, pad |-> p]
  OBVIOUS
<1>2. ~vad.speaking /\ vad.speech = <<>> /\ vad.look = <<>>
  BY <1>1
<1>3. vad \in Detectors
  BY <1>0, <1>1 DEF Detectors
<1>4. \E q \in Pads : Len(vad.look) <= q
  <2>1. p \in Nat /\ Len(vad.look) = 0
    BY <1>0, <1>2, SessionBounds
  <2> QED BY <2>1
<1>5. SessionTypeOK
  <2>1. /\ MaxMessage \in Nat /\ MaxAudio \in Nat /\ QueueSize \in Nat
    BY SessionBounds
  <2>2. dec \in {"off", "run", "mute", "stale", "dead", "done"}
    OBVIOUS
  <2>3. buf \in 0 .. MaxMessage + 1 /\ heard \in 0 .. MaxAudio /\ taken \in Nat /\ lag \in Int
    BY <2>1
  <2>4. {job, acc, queue, parts} \subseteq Seq(Nat) /\ Len(queue) <= QueueSize /\ {finals, saved} \subseteq Seq(Seq(Nat))
    BY <1>0, <2>1
  <2> QED BY <1>3, <1>4, <2>2, <2>3, <2>4 DEF SessionTypeOK
<1>6. SegmentsInOrder /\ NotRepeated
  <2>1. ~(\E i \in 1 .. Len(finals) - 1 : TRUE)
    BY <1>0
  <2> QED BY <2>1 DEF SegmentsInOrder, NotRepeated
<1>7. LagIsBacklog /\ OneGoodbye /\ StoreSettled /\ EndingKept /\ StoredKept
  BY DEF LagIsBacklog, OneGoodbye, StoreSettled, EndingKept, StoredKept
<1>8. ModeKept /\ StageKept
  BY <1>2 DEF ModeKept, StageKept
<1>9. SpeechKept
  BY DEF SpeechKept
<1>10. AudioOrder
  <2>1. \A i \in 1 .. Len(finals) : finals[i] # <<>>
    BY <1>0
  <2>2. Fresh(IF at = "asr" THEN job ELSE vad.speech, Chunks(finals))
    BY <1>2, FreshNothing
  <2> QED BY <1>0, <1>2, <2>1, <2>2 DEF AudioOrder
<1>11. WordOrder
  <2>1. Follows(queue, Chunks(finals) \cup ToSet(parts))
    BY <1>0 DEF Follows
  <2> QED BY <1>0, <2>1 DEF WordOrder
<1> QED BY <1>5, <1>6, <1>7, <1>8, <1>9, <1>10, <1>11 DEF SessionParts

\* What a session is told to hold, through messages, chunks, words, the lag monitor and
\* every way to end: nothing that was said is lost without a reason, the segments follow
\* the audio and share less than a lookback, the lag is the backlog of one message, the
\* client is told its end once and a stored transcript is the one that it got.
THEOREM SessionInvariant == SessionSpec => []SessionInv
<1>1. SessionParts /\ [SessionNext]_sessionVars => SessionParts'
  <2> SUFFICES ASSUME SessionParts, [SessionNext]_sessionVars PROVE SessionParts'
    OBVIOUS
  <2> USE DEF SessionParts
  <2>1. SessionTypeOK' /\ ModeKept' /\ StageKept'
    BY SessionTypesStep, ModeStep, StageStep
  <2>2. LagIsBacklog' /\ SpeechKept'
    BY LagStep, SpeechStep
  <2>3. AudioOrder' /\ WordOrder'
    BY AudioStep, WordStep
  <2>4. SegmentsInOrder' /\ NotRepeated'
    BY OrderStep
  <2>5. EndingKept' /\ OneGoodbye'
    BY EndingStep
  <2>6. StoredKept' /\ StoreSettled'
    BY StoreStep
  <2> QED BY <2>1, <2>2, <2>3, <2>4, <2>5, <2>6
<1> QED BY <1>1, SessionBegins, PartsSuffice, PTL DEF SessionSpec

-----------------------------------------------------------------------------
(* The allocation of sessions to workers *)

USE AllocatorAssumption DEF At, Goto, Step, MGoto

\* The initial state: no session, no reservation.
LEMMA AllocatorInit == Init => AllocatorInv
<1> SUFFICES ASSUME Init PROVE AllocatorInv
  OBVIOUS
<1>1. TypeOK
  BY DEF Init, TypeOK, Labels, MLabels
<1>2. SessionStateInv /\ MonitorInv /\ ReleaseInv /\ ReleasedOnce
  BY DEF Init, SessionStateInv, MonitorInv, ReleaseInv, ReleasedOnce, Serving, Early, Busy, Releasing
<1>3. \A w \in Workers : Reserved(w) = {} /\ Served(w) = {}
  BY DEF Init, Reserved, Served
<1>4. CounterInv /\ CapacityRespected
  BY <1>3, FS_EmptySet DEF Init, CounterInv, CapacityRespected
<1> QED BY <1>1, <1>2, <1>4 DEF AllocatorInv

\* A step that leaves the variables alone leaves the invariant alone.
LEMMA Stutter == ASSUME AllocatorInv, UNCHANGED vars PROVE AllocatorInv'
BY DEF AllocatorInv, vars, redis, monitor, ghosts, TypeOK, SessionStateInv, MonitorInv, ReleaseInv,
       ReleasedOnce, CounterInv, CapacityRespected, Reserved, Served

\* Giving a reservation back keeps the types.
LEMMA GiveBackType ==
    ASSUME TypeOK, NEW s \in Sessions, NEW w, GiveBack(s, w)
    PROVE  /\ cnt' \in [Workers -> Int]
           /\ owes' \in [Sessions -> Workers \cup {NoWorker}]
           /\ twice' \in SUBSET Sessions
<1>1. cnt \in [Workers -> Int] /\ cnt' = [cnt EXCEPT ![w] = cnt[w] - 1]
  BY DEF GiveBack, TypeOK
<1>2. cnt' \in [Workers -> Int]
  <2>1. CASE w \in Workers
    <3>1. cnt[w] - 1 \in Int
      BY <1>1, <2>1
    <3> QED BY <1>1, <2>1, <3>1
  <2>2. CASE w \notin Workers
    BY <1>1, <2>2
  <2> QED BY <2>1, <2>2
<1> QED BY <1>2 DEF GiveBack, TypeOK

\* Types are kept by every step.
LEMMA TypeStep == ASSUME TypeOK, Next PROVE TypeOK'
<1> USE DEF TypeOK, redis, monitor, ghosts
<1>1. ASSUME NEW s \in Sessions, Ask(s) PROVE TypeOK'
  BY <1>1 DEF Ask, Labels
<1>2. ASSUME NEW s \in Sessions, Acquire(s) PROVE TypeOK'
  <2>1. CASE Reserve(s)
    BY <2>1 DEF Reserve, Labels
  <2>2. CASE Rollback(s)
    BY <2>2, GiveBackType DEF Rollback, Labels
  <2>3. CASE Record(s) \/ SetTtl(s) \/ Enter(s)
    BY <2>3 DEF Record, SetTtl, Enter, Labels
  <2>4. CASE Join(s)
    BY <2>4 DEF Join, Labels
  <2> QED BY <1>2, <2>1, <2>2, <2>3, <2>4 DEF Acquire
<1>3. ASSUME NEW s \in Sessions, Finish(s) PROVE TypeOK'
  <2>1. CASE Release(s)
    BY <2>1, GiveBackType DEF Release, Labels
  <2>2. CASE Leave(s)
    BY <2>2 DEF Leave, Labels
  <2>3. CASE Close(s) \/ Exit(s) \/ End(s) \/ EndTtl(s)
    BY <2>3 DEF Close, Exit, End, EndTtl, Labels
  <2> QED BY <1>3, <2>1, <2>2, <2>3 DEF Finish
<1>4. ASSUME NEW s \in Sessions, Expire(s) \/ Stall(s) PROVE TypeOK'
  BY <1>4 DEF Expire, Stall, Inject
<1>5. CASE Monitor
  <2>1. CASE Scan \/ Check \/ Find \/ Forget
    BY <2>1 DEF Scan, Check, Find, Forget, MLabels
  <2>2. CASE Undo
    BY <2>2, GiveBackType DEF Undo, MLabels
  <2>3. CASE Clamp \/ Drop
    BY <2>3 DEF Clamp, Drop, MLabels
  <2> QED BY <1>5, <2>1, <2>2, <2>3 DEF Monitor
<1>6. CASE Crash
  BY <1>6 DEF Crash, Inject, Labels, MLabels
<1> QED BY <1>1, <1>2, <1>3, <1>4, <1>5, <1>6 DEF Next

\* Where a session is goes on saying whose reservation it holds.
LEMMA SessionStateStep == ASSUME AllocatorInv, Next PROVE SessionStateInv'
<1> USE DEF redis, monitor, ghosts, Serving, Early
<1>0. TypeOK /\ SessionStateInv /\ MonitorInv
  BY DEF AllocatorInv
<1>1. ASSUME NEW s \in Sessions, Ask(s) PROVE SessionStateInv'
  BY <1>0, <1>1 DEF Ask, TypeOK, SessionStateInv
<1>2. ASSUME NEW s \in Sessions, Acquire(s) PROVE SessionStateInv'
  <2>1. CASE Reserve(s)
    BY <1>0, <2>1 DEF Reserve, TypeOK, SessionStateInv
  <2>2. CASE Rollback(s)
    BY <1>0, <2>2 DEF Rollback, GiveBack, TypeOK, SessionStateInv
  <2>3. CASE Record(s) \/ SetTtl(s) \/ Enter(s)
    BY <1>0, <2>3 DEF Record, SetTtl, Enter, TypeOK, SessionStateInv
  <2>4. CASE Join(s)
    BY <1>0, <2>4 DEF Join, TypeOK, SessionStateInv
  <2> QED BY <1>2, <2>1, <2>2, <2>3, <2>4 DEF Acquire
<1>3. ASSUME NEW s \in Sessions, Finish(s) PROVE SessionStateInv'
  <2>1. CASE Release(s)
    BY <1>0, <2>1 DEF Release, GiveBack, TypeOK, SessionStateInv
  <2>2. CASE Leave(s)
    BY <1>0, <2>2 DEF Leave, TypeOK, SessionStateInv
  <2>3. CASE Close(s) \/ Exit(s) \/ End(s) \/ EndTtl(s)
    BY <1>0, <2>3 DEF Close, Exit, End, EndTtl, TypeOK, SessionStateInv
  <2> QED BY <1>3, <2>1, <2>2, <2>3 DEF Finish
<1>4. ASSUME NEW s \in Sessions, Expire(s) \/ Stall(s) PROVE SessionStateInv'
  BY <1>0, <1>4 DEF Expire, Stall, SessionStateInv
<1>5. CASE Monitor
  <2>1. CASE Scan \/ Check \/ Find \/ Forget \/ Clamp
    BY <1>0, <2>1 DEF Scan, Check, Find, Forget, Clamp, TypeOK, SessionStateInv
  <2>2. CASE Undo
    BY <1>0, <2>2 DEF Undo, GiveBack, Busy, TypeOK, SessionStateInv, MonitorInv
  <2>3. CASE Drop
    BY <1>0, <2>3 DEF Drop, TypeOK, SessionStateInv
  <2> QED BY <1>5, <2>1, <2>2, <2>3 DEF Monitor
<1>6. CASE Crash
  BY <1>0, <1>6 DEF Crash, TypeOK, SessionStateInv
<1> QED BY <1>1, <1>2, <1>3, <1>4, <1>5, <1>6 DEF Next

\* The monitor goes on working at a session that was registered and whose record is gone.
LEMMA MonitorStep == ASSUME AllocatorInv, Next PROVE MonitorInv'
<1> USE DEF redis, monitor, ghosts, Early, Busy
<1>0. TypeOK /\ SessionStateInv /\ MonitorInv
  BY DEF AllocatorInv
<1>1. ASSUME NEW s \in Sessions, Ask(s) \/ Acquire(s) PROVE MonitorInv'
  <2>1. /\ mpc \in Busy => s # mcur
        /\ mpc' = mpc /\ mcur' = mcur /\ mon' = mon
    BY <1>0, <1>1 DEF Ask, Acquire, Reserve, Rollback, Record, SetTtl, Join, Enter, MonitorInv
  <2>2. \A r \in Sessions : r # s => pc'[r] = pc[r] /\ on'[r] = on[r] /\ key'[r] = key[r]
    BY <1>0, <1>1 DEF Ask, Acquire, Reserve, Rollback, Record, SetTtl, Join, Enter, TypeOK
  <2> QED BY <1>0, <2>1, <2>2 DEF TypeOK, MonitorInv
<1>2. ASSUME NEW s \in Sessions, Finish(s) PROVE MonitorInv'
  BY <1>0, <1>2 DEF Finish, Close, Release, Leave, Exit, End, EndTtl, TypeOK, MonitorInv
<1>3. ASSUME NEW s \in Sessions, Expire(s) \/ Stall(s) PROVE MonitorInv'
  BY <1>0, <1>3 DEF Expire, Stall, TypeOK, MonitorInv
<1>4. CASE Monitor
  <2>1. CASE Scan \/ Check \/ Forget
    BY <1>0, <2>1 DEF Scan, Check, Forget, TypeOK, SessionStateInv, MonitorInv
  <2>2. CASE Find
    BY <1>0, <2>2 DEF Find, TypeOK, SessionStateInv, MonitorInv
  <2>3. CASE Undo \/ Clamp \/ Drop
    BY <1>0, <2>3 DEF Undo, Clamp, Drop, MonitorInv
  <2> QED BY <1>4, <2>1, <2>2, <2>3 DEF Monitor
<1>5. CASE Crash
  BY <1>5 DEF Crash, MonitorInv
<1> QED BY <1>1, <1>2, <1>3, <1>4, <1>5 DEF Next

\* Whoever is about to give a reservation back finds it there, or a fault has hit it.
LEMMA ReleaseStep == ASSUME AllocatorInv, Next PROVE ReleaseInv'
<1> USE DEF redis, monitor, ghosts, Early, Busy, Releasing
<1>0. TypeOK /\ SessionStateInv /\ MonitorInv /\ ReleaseInv
  BY DEF AllocatorInv
<1>1. ASSUME NEW s \in Sessions, Ask(s) PROVE ReleaseInv'
  BY <1>0, <1>1 DEF Ask, TypeOK, ReleaseInv
<1>2. ASSUME NEW s \in Sessions, Acquire(s) PROVE ReleaseInv'
  <2>0. mpc \in Busy => s # mcur
    BY <1>0, <1>2 DEF Acquire, Reserve, Rollback, Record, SetTtl, Join, Enter, MonitorInv
  <2>1. CASE Reserve(s)
    BY <1>0, <2>0, <2>1 DEF Reserve, TypeOK, SessionStateInv, ReleaseInv
  <2>2. CASE Rollback(s)
    BY <1>0, <2>0, <2>2 DEF Rollback, GiveBack, TypeOK, SessionStateInv, ReleaseInv
  <2>3. CASE Record(s) \/ SetTtl(s)
    BY <1>0, <2>3 DEF Record, SetTtl, TypeOK, SessionStateInv, ReleaseInv
  <2>4. CASE Join(s)
    BY <1>0, <2>4 DEF Join, TypeOK, SessionStateInv, ReleaseInv
  <2>5. CASE Enter(s)
    BY <1>0, <2>5 DEF Enter, TypeOK, SessionStateInv, ReleaseInv
  <2> QED BY <1>2, <2>1, <2>2, <2>3, <2>4, <2>5 DEF Acquire
<1>3. ASSUME NEW s \in Sessions, Finish(s) PROVE ReleaseInv'
  <2>1. CASE Close(s)
    BY <1>0, <2>1 DEF Close, TypeOK, ReleaseInv
  <2>2. CASE Release(s)
    BY <1>0, <2>2 DEF Release, GiveBack, TypeOK, MonitorInv, ReleaseInv
  <2>3. CASE Leave(s)
    BY <1>0, <2>3 DEF Leave, TypeOK, SessionStateInv, ReleaseInv
  <2>4. CASE Exit(s) \/ End(s) \/ EndTtl(s)
    BY <1>0, <2>4 DEF Exit, End, EndTtl, TypeOK, ReleaseInv
  <2> QED BY <1>3, <2>1, <2>2, <2>3, <2>4 DEF Finish
<1>4. ASSUME NEW s \in Sessions, Expire(s) \/ Stall(s) PROVE ReleaseInv'
  BY <1>0, <1>4 DEF Expire, Stall, TypeOK, ReleaseInv
<1>5. CASE Monitor
  <2>1. CASE Scan \/ Check \/ Forget \/ Clamp
    BY <1>0, <2>1 DEF Scan, Check, Forget, Clamp, TypeOK, ReleaseInv
  <2>2. CASE Find
    BY <1>0, <2>2 DEF Find, TypeOK, MonitorInv, ReleaseInv
  <2>3. CASE Undo
    BY <1>0, <2>3 DEF Undo, GiveBack, TypeOK, MonitorInv, ReleaseInv
  <2>4. CASE Drop
    BY <1>0, <2>4 DEF Drop, TypeOK, SessionStateInv, MonitorInv, ReleaseInv
  <2> QED BY <1>5, <2>1, <2>2, <2>3, <2>4 DEF Monitor
<1>6. CASE Crash
  BY <1>0, <1>6 DEF Crash, TypeOK, ReleaseInv
<1> QED BY <1>1, <1>2, <1>3, <1>4, <1>5, <1>6 DEF Next

\* The three actions that decrement a counter do so for a session's own worker, and for
\* a second time only after a fault.
LEMMA Decrements ==
    ASSUME AllocatorInv, NEW s \in Sessions, NEW w, GiveBack(s, w),
           \/ At(s, "rollback") /\ w = on[s]
           \/ At(s, "release") /\ w = on[s]
           \/ mpc = "undo" /\ s = mcur /\ w = mon
    PROVE  w \in Workers /\ w = on[s] /\ (owes[s] = NoWorker => s \in torn)
BY DEF AllocatorInv, SessionStateInv, MonitorInv, ReleaseInv, Serving

\* A reservation is given back a second time only after a fault.
LEMMA OnceStep == ASSUME AllocatorInv, Next PROVE ReleasedOnce'
<1> USE DEF redis, monitor, ghosts, ReleasedOnce
<1>0. TypeOK /\ ReleasedOnce
  BY DEF AllocatorInv
<1>1. ASSUME NEW s \in Sessions, Rollback(s) \/ Release(s) PROVE ReleasedOnce'
  BY <1>0, <1>1, Decrements DEF Rollback, Release, GiveBack
<1>2. CASE Undo
  BY <1>0, <1>2, Decrements DEF Undo, GiveBack, TypeOK
<1>3. ASSUME NEW s \in Sessions, Ask(s) \/ Reserve(s) \/ Record(s) \/ SetTtl(s) \/ Join(s) \/ Enter(s)
      PROVE  ReleasedOnce'
  BY <1>0, <1>3 DEF Ask, Reserve, Record, SetTtl, Join, Enter
<1>4. ASSUME NEW s \in Sessions, Close(s) \/ Leave(s) \/ Exit(s) \/ End(s) \/ EndTtl(s) \/ Expire(s) \/ Stall(s)
      PROVE  ReleasedOnce'
  BY <1>0, <1>4 DEF Close, Leave, Exit, End, EndTtl, Expire, Stall
<1>5. CASE Scan \/ Check \/ Find \/ Clamp \/ Drop \/ Forget
  BY <1>0, <1>5 DEF Scan, Check, Find, Clamp, Drop, Forget
<1>6. CASE Crash
  BY <1>0, <1>6 DEF Crash
<1> QED BY <1>1, <1>2, <1>3, <1>4, <1>5, <1>6 DEF Next, Acquire, Finish, Monitor

\* The sessions that hold a reservation are finitely many.
LEMMA ReservedFinite ==
    \A w : IsFiniteSet(Reserved(w)) /\ Cardinality(Reserved(w)) \in Nat
<1> TAKE w
<1>1. Reserved(w) \in SUBSET Sessions
  BY DEF Reserved
<1> QED BY <1>1, FS_Subset, FS_CardinalityType

\* Giving a reservation back for the first time keeps the counters exact.
LEMMA GiveBackCounts ==
    ASSUME TypeOK, NEW s \in Sessions, NEW w \in Workers, GiveBack(s, w),
           owes[s] \in {w, NoWorker}, twice' = {},
           \A v \in Workers : cnt[v] = Cardinality(Reserved(v))
    PROVE  /\ \A v \in Workers : cnt'[v] = Cardinality(Reserved(v)')
           /\ cnt[w] > 0
<1>1. owes[s] = w /\ w # NoWorker
  BY DEF GiveBack
<1>2. Reserved(w)' = Reserved(w) \ {s} /\ s \in Reserved(w)
  BY <1>1 DEF Reserved, GiveBack, TypeOK
<1>3. \A v \in Workers : v # w => Reserved(v)' = Reserved(v) /\ cnt'[v] = cnt[v]
  BY <1>1 DEF Reserved, GiveBack, TypeOK
<1>4. cnt'[w] = cnt[w] - 1
  BY DEF GiveBack, TypeOK
<1>5. Cardinality(Reserved(w)') = Cardinality(Reserved(w)) - 1 /\ Cardinality(Reserved(w)') \in Nat
  BY <1>2, ReservedFinite, FS_RemoveElement, FS_CardinalityType
<1>6. Cardinality(Reserved(w)) \in Nat
  BY ReservedFinite
<1> QED BY <1>3, <1>4, <1>5, <1>6

\* Until a reservation is given back twice, the counters count the reservations.
LEMMA CounterStep == ASSUME AllocatorInv, Next PROVE CounterInv'
<1> USE DEF redis, monitor, ghosts
<1>0. TypeOK /\ SessionStateInv /\ MonitorInv /\ CounterInv
  BY DEF AllocatorInv
<1> SUFFICES ASSUME twice' = {} PROVE CounterInv'
  BY DEF CounterInv
<1>a. twice = {}
  BY <1>0 DEF Next, Ask, Acquire, Reserve, Rollback, Record, SetTtl, Join, Enter, Finish, Close, Release,
      Leave, Exit, End, EndTtl, Expire, Stall, Monitor, Scan, Check, Find, Undo, Clamp, Drop, Forget, Crash,
      GiveBack
<1>b. /\ \A w \in Workers : cnt[w] = Cardinality(Reserved(w))
      /\ mpc # "clamp"
  BY <1>0, <1>a DEF CounterInv
<1>1. ASSUME NEW s \in Sessions, Reserve(s) PROVE CounterInv'
  <2>1. PICK w \in cand[s] : /\ cnt' = [cnt EXCEPT ![w] = cnt[w] + 1]
                             /\ owes' = [owes EXCEPT ![s] = w]
    BY <1>1 DEF Reserve
  <2>2. w \in Workers /\ owes[s] = NoWorker /\ mpc' = mpc
    BY <1>0, <1>1 DEF Reserve, TypeOK, SessionStateInv
  <2>3. Reserved(w)' = Reserved(w) \cup {s} /\ s \notin Reserved(w)
    BY <1>0, <2>1, <2>2 DEF Reserved, TypeOK
  <2>4. \A v \in Workers : v # w => Reserved(v)' = Reserved(v) /\ cnt'[v] = cnt[v]
    BY <1>0, <2>1, <2>2 DEF Reserved, TypeOK
  <2>5. cnt'[w] = cnt[w] + 1
    BY <1>0, <2>1, <2>2 DEF TypeOK
  <2>6. Cardinality(Reserved(w)') = Cardinality(Reserved(w)) + 1
    BY <2>3, ReservedFinite, FS_AddElement
  <2> QED BY <1>b, <2>2, <2>4, <2>5, <2>6 DEF CounterInv
<1>2. ASSUME NEW s \in Sessions, Rollback(s) \/ Release(s) PROVE CounterInv'
  <2>1. GiveBack(s, on[s]) /\ on[s] \in Workers /\ owes[s] \in {on[s], NoWorker} /\ mpc' = mpc
    BY <1>0, <1>2 DEF Rollback, Release, SessionStateInv, Serving
  <2> QED BY <1>0, <1>b, <2>1, GiveBackCounts DEF CounterInv
<1>3. CASE Undo
  <2>1. GiveBack(mcur, mon) /\ mcur \in Sessions /\ mon \in Workers /\ owes[mcur] \in {mon, NoWorker}
    BY <1>0, <1>3 DEF Undo, TypeOK, SessionStateInv, MonitorInv
  <2>2. cnt[mon] > 0 /\ cnt[mon] \in Int /\ \A v \in Workers : cnt'[v] = Cardinality(Reserved(v)')
    BY <1>0, <1>b, <2>1, GiveBackCounts DEF TypeOK
  <2>3. mpc' = "drop"
    BY <1>3, <2>2 DEF Undo
  <2> QED BY <2>2, <2>3 DEF CounterInv
<1>4. ASSUME NEW s \in Sessions, Ask(s) \/ Record(s) \/ SetTtl(s) \/ Join(s) \/ Enter(s) PROVE CounterInv'
  BY <1>b, <1>4 DEF Ask, Record, SetTtl, Join, Enter, CounterInv, Reserved
<1>5. ASSUME NEW s \in Sessions, Close(s) \/ Leave(s) \/ Exit(s) \/ End(s) \/ EndTtl(s) \/ Expire(s) \/ Stall(s)
      PROVE  CounterInv'
  BY <1>b, <1>5 DEF Close, Leave, Exit, End, EndTtl, Expire, Stall, CounterInv, Reserved
<1>6. CASE Scan \/ Check \/ Find \/ Clamp \/ Drop \/ Forget
  BY <1>b, <1>6 DEF Scan, Check, Find, Clamp, Drop, Forget, CounterInv, Reserved
<1>7. CASE Crash
  BY <1>b, <1>7 DEF Crash, CounterInv, Reserved
<1> QED BY <1>1, <1>2, <1>3, <1>4, <1>5, <1>6, <1>7 DEF Next, Acquire, Finish, Monitor

\* A worker is not overbooked by a step that makes nobody served.
LEMMA NobodyServed ==
    ASSUME CapacityRespected, twice = {},
           \A s \in Sessions : owes'[s] # NoWorker /\ pc'[s] \in Serving
                                  => owes[s] = owes'[s] /\ pc[s] \in Serving
    PROVE  CapacityRespected'
<1>1. ASSUME NEW w \in Workers PROVE Cardinality(Served(w)') <= Capacity
  <2>1. Served(w)' \in SUBSET Served(w) /\ Served(w) \in SUBSET Sessions
    BY DEF Served, Reserved
  <2>2. IsFiniteSet(Served(w))
    BY <2>1, FS_Subset
  <2>3. Cardinality(Served(w)') <= Cardinality(Served(w))
    BY <2>1, <2>2, FS_Subset
  <2>4. Cardinality(Served(w)) \in Nat /\ Cardinality(Served(w)') \in Nat
    BY <2>1, <2>2, FS_Subset, FS_CardinalityType
  <2> QED BY <2>3, <2>4 DEF CapacityRespected
<1> QED BY <1>1 DEF CapacityRespected

\* A request is served only if the counter it has read leaves room for it.
LEMMA CapacityStep == ASSUME AllocatorInv, Next PROVE CapacityRespected'
<1> USE DEF redis, monitor, ghosts
<1>0. TypeOK /\ SessionStateInv /\ CounterInv /\ CounterInv' /\ CapacityRespected
  BY CounterStep DEF AllocatorInv
<1> SUFFICES ASSUME twice' = {} PROVE CapacityRespected'
  BY DEF CapacityRespected
<1>a. twice = {}
  BY <1>0 DEF Next, Ask, Acquire, Reserve, Rollback, Record, SetTtl, Join, Enter, Finish, Close, Release,
      Leave, Exit, End, EndTtl, Expire, Stall, Monitor, Scan, Check, Find, Undo, Clamp, Drop, Forget, Crash,
      GiveBack
<1>1. ASSUME NEW s \in Sessions, Reserve(s) PROVE CapacityRespected'
  <2>1. PICK w \in cand[s] : /\ cnt' = [cnt EXCEPT ![w] = cnt[w] + 1]
                             /\ owes' = [owes EXCEPT ![s] = w]
                             /\ pc' = [pc EXCEPT ![s] = IF cnt[w] + 1 > Capacity THEN "rollback" ELSE "record"]
    BY <1>1 DEF Reserve
  <2>2. w \in Workers /\ cnt[w] \in Int /\ cnt'[w] = cnt[w] + 1
    BY <1>0, <2>1 DEF TypeOK
  <2>3. CASE cnt[w] + 1 > Capacity
    BY <1>0, <1>a, <2>1, <2>3, NobodyServed DEF TypeOK, Serving
  <2>4. CASE ~(cnt[w] + 1 > Capacity)
    <3>1. ASSUME NEW v \in Workers PROVE Cardinality(Served(v)') <= Capacity
      <4>1. CASE v = w
        <5>1. Served(v)' \in SUBSET (Reserved(v)')
          BY DEF Served
        <5>2. IsFiniteSet(Reserved(v)')
          BY FS_Subset, Reserved(v)' \in SUBSET Sessions DEF Reserved
        <5>3. Cardinality(Served(v)') <= Cardinality(Reserved(v)') /\ Cardinality(Served(v)') \in Nat
          BY <5>1, <5>2, FS_Subset, FS_CardinalityType
        <5>4. Cardinality(Reserved(v)') = cnt[w] + 1
          BY <1>0, <2>2, <4>1 DEF CounterInv
        <5> QED BY <2>2, <2>4, <5>3, <5>4
      <4>2. CASE v # w
        <5>1. Served(v)' = Served(v)
          BY <1>0, <1>1, <2>1, <2>2, <4>2 DEF Served, Reserved, Reserve, TypeOK, SessionStateInv
        <5> QED BY <1>0, <1>a, <5>1 DEF CapacityRespected
      <4> QED BY <4>1, <4>2
    <3> QED BY <3>1 DEF CapacityRespected
  <2> QED BY <2>3, <2>4
<1>2. ASSUME NEW s \in Sessions, Rollback(s) \/ Release(s) PROVE CapacityRespected'
  BY <1>0, <1>a, <1>2, NobodyServed DEF Rollback, Release, GiveBack, TypeOK, Serving
<1>3. CASE Undo
  BY <1>0, <1>a, <1>3, NobodyServed DEF Undo, GiveBack, TypeOK
<1>4. ASSUME NEW s \in Sessions, Ask(s) \/ Record(s) \/ SetTtl(s) \/ Join(s) \/ Enter(s)
      PROVE  CapacityRespected'
  BY <1>0, <1>a, <1>4, NobodyServed DEF Ask, Record, SetTtl, Join, Enter, TypeOK, Serving
<1>5. ASSUME NEW s \in Sessions, Close(s) \/ Leave(s) \/ Exit(s) \/ End(s) \/ EndTtl(s) \/ Expire(s) \/ Stall(s)
      PROVE  CapacityRespected'
  BY <1>0, <1>a, <1>5, NobodyServed DEF Close, Leave, Exit, End, EndTtl, Expire, Stall, TypeOK, Serving
<1>6. CASE Scan \/ Check \/ Find \/ Clamp \/ Drop \/ Forget
  BY <1>0, <1>a, <1>6, NobodyServed DEF Scan, Check, Find, Clamp, Drop, Forget
<1>7. CASE Crash
  BY <1>0, <1>a, <1>7, NobodyServed DEF Crash, TypeOK, Serving
<1> QED BY <1>1, <1>2, <1>3, <1>4, <1>5, <1>6, <1>7 DEF Next, Acquire, Finish, Monitor

-----------------------------------------------------------------------------

\* AllocatorInv is inductive: acquisition, release, the monitor and any fault keep it.
THEOREM AllocatorInvariant == Spec => []AllocatorInv
<1>1. AllocatorInv /\ [Next]_vars => AllocatorInv'
  <2> SUFFICES ASSUME AllocatorInv, Next PROVE AllocatorInv'
    BY Stutter
  <2>1. TypeOK'
    BY TypeStep DEF AllocatorInv
  <2> QED BY <2>1, SessionStateStep, MonitorStep, ReleaseStep, OnceStep, CounterStep, CapacityStep
          DEF AllocatorInv
<1> QED BY <1>1, AllocatorInit, PTL DEF Spec

\* release_worker and reconcile_orphaned_sessions do not both decrement the counter for
\* one session, unless a fault cut one of them short.
THEOREM ReservationsReleasedOnce == Spec => []ReleasedOnce
<1>1. AllocatorInv => ReleasedOnce
  BY DEF AllocatorInv
<1> QED BY <1>1, AllocatorInvariant, PTL

\* No worker has to serve more sessions than it has capacity for, until a reservation
\* was given back twice.
THEOREM WorkersAreNotOverbooked == Spec => []CapacityRespected
<1>1. AllocatorInv => CapacityRespected
  BY DEF AllocatorInv
<1> QED BY <1>1, AllocatorInvariant, PTL

=============================================================================
