---------------------------- MODULE EnvelopeDedup ----------------------------
(***************************************************************************)
(* Which chunks of the METADATA channel a session of the server applies    *)
(* (src/transport/pipeline/reliable-server/metadata.ts): the last envelope *)
(* number of the channel, and for the envelopes in its window, in the      *)
(* order of their arrival, the chunk indexes already applied.              *)
(***************************************************************************)
EXTENDS SerialArithmetic, SequencesExt, FiniteSetsExt

CONSTANTS
  EnvelopeSeqWindow,      \* ENVELOPE_SEQ_WINDOW
  MetaRestartThreshold,   \* META_RESTART_THRESHOLD
  MaxChunkIndices         \* MAX_ENVELOPE_CHUNK_INDICES

ASSUME EnvelopeAssumption ==
  {EnvelopeSeqWindow, MetaRestartThreshold, MaxChunkIndices} \subseteq Nat \ {0}

Channel == [last : SeqNum \cup {NoSeq},
            window : Seq([seq : SeqNum, seen : SUBSET Nat])]

NewChannel == [last |-> NoSeq, window |-> <<>>]

WindowSeqs(ch) == {ch.window[i].seq : i \in DOMAIN ch.window}

Seen(ch, seq) ==
  UNION {ch.window[i].seen : i \in {j \in DOMAIN ch.window :
                                      ch.window[j].seq = seq}}

(* The least recently introduced envelope makes room. *)
MakeRoom(window) ==
  IF Len(window) >= EnvelopeSeqWindow THEN Tail(window) ELSE window

(* chunkSetFor *)
ChunkSetFor(ch, seq) ==
  IF seq \in WindowSeqs(ch) THEN ch
  ELSE [ch EXCEPT !.window = Append(MakeRoom(@), [seq |-> seq, seen |-> {}])]

(* maybeResetOnRestart, its condition. *)
LooksRestarted(ch, seq) ==
  seq = 0 /\ ch.last # NoSeq /\ ch.last >= MetaRestartThreshold

(* Defect: only the newest envelope is kept. *)
AdvanceAlone(ch, seq) == [last |-> seq, window |-> <<>>]

Advance(ch, seq) == [ch EXCEPT !.last = seq]

(* isStaleOrDuplicateChunk: what it drops, *)
IsStale(ch, seq) ==
  ch.last # NoSeq /\ Dist(ch.last, seq) >= HalfSpace /\ seq \notin WindowSeqs(ch)

(* ... and how the channel moves for a chunk that is not stale. *)
MoveTo(ch, seq) ==
  ChunkSetFor(IF ch.last = NoSeq THEN [last |-> seq, window |-> <<>>]
              ELSE IF IsAhead(seq, ch.last) THEN Advance(ch, seq)
              ELSE ch, seq)

TotalSeen(ch) ==
  Cardinality(UNION {{e.seq} \X e.seen : e \in ToSet(ch.window)})

(* Defect: an index is not remembered. *)
RememberNothing(ch, seq, idx) == ch

Remember(ch, seq, idx) ==
  LET marked == [i \in DOMAIN ch.window |->
        IF ch.window[i].seq = seq THEN [ch.window[i] EXCEPT !.seen = @ \cup {idx}]
        ELSE ch.window[i]]
  IN  [ch EXCEPT !.window = marked]

(* shouldDropEnvelopeBySeq: the verdict and the channel after it. *)
Filtered(ch, seq, idx) ==
  LET fresh == IF LooksRestarted(ch, seq) THEN NewChannel ELSE ch
      moved == MoveTo(fresh, seq)
  IN  IF IsStale(fresh, seq) THEN [apply |-> FALSE, channel |-> fresh]
      ELSE IF idx \in Seen(moved, seq) \/ TotalSeen(moved) >= MaxChunkIndices
           THEN [apply |-> FALSE, channel |-> moved]
      ELSE [apply |-> TRUE, channel |-> Remember(moved, seq, idx)]

=============================================================================
