----------------------------- MODULE Compaction -----------------------------
(***************************************************************************)
(* Compaction planning and checkpoint verification of one event stream     *)
(* (packages/event-compaction/src/index.ts), against a stream that events  *)
(* reach late and out of order, or are lost from, between the calls.       *)
(*                                                                         *)
(* An event is its sequence and its id; plans only read the stream.  The   *)
(* fingerprints are functions of what they cover and are left out.         *)
(***************************************************************************)
EXTENDS FiniteSetsExt, SequencesExt, Sorting, Naturals

CONSTANTS
  MaxEvent,      \* bound: the largest sequence
  EventIds,
  RangeSizes,    \* maxEventsPerRange of a call, each at least 1
  Minimum        \* minimumEventsPerCheckpoint (2 unless a call says otherwise)

ASSUME CompactionAssumption ==
  /\ MaxEvent \in Nat /\ Minimum \in Nat \ {0}
  /\ RangeSizes \subseteq Nat \ {0}

VARIABLES
  stream,       \* the events there are
  checkpoints   \* descriptors handed out, with what they were made from

compactionVars == <<stream, checkpoints>>

Stored == [sequence : 1 .. MaxEvent, id : EventIds]

(* normalizeEventSet: event ids are unique, and the events are sorted.      *)
Plannable(events) ==
  \A e, f \in events : e = f \/ (e.id # f.id /\ e.sequence # f.sequence)

InOrder(events) == SortedBy(events, {p \in events \X events : p[1].sequence < p[2].sequence})

IdsOf(range) == [i \in DOMAIN range |-> range[i].id]

(* Mutant: a gap does not end a range.                                      *)
EndsAtSizeOnly(range, event, size) == Len(range) >= size

(* shouldStartNewRange, for an event after the first.                       *)
StartsNewRange(range, event, size) ==
  event.sequence # Last(range).sequence + 1 \/ Len(range) >= size

Extended(ranges, event, size) ==
  IF ranges = <<>> \/ StartsNewRange(Last(ranges), event, size)
  THEN Append(ranges, <<event>>)
  ELSE [ranges EXCEPT ![Len(ranges)] = Append(@, event)]

(* createStreamSequencePlan: a pass over the sorted events.                 *)
Ranges(events, size) ==
  LET pass[n \in 0 .. Cardinality(events)] ==
        IF n = 0 THEN <<>> ELSE Extended(pass[n - 1], InOrder(events)[n], size)
  IN pass[Cardinality(events)]

HasGap(events) ==
  \E e, f \in events : e.sequence + 1 < f.sequence
                       /\ \A g \in events : g.sequence \notin (e.sequence + 1) .. (f.sequence - 1)

(* collectCandidateRanges, and the checkpoint made of each candidate.       *)
Candidates(events, size, through) ==
  {range \in ToSet(Ranges(events, size)) : Last(range).sequence <= through /\ Len(range) >= Minimum}

(* createCheckpointSnapshotDescriptor: what verification looks at.          *)
Checkpoint(range) == [sequence |-> Last(range).sequence, ids |-> IdsOf(range)]

(* createDryRunCompactionPlan                                               *)
Plan(events, size, through) ==
  LET chosen == Candidates(events, size, through)
  IN [checkpoints |-> {Checkpoint(range) : range \in chosen},
      retained |-> {e \in events : \A range \in chosen : e \notin ToSet(range)}]

Through(events, sequence) == {e \in events : e.sequence <= sequence}

(* Mutant: the events of the checkpoint are looked up, not compared.        *)
VouchesForSome(checkpoint, events) ==
  /\ ~HasGap(events)
  /\ \E e \in events : e.sequence = checkpoint.sequence
  /\ ToSet(checkpoint.ids) \subseteq {e.id : e \in events}

(* summarizeReplayVerification with verifyCheckpointReplay: ok.  All the    *)
(* events up to the checkpoint are compared with its ids, in order.         *)
Verifies(checkpoint, events) ==
  LET before == Through(events, checkpoint.sequence)
  IN /\ ~HasGap(events)
     /\ before # {} /\ Last(InOrder(before)).sequence = checkpoint.sequence
     /\ IdsOf(InOrder(before)) = checkpoint.ids

-----------------------------------------------------------------------------
CompactionInit == stream = {} /\ checkpoints = {}

Arrive(e) ==
  /\ Plannable(stream \cup {e})
  /\ stream' = stream \cup {e}
  /\ UNCHANGED checkpoints

Vanish(e) ==
  /\ e \in stream
  /\ stream' = stream \ {e}
  /\ UNCHANGED checkpoints

(* A caller keeps the checkpoint of a plan (from = the range's events), or  *)
(* one it made itself of all the events up to a sequence.                   *)
KeepFromPlan(size, through) ==
  /\ \E range \in Candidates(stream, size, through) :
       checkpoints' = {[made |-> Checkpoint(range), from |-> ToSet(range)]}
  /\ UNCHANGED stream

KeepOfPrefix(e) ==
  /\ e \in stream
  /\ LET prefix == Through(stream, e.sequence)
     IN checkpoints' = {[made |-> Checkpoint(InOrder(prefix)), from |-> prefix]}
  /\ UNCHANGED stream

(* Bound: one checkpoint is kept at a time.                                 *)
CompactionNext ==
  \/ \E e \in Stored : Arrive(e) \/ Vanish(e) \/ KeepOfPrefix(e)
  \/ \E size \in RangeSizes, through \in 0 .. MaxEvent : KeepFromPlan(size, through)

CompactionSpec == CompactionInit /\ [][CompactionNext]_compactionVars

-----------------------------------------------------------------------------
(* The sequence where the run of consecutive events around e begins.        *)
RunStart(e, events) ==
  Min({n \in 1 .. e.sequence : \A m \in n .. e.sequence : \E f \in events : f.sequence = m})

(* The run of an event, and which piece of size events of it.               *)
Block(e, events, size) ==
  <<RunStart(e, events), (e.sequence - RunStart(e, events)) \div size>>

(* Whatever arrived late or was lost, a plan says of every event whether it *)
(* is compacted or retained: its ranges are the runs of consecutive events  *)
(* cut every size events from the run's start (the definition the pass over *)
(* the events is compared with), and what no checkpoint covers is retained. *)
PlansCutTheRuns ==
  \A size \in RangeSizes :
    LET plan == Plan(stream, size, MaxEvent)
    IN /\ {ToSet(range) : range \in ToSet(Ranges(stream, size))}
            = {{f \in stream : Block(f, stream, size) = Block(e, stream, size)} : e \in stream}
       /\ {e.id : e \in stream \ plan.retained} = UNION {ToSet(c.ids) : c \in plan.checkpoints}

(* A checkpoint whose events had no gap verifies against a later stream     *)
(* exactly when the stream has no gap and its events up to the checkpoint   *)
(* are those it was made from: a late arrival before it, a loss or an event *)
(* at another sequence shows.  So of a plan's checkpoints only the one at   *)
(* the start of the stream can verify, the others name their range alone.   *)
(* (Across a gap it vouches less: the same ids may have closed the gap up.) *)
CheckpointsVouchForTheirPrefix ==
  \A c \in checkpoints : ~HasGap(c.from) =>
    Verifies(c.made, stream) =
      (~HasGap(stream) /\ Through(stream, c.made.sequence) = c.from)

=============================================================================
