---------------------------- MODULE CallRecorder ----------------------------
(* The record of one provider call: the router's stream loop writes it        *)
(* through a CallRecorder, whose chunks are buffered and flushed by size, by  *)
(* age, by a timer and by the end of the call.  The end of the Run sweeps     *)
(* calls that still run, the user may clear the records, and a stream that    *)
(* is dropped is marked cancelled by a task of its own.                       *)
(* A method holds the attempt's mutex over its store access.  In a task of    *)
(* its own it is one step; in the stream it is one step per store access,     *)
(* because the stream can be dropped at each of them.  The store may refuse   *)
(* a write.                                                                   *)
EXTENDS Naturals, Sequences

CONSTANTS
  MaxBuffered,   \* MAX_BUFFERED_CHUNKS
  MaxChunks,     \* chunks the response brings (bound)
  MaxErrors      \* writes the store refuses (bound)

VARIABLES
  row,           \* the row of llm_calls: whether it exists, status, response_chunk_count
  payload,       \* llm_call_response_chunks, in the order inserted
  buffer,        \* ChunkBuffer.chunks
  stamp,         \* ChunkBuffer.generation
  timers,        \* flush tasks that sleep
  nextChunk,     \* AttemptState.next_chunk
  finished,      \* Inner.finished
  stream,        \* the router's loop: "open", "failed", "ended" or "dropped"
  flight,        \* the method that the stream awaits while it holds the mutex
  guard,         \* CancelOnDrop: "armed", "spawned" or "over"
  errors,        \* writes refused so far
  lost,          \* chunks that went with a dropped flush
  swept          \* the Run has ended

recorderVars == <<row, payload, buffer, stamp, timers, nextChunk, finished, stream, flight,
                  guard, errors, lost, swept>>

Terminal == {"completed", "error", "cancelled"}
Idle == [for |-> "none", at |-> "none", batch |-> <<>>, fresh |-> FALSE]

(* Store::start_llm_call                                                      *)
NewCall == [exists |-> TRUE, status |-> "running", counted |-> 0]

Init ==
  /\ row = NewCall
  /\ payload = <<>> /\ buffer = <<>> /\ stamp = 0 /\ timers = {} /\ nextChunk = 0
  /\ finished = FALSE /\ stream = "open" /\ flight = Idle /\ guard = "armed"
  /\ errors = 0 /\ lost = 0 /\ swept = FALSE

----------------------------------------------------------------------------
(* Store::record_llm_chunks: payload rows and counters in one transaction;    *)
(* a call that was cleared is left alone.                                     *)
RecordChunks(batch) ==
  IF row.exists
  THEN /\ payload' = payload \o batch
       /\ row' = [row EXCEPT !.counted = @ + Len(batch)]
  ELSE UNCHANGED <<payload, row>>

(* Mutant: any row.                                                           *)
FinishAnyRow(r, status) == [r EXCEPT !.status = IF r.exists THEN status ELSE @]
(* Store::finish_llm_call: only a running row.                                *)
FinishRow(r, status) == [r EXCEPT !.status = IF r.exists /\ @ = "running" THEN status ELSE @]

Refused == errors < MaxErrors /\ errors' = errors + 1

----------------------------------------------------------------------------
(* The stream's methods                                                       *)

(* flush_locked takes the chunks out of the buffer, then awaits the store.    *)
Take(for, b, fresh) ==
  /\ flight' = [for |-> for, at |-> "flush", batch |-> b, fresh |-> fresh]
  /\ buffer' = <<>>

(* response_chunk: an empty buffer starts a new generation with its timer; a  *)
(* full or old buffer is flushed first.                                       *)
ResponseChunk(old) ==
  /\ stream = "open" /\ flight = Idle /\ ~finished /\ nextChunk < MaxChunks
  /\ nextChunk' = nextChunk + 1
  /\ LET b == Append(buffer, nextChunk)
         fresh == buffer = <<>>
     IN  /\ stamp' = IF fresh THEN stamp + 1 ELSE stamp
         /\ IF Len(b) >= MaxBuffered \/ (old /\ ~fresh)
            THEN Take("chunk", b, fresh) /\ UNCHANGED timers
            ELSE /\ buffer' = b /\ UNCHANGED flight
                 /\ timers' = IF fresh THEN timers \cup {stamp'} ELSE timers
  /\ UNCHANGED <<row, payload, finished, stream, guard, errors, lost, swept>>

(* The loop ends the call: event(Done) completes it, a provider error or the  *)
(* idle timeout fails it, and finish_stream cancels or fails one that the     *)
(* provider left without Done.                                                *)
BeginFinish(status) ==
  /\ stream = "open" /\ flight = Idle /\ ~finished
  /\ Take(status, buffer, FALSE)
  /\ UNCHANGED <<row, payload, stamp, timers, nextChunk, finished, stream, guard, errors, lost, swept>>

(* A refused batch goes back into the buffer and the error ends the stream.   *)
FlushRefused ==
  /\ flight.at = "flush" /\ flight.batch # <<>> /\ Refused
  /\ buffer' = flight.batch /\ flight' = Idle /\ stream' = "failed"
  /\ UNCHANGED <<row, payload, stamp, timers, nextChunk, finished, guard, lost, swept>>

FlushLands ==
  /\ flight.at = "flush"
  /\ RecordChunks(flight.batch)
  /\ IF flight.for = "chunk"
     THEN /\ flight' = Idle
          /\ timers' = IF flight.fresh THEN timers \cup {stamp} ELSE timers
     ELSE flight' = [flight EXCEPT !.at = "finish", !.batch = <<>>] /\ UNCHANGED timers
  /\ UNCHANGED <<buffer, stamp, nextChunk, finished, stream, guard, errors, lost, swept>>

(* finish, after the flush: the outcome, then the flag; a refusal leaves the  *)
(* call unfinished.                                                           *)
FinishLands ==
  /\ flight.at = "finish" /\ flight' = Idle
  /\ \/ row' = FinishRow(row, flight.for) /\ finished' = TRUE /\ UNCHANGED errors
     \/ Refused /\ UNCHANGED <<row, finished>>
  /\ stream' = IF flight.for = "completed" /\ finished' THEN "ended" ELSE "failed"
  /\ UNCHANGED <<payload, buffer, stamp, timers, nextChunk, guard, lost, swept>>

DropStream ==
  /\ guard = "armed"
  /\ stream' = "dropped" /\ guard' = IF finished THEN "over" ELSE "spawned"
  /\ flight' = Idle
  /\ \/ flight.at = "flush" /\ RecordChunks(flight.batch) /\ UNCHANGED lost
     \/ flight.at = "finish" /\ row' = FinishRow(row, flight.for) /\ UNCHANGED <<payload, lost>>
     \/ lost' = lost + Len(flight.batch) /\ UNCHANGED <<row, payload>>
  /\ UNCHANGED <<buffer, stamp, timers, nextChunk, finished, errors, swept>>

----------------------------------------------------------------------------
(* Tasks of their own                                                         *)

(* flush_generation, after MAX_BUFFER_AGE: only for the generation that the   *)
(* buffer still has.                                                          *)
FlushTimer(g) ==
  /\ g \in timers /\ flight = Idle /\ timers' = timers \ {g}
  /\ \/ g = stamp /\ RecordChunks(buffer) /\ buffer' = <<>> /\ UNCHANGED errors
     \/ g = stamp /\ buffer # <<>> /\ Refused /\ UNCHANGED <<buffer, row, payload>>
     \/ g # stamp /\ UNCHANGED <<buffer, row, payload, errors>>
  /\ UNCHANGED <<stamp, nextChunk, finished, stream, flight, guard, lost, swept>>

(* cancelled, in the task that CancelOnDrop spawned.                          *)
MarkCancelled ==
  /\ guard = "spawned" /\ guard' = "over"
  /\ \/ /\ buffer # <<>> /\ Refused
        /\ UNCHANGED <<row, payload, buffer, finished>>
     \/ /\ payload' = IF row.exists THEN payload \o buffer ELSE payload
        /\ buffer' = <<>>
        /\ LET flushed == IF row.exists THEN [row EXCEPT !.counted = @ + Len(buffer)] ELSE row
           IN  \/ row' = FinishRow(flushed, "cancelled") /\ finished' = TRUE /\ UNCHANGED errors
               \/ row' = flushed /\ Refused /\ UNCHANGED finished
  /\ UNCHANGED <<stamp, timers, nextChunk, stream, flight, lost, swept>>

----------------------------------------------------------------------------
(* Other writers of the rows                                                  *)

(* finish_run and claim_run end the calls of their Run that still run.        *)
SweepRun(status) ==
  /\ ~swept /\ swept' = TRUE
  /\ row' = [row EXCEPT !.status = IF row.exists /\ @ = "running" THEN status ELSE @]
  /\ UNCHANGED <<payload, buffer, stamp, timers, nextChunk, finished, stream, flight, guard, errors, lost>>

(* clear_statistics_storage drops the payload, clear_all_statistics_storage   *)
(* the calls as well.                                                         *)
ClearStorage(all) ==
  /\ row.exists
  /\ payload' = <<>>
  /\ row' = [row EXCEPT !.exists = ~all]
  /\ UNCHANGED <<buffer, stamp, timers, nextChunk, finished, stream, flight, guard, errors, lost, swept>>

Next ==
  \/ \E old \in BOOLEAN : ResponseChunk(old)
  \/ \E status \in Terminal : BeginFinish(status)
  \/ FlushRefused \/ FlushLands \/ FinishLands \/ DropStream
  \/ \E g \in timers : FlushTimer(g)
  \/ MarkCancelled
  \/ \E status \in Terminal : SweepRun(status)
  \/ \E all \in BOOLEAN : ClearStorage(all)

Spec == Init /\ [][Next]_recorderVars

(* Tokio runs the spawned task, and whoever polls the stream drops it.        *)
Fairness == WF_recorderVars(DropStream) /\ WF_recorderVars(MarkCancelled)
FairSpec == Spec /\ Fairness

----------------------------------------------------------------------------
Chunk == 0..MaxChunks
TypeOK ==
  /\ row \in [exists : BOOLEAN, status : Terminal \cup {"running"}, counted : Chunk]
  /\ nextChunk \in Chunk /\ lost \in Chunk /\ errors \in 0..MaxErrors
  /\ Len(buffer) <= MaxBuffered
  /\ timers \subseteq 1..stamp

(* Every chunk received is counted once, buffered, being written, or went     *)
(* with a stream that was dropped inside its flush, whichever of the flushes  *)
(* wins and whichever the store refuses (flush_locked, flush_generation).     *)
ChunksOnce ==
  row.exists => row.counted + Len(flight.batch) + Len(buffer) + lost = nextChunk

(* The stored payload is in the order of arrival, and what still waits in the *)
(* buffer comes after it: a late timer never stores an old batch last.        *)
PayloadInOrder ==
  LET all == payload \o flight.batch \o buffer
  IN  \A i, j \in 1..Len(all) : i < j => all[i] < all[j]

(* A call is only finished when its chunks are stored (finish).               *)
FinishedIsFlushed == finished => buffer = <<>>

OutcomeStep ==
    row.status \in Terminal => row'.status = row.status

(* An outcome is never overwritten: the recorder, the end of the Run and the  *)
(* dropped stream's task all write it, and the first one stays.               *)
OutcomeIsFinal == [][OutcomeStep]_recorderVars

CallOver == row.status \in Terminal \/ ~row.exists \/ errors > 0

(* A call does not stay running: whatever its stream does, its row gets an    *)
(* outcome or is cleared, unless the store refused a write.                   *)
CallEnds == <>CallOver
=============================================================================
