----------------------------- MODULE TraceWorker ----------------------------
(* The trace of one Cursor request: handlers and response streams put events  *)
(* into a bounded queue without waiting, and one worker writes them.  Every   *)
(* append handler has a recorder of its own; the response streams of a local  *)
(* Run (a second one after a reconnect) share the recorder of the transport   *)
(* and reach it through a sink task.                                          *)
EXTENDS Naturals, Sequences, SequencesExt, FiniteSets

CONSTANTS
  MaxSeq,      \* appends carry append_seqno 0..MaxSeq (bound)
  MaxPieces,   \* response chunks of a stream (bound)
  Capacity,    \* TRACE_QUEUE_CAPACITY
  MaxBatch,    \* MAX_BUFFERED_CHUNKS
  MaxFaults    \* writes that the store refuses (bound)

Seqs == 0..MaxSeq
StreamIds == {1, 2}
Transport == MaxSeq + 1        \* the recorder of the transport
Recorders == Seqs \cup {Transport}

VARIABLES
  events,      \* the channel
  activation,  \* per recorder: "unknown", "active" or "disabled"
  closedBy,    \* CursorTraceRecorder.finished of the transport's recorder
  handler,     \* per append: "new", "announced" or "over"
  reply,       \* per stream: "new", "open" or "over", and the chunks it sent
  state,       \* the worker's states entry: "none", "active" or "disabled"
  pieces,      \* the worker's ResponseBuffer
  order,       \* the worker's RequestOrder
  trace,       \* the row of cursor_run_traces
  artifacts,   \* cursor_run_trace_artifacts, in the order of seq
  detailed,    \* whether detailed logging is on
  seen,        \* append_seqno of the requests that the worker accepted
  faults       \* writes refused so far

traceVars == <<events, activation, closedBy, handler, reply, state, pieces, order, trace,
               artifacts, detailed, faults, seen>>

NoOrder == [next |-> 0, pending |-> {}]

Init ==
  /\ events = <<>> /\ activation = [r \in Recorders |-> "unknown"] /\ closedBy = FALSE
  /\ handler = [s \in Seqs |-> "new"]
  /\ reply = [i \in StreamIds |-> [at |-> "new", sent |-> 0]]
  /\ state = "none" /\ pieces = <<>> /\ order = NoOrder
  /\ trace = [exists |-> FALSE, status |-> "none", finishes |-> 0] /\ artifacts = <<>>
  /\ detailed \in BOOLEAN /\ faults = 0 /\ seen = {}

----------------------------------------------------------------------------
(* Producers                                                                  *)

(* send_control: try_send drops the event when the channel is full.           *)
SendControl(batch) ==
  LET room == Capacity - Len(events)
      n == IF Len(batch) <= room THEN Len(batch) ELSE room
  IN  events' = events \o SubSeq(batch, 1, n)

(* send: nothing once the recorder knows that tracing is off.                 *)
Send(r, event) ==
  IF activation[r] = "disabled" THEN UNCHANGED events ELSE SendControl(<<event>>)

Event(kind, n, r) == [kind |-> kind, n |-> n, from |-> r]

(* bidi_handler: the append that brings the model begins the trace, any other *)
(* one resumes it; then the append is delivered and its request recorded.     *)
Announce(s) ==
  /\ handler[s] = "new" /\ handler' = [handler EXCEPT ![s] = "announced"]
  /\ SendControl(<<Event(IF s = 0 THEN "begin" ELSE "resume", s, s)>>)
  /\ UNCHANGED <<activation, closedBy, reply, state, pieces, order, trace, artifacts, detailed, faults, seen>>

RecordRequest(s) ==
  /\ handler[s] = "announced" /\ handler' = [handler EXCEPT ![s] = "over"]
  /\ Send(s, Event("request", s, s))
  /\ UNCHANGED <<activation, closedBy, reply, state, pieces, order, trace, artifacts, detailed, faults, seen>>

(* run_sse::stream: the transport's recorder resumes with the transport, and  *)
(* each stream marks the start of its response.                               *)
StartReply(i) ==
  /\ reply[i].at = "new" /\ \A j \in StreamIds : j < i => reply[j].at = "over"
  /\ reply' = [reply EXCEPT ![i].at = "open"]
  /\ IF activation[Transport] = "disabled"
     THEN UNCHANGED events
     ELSE SendControl((IF i = 1 THEN <<Event("resume", 0, Transport)>> ELSE <<>>)
                      \o <<Event("started", i, Transport)>>)
  /\ UNCHANGED <<activation, closedBy, handler, state, pieces, order, trace, artifacts, detailed, faults, seen>>

(* response_chunk, through TraceStreamSink                                    *)
SendPiece(i) ==
  /\ reply[i].at = "open" /\ reply[i].sent < MaxPieces
  /\ reply' = [reply EXCEPT ![i].sent = @ + 1]
  /\ IF closedBy THEN UNCHANGED events
     ELSE Send(Transport, Event("chunk", reply[i].sent, Transport))
  /\ UNCHANGED <<activation, closedBy, handler, state, pieces, order, trace, artifacts, detailed, faults, seen>>

(* finish, from the stream's end or from the drop of its sink; once for all   *)
(* streams of the recorder.                                                   *)
EndReply(i) ==
  /\ reply[i].at = "open" /\ reply' = [reply EXCEPT ![i].at = "over"]
  /\ closedBy' = TRUE
  /\ IF closedBy THEN UNCHANGED events
     ELSE SendControl(<<Event("finish", i, Transport)>>)
  /\ UNCHANGED <<activation, handler, state, pieces, order, trace, artifacts, detailed, faults, seen>>

----------------------------------------------------------------------------
(* The worker                                                                 *)

Fault == faults < MaxFaults /\ faults' = faults + 1
Lookup == IF trace.exists THEN "active" ELSE "disabled"
(* ensure_state: the row decides when nothing is cached.                      *)
EnsureState == IF state = "none" THEN Lookup ELSE state

(* link_cursor_trace_artifact_tx: the next seq of the request's artifacts     *)
Artifact(kind, n) == [kind |-> kind, n |-> n, life |-> trace.finishes]

(* start_cursor_trace_if_detailed                                             *)
ProcessBegin ==
  /\ events # <<>> /\ Head(events).kind = "begin" /\ events' = Tail(events)
  /\ \/ /\ trace' = IF ~trace.exists /\ detailed
                    THEN [exists |-> TRUE, status |-> "running", finishes |-> 0] ELSE trace
        /\ state' = IF trace'.exists THEN "active" ELSE "disabled"
        /\ UNCHANGED faults
     \/ Fault /\ state' = "disabled" /\ UNCHANGED trace
  /\ activation' = [activation EXCEPT ![Head(events).from] = state']
  /\ UNCHANGED <<closedBy, handler, reply, pieces, order, artifacts, detailed, seen>>

ProcessResume ==
  /\ events # <<>> /\ Head(events).kind = "resume" /\ events' = Tail(events)
  /\ state' = EnsureState
  /\ activation' = [activation EXCEPT ![Head(events).from] = state']
  /\ UNCHANGED <<closedBy, handler, reply, pieces, order, trace, artifacts, detailed, faults, seen>>

(* append_request: requests wait for the ones before them; a refused write    *)
(* loses its request and leaves the rest waiting.                             *)
AppendRequest(seq) ==
  LET held == order.pending \cup {seq}
      run == {n \in held : \A k \in order.next..n : k \in held}
      written(k) == [i \in 1..k |-> Artifact("request", order.next + i - 1)]
  IN  IF seq < order.next
      THEN artifacts' = Append(artifacts, Artifact("request", seq)) /\ UNCHANGED <<order, faults>>
      ELSE \/ /\ artifacts' = artifacts \o written(Cardinality(run))
              /\ order' = [next |-> order.next + Cardinality(run), pending |-> held \ run]
              /\ UNCHANGED faults
           \/ \E k \in 0..(Cardinality(run) - 1) :
                /\ Fault
                /\ artifacts' = artifacts \o written(k)
                /\ order' = [next |-> order.next + k,
                             pending |-> held \ (order.next..(order.next + k))]

ProcessRequest ==
  /\ events # <<>> /\ Head(events).kind = "request" /\ events' = Tail(events)
  /\ state' = EnsureState
  /\ IF EnsureState = "active"
     THEN AppendRequest(Head(events).n) /\ seen' = seen \cup {Head(events).n}
     ELSE UNCHANGED <<artifacts, order, faults, seen>>
  /\ UNCHANGED <<activation, closedBy, handler, reply, pieces, trace, detailed>>

ProcessStarted ==
  /\ events # <<>> /\ Head(events).kind = "started" /\ events' = Tail(events)
  /\ state' = EnsureState
  /\ trace' = IF EnsureState = "active" /\ trace.exists THEN [trace EXCEPT !.status = "running"] ELSE trace
  /\ UNCHANGED <<activation, closedBy, handler, reply, pieces, order, artifacts, detailed, faults, seen>>

(* add_cursor_trace_response_chunks                                           *)
Stored(batch) == [i \in DOMAIN batch |-> Artifact("chunk", batch[i])]

(* flush_one: a refused batch stays.                                          *)
FlushPieces(batch) ==
  \/ artifacts' = artifacts \o Stored(batch) /\ pieces' = <<>> /\ UNCHANGED faults
  \/ batch # <<>> /\ Fault /\ pieces' = batch /\ UNCHANGED artifacts

ProcessChunk ==
  /\ events # <<>> /\ Head(events).kind = "chunk" /\ events' = Tail(events)
  /\ state' = EnsureState
  /\ LET batch == Append(pieces, Head(events).n)
     IN  IF EnsureState # "active" THEN UNCHANGED <<pieces, artifacts, faults>>
         ELSE IF Len(batch) >= MaxBatch THEN FlushPieces(batch)
         ELSE pieces' = batch /\ UNCHANGED <<artifacts, faults>>
  /\ UNCHANGED <<activation, closedBy, handler, reply, order, trace, detailed, seen>>

(* flush_request_order: whatever still waits, in the order of its numbers.    *)
FinishOrder ==
  LET sorted == SetToSortSeq(order.pending, LAMBDA a, b : a < b)
  IN  [i \in DOMAIN sorted |-> Artifact("request", sorted[i])]

(* Finish: everything that waits is written, the row is closed, and the       *)
(* worker forgets the request, also when a write was refused.                 *)
ProcessFinish ==
  /\ events # <<>> /\ Head(events).kind = "finish" /\ events' = Tail(events)
  /\ IF EnsureState = "active"
     THEN \E flushed, closed \in BOOLEAN :
            /\ IF flushed /\ closed THEN UNCHANGED faults ELSE Fault
            /\ artifacts' = artifacts \o FinishOrder \o (IF flushed THEN Stored(pieces) ELSE <<>>)
            /\ trace' = [trace EXCEPT !.status = IF closed THEN "closed" ELSE @, !.finishes = @ + 1]
     ELSE UNCHANGED <<artifacts, trace, faults>>
  /\ state' = "none" /\ pieces' = <<>> /\ order' = NoOrder
  /\ UNCHANGED <<activation, closedBy, handler, reply, detailed, seen>>

(* interval.tick: flush_all                                                   *)
Tick ==
  /\ pieces # <<>> /\ FlushPieces(pieces)
  /\ UNCHANGED <<events, activation, closedBy, handler, reply, state, order, trace, detailed, seen>>

Next ==
  \/ \E s \in Seqs : Announce(s) \/ RecordRequest(s)
  \/ \E i \in StreamIds : StartReply(i) \/ SendPiece(i) \/ EndReply(i)
  \/ ProcessBegin \/ ProcessResume \/ ProcessRequest \/ ProcessStarted
  \/ ProcessChunk \/ ProcessFinish \/ Tick

Spec == Init /\ [][Next]_traceVars

----------------------------------------------------------------------------
(* The requests of one life of the trace are stored in the order of their     *)
(* append_seqno, whichever order the handlers record them in, also when one   *)
(* of them is dropped or refused (append_request, flush_request_order).       *)
RequestsInOrder ==
  \A i, j \in DOMAIN artifacts :
    i < j /\ artifacts[i].kind = "request" /\ artifacts[j].kind = "request"
          /\ artifacts[i].life = artifacts[j].life
      => artifacts[i].n < artifacts[j].n

(* Chunks are stored once and in order, through refused flushes, the timer    *)
(* and a reconnect after the end of the trace.                                *)
ChunksInOrder ==
  LET chunk == SelectSeq(artifacts, LAMBDA a : a.kind = "chunk")
      all == [i \in DOMAIN chunk |-> chunk[i].n] \o pieces
  IN  \A i, j \in DOMAIN all : i < j => all[i] < all[j]

(* No accepted request is lost unless the store refused it: it is stored or   *)
(* waits for an earlier one, and the end of the trace writes what waits.      *)
RequestsKept ==
  faults = 0 =>
    \A s \in seen : s \in order.pending \/ \E i \in DOMAIN artifacts :
                      artifacts[i].kind = "request" /\ artifacts[i].n = s
=============================================================================
