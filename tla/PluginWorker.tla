---------------------------- MODULE PluginWorker ----------------------------
(***************************************************************************)
(* The long-lived Deno process of one plugin (src/server/src/plugin/        *)
(* worker.rs) and the SDK loop it runs (src/server/src/plugin/sdk/          *)
(* worker.ts).  Calls share one process: a call registers its sender in     *)
(* pending and its InvocationState in invocations, takes the stdin of the   *)
(* live process (starting one if the last has died), writes its request,    *)
(* and a watcher task waits for cancellation or for the receiver to go.     *)
(* One reader task per process hands results to the senders and runs host   *)
(* calls; when its process ends it fails whatever is pending.               *)
(***************************************************************************)
EXTENDS Integers, Sequences, SequencesExt

CONSTANTS Streams,      \* provider.invoke: with a cancellation
          Unaries,      \* the other methods: with a timeout
          MaxProcesses, \* bound: processes started
          MaxSaid       \* bound: events and host calls of the plugins

VARIABLES process,      \* PluginWorkerInner.process: its index in procs, or 0
          procs,        \* the processes started so far, oldest first
          pending,      \* the calls that have a sender in pending
          invocations,  \* the calls that have an InvocationState
          calls,        \* each call: its caller, its channel and its watcher
          hosts,        \* the host calls spawned by the readers
          stopping,     \* PluginWorker::stop: "no", "killed" or "done"
          said          \* counts events and host calls, for the bound

Calls == Streams \cup Unaries

workerVars == <<process, procs, pending, invocations, calls, hosts, stopping, said>>

(* One item of a WorkerStreamItem channel: an event or a final result.      *)
Finals == {"ok", "exited", "cancelled"}
HasFinal(c) == \E i \in DOMAIN calls[c].inbox : calls[c].inbox[i] \in Finals

NewProcess == [alive |-> TRUE, reading |-> TRUE, stdout |-> <<>>, serving |-> {}]

Init == /\ process = 0
        /\ procs = <<>>
        /\ pending = {} /\ invocations = {}
        /\ calls = [c \in Calls |-> [at |-> "idle", proc |-> 0, inbox |-> <<>>,
                                     watcher |-> "none", token |-> FALSE]]
        /\ hosts = <<>>
        /\ stopping = "no" /\ said = 0

(* sender.send: nothing arrives once the receiver has been dropped.         *)
Sent(cs, c, item) ==
  IF cs[c].at = "closed" THEN cs ELSE [cs EXCEPT ![c].inbox = Append(@, item)]

(* Mutation: the reader stops and leaves the callers waiting.               *)
FailNothing == UNCHANGED <<calls, pending>>

(* fail_pending takes every sender and sends each a final error.            *)
FailPending ==
  /\ calls' = [c \in Calls |-> IF c \in pending THEN Sent(calls, c, "exited")[c]
                                                ELSE calls[c]]
  /\ pending' = {}

-----------------------------------------------------------------------------
(* invoke_streaming.                                                        *)

Register(c) ==
  /\ calls[c].at = "idle"
  /\ calls' = [calls EXCEPT ![c].at = "registered"]
  /\ pending' = pending \cup {c}
  /\ invocations' = invocations \cup {c}
  /\ UNCHANGED <<process, procs, hosts, stopping, said>>

(* An Err before the request is written: cleanup, and no receiver.          *)
Refuse(c) ==
  /\ calls' = [calls EXCEPT ![c].at = "refused", ![c].inbox = <<>>]
  /\ pending' = pending \ {c}
  /\ invocations' = invocations \ {c}

Dead == ~\E p \in DOMAIN procs : p = process /\ procs[p].alive

(* stdin: the process mutex is held while a dead process is replaced.       *)
TakeStdin(c) ==
  /\ calls[c].at = "registered"
  /\ \/ /\ ~Dead
        /\ calls' = [calls EXCEPT ![c].at = "writing", ![c].proc = process]
        /\ UNCHANGED <<process, procs, pending, invocations>>
     \/ /\ Dead /\ Len(procs) < MaxProcesses
        /\ procs' = Append(procs, NewProcess)
        /\ process' = Len(procs) + 1
        /\ calls' = [calls EXCEPT ![c].at = "writing", ![c].proc = Len(procs) + 1]
        /\ UNCHANGED <<pending, invocations>>
     \/ Dead /\ Refuse(c) /\ UNCHANGED <<process, procs>>
  /\ UNCHANGED <<hosts, stopping, said>>

(* The SDK loop reads its stdin to the end: a request that was written is    *)
(* served until it is answered or the process dies.                         *)
Write(c) ==
  /\ calls[c].at = "writing"
  /\ LET p == calls[c].proc
     IN  IF procs[p].alive
         THEN /\ procs' = [procs EXCEPT ![p].serving = @ \cup {c}]
              /\ calls' = [calls EXCEPT ![c].at = "open", ![c].watcher = "waiting"]
              /\ UNCHANGED <<pending, invocations>>
         ELSE Refuse(c) /\ UNCHANGED procs
  /\ UNCHANGED <<process, hosts, stopping, said>>

(* The caller: invoke skips events and returns at the first final result;   *)
(* the receiver goes with it.  A timeout, or a dropped stream, also drops it. *)
Dropped(c) == [calls EXCEPT ![c].at = "closed", ![c].inbox = <<>>]

Receive(c) ==
  /\ calls[c].at = "open" /\ calls[c].inbox # <<>>
  /\ calls' = IF Head(calls[c].inbox) \in Finals THEN Dropped(c)
              ELSE [calls EXCEPT ![c].inbox = Tail(@)]
  /\ UNCHANGED <<process, procs, pending, invocations, hosts, stopping, said>>

Abandon(c) ==
  /\ calls[c].at = "open"
  /\ calls' = Dropped(c)
  /\ UNCHANGED <<process, procs, pending, invocations, hosts, stopping, said>>

-----------------------------------------------------------------------------
(* The watcher task of a call.                                              *)

Closed(c) ==
  /\ calls[c].watcher = "waiting" /\ calls[c].at = "closed"
  /\ calls' = [calls EXCEPT ![c].watcher = "done"]
  /\ invocations' = invocations \ {c}
  /\ UNCHANGED <<process, procs, pending, hosts, stopping, said>>

Cancelled(c) ==
  /\ c \in Streams /\ calls[c].watcher = "waiting"
  /\ calls' = [calls EXCEPT ![c].watcher = "telling", ![c].token = TRUE]
  /\ UNCHANGED <<process, procs, pending, invocations, hosts, stopping, said>>

(* The Cancel message aborts the signal of the call, which the plugin may    *)
(* ignore; it goes to the process of now, whoever serves the call.          *)
TellWorker(c) ==
  /\ calls[c].watcher = "telling"
  /\ calls' = [Sent(calls, c, "cancelled") EXCEPT ![c].watcher = "unlisting"]
  /\ UNCHANGED <<process, procs, pending, invocations, hosts, stopping, said>>

Unlist(c) ==
  /\ calls[c].watcher = "unlisting"
  /\ pending' = pending \ {c}
  /\ calls' = [calls EXCEPT ![c].watcher = "releasing"]
  /\ UNCHANGED <<process, procs, invocations, hosts, stopping, said>>

ReleaseCall(c) ==
  /\ calls[c].watcher = "releasing"
  /\ invocations' = invocations \ {c}
  /\ calls' = [calls EXCEPT ![c].watcher = "done"]
  /\ UNCHANGED <<process, procs, pending, hosts, stopping, said>>

-----------------------------------------------------------------------------
(* The process: the SDK and the plugin's capabilities.                      *)

Say(p, c) ==
  /\ procs[p].alive /\ c \in procs[p].serving
  /\ said < MaxSaid
  /\ said' = said + 1
  /\ \E kind \in {"event", "host"} : procs' = [procs EXCEPT ![p].stdout = Append(@, <<kind, c>>)]
  /\ UNCHANGED <<process, pending, invocations, calls, hosts, stopping>>

Answer(p, c) ==
  /\ procs[p].alive /\ c \in procs[p].serving
  /\ procs' = [procs EXCEPT ![p].stdout = Append(@, <<"result", c>>),
                            ![p].serving = @ \ {c}]
  /\ UNCHANGED <<process, pending, invocations, calls, hosts, stopping, said>>

Crash(p) ==
  /\ procs[p].alive
  /\ procs' = [procs EXCEPT ![p].alive = FALSE, ![p].serving = {}]
  /\ UNCHANGED <<process, pending, invocations, calls, hosts, stopping, said>>

-----------------------------------------------------------------------------
(* The reader task of process p.                                            *)

ReadLine(p) ==
  /\ procs[p].reading /\ procs[p].stdout # <<>>
  /\ procs' = [procs EXCEPT ![p].stdout = Tail(@)]
  /\ LET message == Head(procs[p].stdout) c == message[2]
     IN  \/ /\ message[1] = "result"
            /\ calls' = IF c \in pending THEN Sent(calls, c, "ok") ELSE calls
            /\ pending' = pending \ {c}
            /\ UNCHANGED hosts
         \/ /\ message[1] = "event"
            /\ calls' = IF c \in pending THEN Sent(calls, c, "event") ELSE calls
            /\ UNCHANGED <<pending, hosts>>
         \/ /\ message[1] = "host"
            /\ hosts' = Append(hosts, [call |-> c, at |-> "asked", token |-> "none",
                                       early |-> ~calls[c].token])
            /\ UNCHANGED <<calls, pending>>
  /\ UNCHANGED <<process, invocations, stopping, said>>

ReaderEnds(p) ==
  /\ procs[p].reading /\ ~procs[p].alive /\ procs[p].stdout = <<>>
  /\ procs' = [procs EXCEPT ![p].reading = FALSE]
  /\ FailPending
  /\ UNCHANGED <<process, invocations, hosts, stopping, said>>

-----------------------------------------------------------------------------
(* A host call: HostContext::request finds the token of its invocation, or  *)
(* a fresh one that nobody cancels.                                         *)

FindToken(h) ==
  /\ hosts[h].at = "asked"
  /\ LET c == hosts[h].call
     IN  hosts' = [hosts EXCEPT ![h].at = "sending",
                     ![h].token = IF c \in invocations THEN "call" ELSE "fresh"]
  /\ UNCHANGED <<process, procs, pending, invocations, calls, stopping, said>>

(* The network answers, or the token ends the wait.                         *)
HostEnds(h) ==
  /\ hosts[h].at = "sending"
  /\ hosts' = [hosts EXCEPT ![h].at = "done", ![h].token = "none", ![h].early = FALSE]
  /\ UNCHANGED <<process, procs, pending, invocations, calls, stopping, said>>

-----------------------------------------------------------------------------
(* stop: kill the process, then fail the calls that wait.                   *)

StopKill ==
  /\ stopping = "no" /\ process # 0
  /\ stopping' = "killed"
  /\ procs' = [procs EXCEPT ![process].alive = FALSE, ![process].serving = {}]
  /\ process' = 0
  /\ UNCHANGED <<pending, invocations, calls, hosts, said>>

StopFail ==
  /\ stopping = "killed"
  /\ stopping' = "done"
  /\ FailPending
  /\ UNCHANGED <<process, procs, invocations, hosts, said>>

Next ==
  \/ \E c \in Calls : \/ Register(c) \/ TakeStdin(c) \/ Write(c) \/ Receive(c)
                      \/ Abandon(c) \/ Closed(c) \/ Cancelled(c) \/ TellWorker(c)
                      \/ Unlist(c) \/ ReleaseCall(c)
  \/ \E p \in DOMAIN procs : \/ Crash(p) \/ ReadLine(p) \/ ReaderEnds(p)
                             \/ \E c \in Calls : Say(p, c) \/ Answer(p, c)
  \/ \E h \in DOMAIN hosts : FindToken(h) \/ HostEnds(h)
  \/ StopKill \/ StopFail

Spec == Init /\ [][Next]_workerVars

-----------------------------------------------------------------------------
(* A caller that waits will be answered: as long as it has no final result, *)
(* its sender is registered and the reader of the process it wrote to is    *)
(* running, which ends by failing whatever is pending.                      *)
NoOrphanCall ==
  \A c \in Calls : calls[c].at = "open" /\ calls[c].watcher = "waiting" /\ ~HasFinal(c)
                     => c \in pending /\ procs[calls[c].proc].reading

(* Nothing is left behind: once a call's watcher is done, or the call was   *)
(* refused, the maps keep no InvocationState of it, and a sender only while *)
(* the reader that will drop it is running.                                 *)
NothingLeft ==
  \A c \in Calls :
    /\ calls[c].watcher = "done" => c \notin invocations
    /\ calls[c].at = "refused" => c \notin pending \cup invocations
    /\ c \in pending /\ calls[c].at \in {"open", "closed"} => procs[calls[c].proc].reading

(* "Cancellation propagates through the token to the worker and to its      *)
(* pending host network requests" (invoke_streaming): a request the worker  *)
(* made before the call was cancelled is sent under the call's token.       *)
CancelReachesNetwork ==
  \A h \in DOMAIN hosts :
    hosts[h].early /\ hosts[h].at = "sending" /\ calls[hosts[h].call].token
      => hosts[h].token = "call"

-----------------------------------------------------------------------------
(***************************************************************************)
(* A streaming response read by a plugin (stream_open, stream_read and      *)
(* network.stream.close of src/server/src/plugin/worker.rs, and streamLines *)
(* of src/server/src/plugin/sdk/worker.ts).  A pump task cuts the chunks of *)
(* the body into lines and sends them over a bounded channel; the plugin    *)
(* pulls them in batches with stream.read until it is told that it is done. *)
(* Bytes are "a" (any other byte), "cr" and "lf".                           *)
(***************************************************************************)

CONSTANTS Chunks,    \* the chunks a body may be made of
          MaxChunks, \* bound: chunks of one body
          MaxBytes,  \* MAX_STREAM_BYTES
          Capacity,  \* lines the channel holds (256)
          Batch      \* lines of one stream.read (256)

VARIABLES body,      \* the bytes received from the network
          taken,     \* the number of chunks received
          buffered,  \* the pump's bytes that are not yet a line
          pump,      \* "reading", "flushing", "failing" or "gone"
          channel,   \* the lines, or "error", that are sent and not received
          listed,    \* the stream is in HostContext.streams
          plugin,    \* "waiting" in stream.read, "done", "error" or "closed"
          got        \* the lines the plugin was given

streamVars == <<body, taken, buffered, pump, channel, listed, plugin, got>>

StreamInit == /\ body = <<>> /\ taken = 0 /\ buffered = <<>> /\ pump = "reading"
              /\ channel = <<>> /\ listed = TRUE /\ plugin = "waiting" /\ got = <<>>

HasLine == \E i \in DOMAIN buffered : buffered[i] = "lf"

(* The bytes up to the first "lf", without it and without a "cr" before it. *)
LineEnd == CHOOSE i \in DOMAIN buffered :
             buffered[i] = "lf" /\ \A j \in 1..(i - 1) : buffered[j] # "lf"
FirstLine ==
  LET line == SubSeq(buffered, 1, LineEnd - 1)
  IN  IF line # <<>> /\ Last(line) = "cr" THEN Front(line) ELSE line

Buffer(chunk) == buffered \o chunk

(* One chunk of the body, once the lines of the chunks before it are sent.  *)
StreamReceive(chunk) ==
  /\ pump = "reading" /\ ~HasLine /\ taken < MaxChunks
  /\ taken' = taken + 1
  /\ body' = body \o chunk
  /\ IF Len(body') > MaxBytes
     THEN pump' = "failing" /\ UNCHANGED buffered
     ELSE buffered' = Buffer(chunk) /\ UNCHANGED pump
  /\ UNCHANGED <<channel, listed, plugin, got>>

(* A full channel makes the pump wait; a receiver that is gone ends it.     *)
Send(item) == Len(channel) < Capacity /\ channel' = Append(channel, item)

SendLine ==
  /\ pump = "reading" /\ HasLine
  /\ IF listed
     THEN /\ Send(FirstLine)
          /\ buffered' = SubSeq(buffered, LineEnd + 1, Len(buffered))
          /\ UNCHANGED pump
     ELSE pump' = "gone" /\ UNCHANGED <<channel, buffered>>
  /\ UNCHANGED <<body, taken, listed, plugin, got>>

BodyEnds ==
  /\ pump = "reading" /\ ~HasLine
  /\ pump' = IF buffered = <<>> THEN "gone" ELSE "flushing"
  /\ UNCHANGED <<body, taken, buffered, channel, listed, plugin, got>>

(* The connection breaks, or the call is cancelled.                         *)
BodyFails ==
  /\ pump = "reading" /\ ~HasLine
  /\ pump' = "failing"
  /\ UNCHANGED <<body, taken, buffered, channel, listed, plugin, got>>

(* The rest of the body, or the error, is the last thing sent.              *)
Flush ==
  /\ pump \in {"flushing", "failing"}
  /\ IF listed THEN Send(IF pump = "flushing" THEN buffered ELSE <<"error">>)
               ELSE UNCHANGED channel
  /\ pump' = "gone"
  /\ buffered' = <<>>
  /\ UNCHANGED <<body, taken, listed, plugin, got>>

-----------------------------------------------------------------------------
(* stream.read waits for one line and takes those that are ready with it;   *)
(* an error among them replaces them.                                       *)

Ready == SubSeq(channel, 1, IF Len(channel) < Batch THEN Len(channel) ELSE Batch)

ReadLines ==
  /\ plugin = "waiting" /\ channel # <<>>
  /\ IF \E i \in DOMAIN Ready : Ready[i] = <<"error">>
     THEN plugin' = "error" /\ listed' = FALSE /\ channel' = <<>> /\ UNCHANGED got
     ELSE /\ got' = got \o Ready
          /\ channel' = SubSeq(channel, Len(Ready) + 1, Len(channel))
          /\ UNCHANGED <<plugin, listed>>
  /\ UNCHANGED <<body, taken, buffered, pump>>

ReadDone ==
  /\ plugin = "waiting" /\ channel = <<>> /\ pump = "gone"
  /\ plugin' = "done" /\ listed' = FALSE
  /\ UNCHANGED <<body, taken, buffered, pump, channel, got>>

(* The plugin stops iterating: the generator's finally closes the stream.   *)
CloseStream ==
  /\ plugin = "waiting"
  /\ plugin' = "closed" /\ listed' = FALSE /\ channel' = <<>>
  /\ UNCHANGED <<body, taken, buffered, pump, got>>

StreamNext == \/ \E chunk \in Chunks : StreamReceive(chunk)
              \/ SendLine \/ BodyEnds \/ BodyFails \/ Flush
              \/ ReadLines \/ ReadDone \/ CloseStream

StreamSpec == StreamInit /\ [][StreamNext]_streamVars

-----------------------------------------------------------------------------
(* The lines of a whole body, by their positions: each ends at an "lf", or  *)
(* at the end of the body if something follows the last "lf".               *)
LinesOf(b) ==
  LET ends == SelectSeq([i \in DOMAIN b |-> i], LAMBDA i : b[i] = "lf")
      from(k) == IF k = 1 THEN 1 ELSE ends[k - 1] + 1
      strip(s) == IF s # <<>> /\ Last(s) = "cr" THEN Front(s) ELSE s
      rest == SubSeq(b, from(Len(ends) + 1), Len(b))
  IN  [k \in DOMAIN ends |-> strip(SubSeq(b, from(k), ends[k] - 1))]
        \o (IF rest = <<>> THEN <<>> ELSE <<rest>>)

(* However the body is cut into chunks and the lines into batches, the      *)
(* plugin is given the lines of the body, in order and each once            *)
(* (stream_open's buffer, stream_read's batches).                           *)
LinesInOrder == IsPrefix(got, LinesOf(body))

(* A plugin told that the stream is done has all of its lines: an error, a  *)
(* cancellation or a line still in the channel never looks like the end.    *)
DoneIsWhole == plugin = "done" => got = LinesOf(body)
=============================================================================
