---------------------------- MODULE ShardStream ----------------------------
(***************************************************************************)
(* UploadShardV2: the handler of /v2/shards streams frames while it        *)
(* decodes and commits, a heartbeat goroutine repeats the last one, and    *)
(* the client retries the whole upload on a retryable error frame.  The    *)
(* handler of an attempt whose client is gone may still be running.        *)
(*                                                                         *)
(* A frame is "progress", "result", "retry" (a retryable error) or "fatal".*)
(***************************************************************************)
EXTENDS Integers, Sequences

CONSTANTS
    StreamBlocks,    \* CAS blocks the shard lists
    Tries,        \* attempts of UploadShardV2
    MaxBeats,     \* bound: heartbeats of one stream
    MaxTroubles   \* bound: storage errors, rejections and broken connections

ASSUME StreamAssumption == StreamBlocks \in Nat /\ Tries \in Nat \ {0} /\ MaxBeats \in Nat

VARIABLES
    client,    \* "send", "read", "ok" or "error"
    stream,    \* stream[n]: the n-th attempt
    missing,   \* CAS blocks whose xorb the server lacks
    shardKept, \* the server has committed the shard
    troubles

streamVars == <<client, stream, missing, shardKept, troubles>>

Terminal == {"result", "retry", "fatal"}
this == Len(stream)

StreamInit ==
    /\ client = "send" /\ stream = <<>>
    /\ missing \in SUBSET (1 .. StreamBlocks)
    /\ shardKept = FALSE /\ troubles = 0

Trouble == troubles < MaxTroubles /\ troubles' = troubles + 1
Fine == UNCHANGED troubles

\* newShardUploadRequest and the handler's first frame; the heartbeat starts.
Send ==
    /\ client = "send"
    /\ client' = "read"
    /\ stream' = Append(stream, [at |-> "decode", block |-> 0, wire |-> <<"progress">>, seen |-> 0, last |-> "progress",
                                 open |-> TRUE, heart |-> "on", beats |-> 0, say |-> "none"])
    /\ UNCHANGED <<missing, shardKept>> /\ Fine

-----------------------------------------------------------------------------
(* The handler of attempt n.                                                *)

Put(n, frame) == [stream[n] EXCEPT !.wire = Append(@, frame), !.last = frame]
Set(n, value) == stream' = [stream EXCEPT ![n] = value]

\* The handler returns without a terminal frame; its deferred stopHeartbeat
\* closes the channel and waits.
Returns(n) == [stream[n] EXCEPT !.at = "stop", !.heart = "stopping", !.say = "nothing"]

\* A write fails only on a broken connection, and then the handler returns.
Progress(n, at, block) ==
    IF stream[n].open
    THEN Set(n, [Put(n, "progress") EXCEPT !.at = at, !.block = block])
    ELSE Set(n, Returns(n))

\* Defect: stopHeartbeat waits without having closed the channel.
FinishWaiting(n, frame) == Set(n, [stream[n] EXCEPT !.at = "stop", !.say = frame])

\* stopHeartbeat, then the terminal frame.
Finish(n, frame) == Set(n, [stream[n] EXCEPT !.at = "stop", !.heart = "stopping", !.say = frame])

\* The CAS block callback: the referenced xorb is looked for as soon as its
\* block is decoded.
DecodeBlock(n) ==
    /\ stream[n].at = "decode" /\ stream[n].block < StreamBlocks
    /\ \/ Trouble /\ Finish(n, "retry")
       \/ /\ Fine
          /\ IF stream[n].block + 1 \in missing
             THEN Finish(n, "fatal")
             ELSE Progress(n, "decode", stream[n].block + 1)
    /\ UNCHANGED <<client, missing, shardKept>>

\* The body ends early, or the shard is invalid or not authorised.
Reject(n) ==
    /\ stream[n].at = "decode" /\ Trouble
    /\ Finish(n, "fatal")
    /\ UNCHANGED <<client, missing, shardKept>>

ShardDecoded(n) ==
    /\ stream[n].at = "decode" /\ stream[n].block = StreamBlocks
    /\ Progress(n, "put", StreamBlocks)
    /\ UNCHANGED <<client, missing, shardKept>> /\ Fine

\* PutShard may fail, also after it stored the shard.
PutShardV2(n) ==
    /\ stream[n].at = "put"
    /\ \/ /\ Fine /\ shardKept' = TRUE
          /\ Progress(n, "put-done", StreamBlocks)
       \/ /\ Trouble /\ shardKept' \in {shardKept, TRUE}
          /\ \E frame \in {"retry", "fatal"} : Finish(n, frame)
    /\ UNCHANGED <<client, missing>>

Commit(n) ==
    /\ stream[n].at = "put-done"
    /\ Finish(n, "result")
    /\ UNCHANGED <<client, missing, shardKept>> /\ Fine

\* <-finished: the heartbeat goroutine is gone.
Stopped(n) ==
    /\ stream[n].at = "stop" /\ stream[n].heart = "off"
    /\ Set(n, [(IF stream[n].say # "nothing" /\ stream[n].open THEN Put(n, stream[n].say) ELSE stream[n]) EXCEPT !.at = "done"])
    /\ UNCHANGED <<client, missing, shardKept>> /\ Fine

\* A tick: the last frame once more.
Beat(n) ==
    /\ stream[n].heart # "off" /\ stream[n].beats < MaxBeats
    /\ Set(n, [stream[n] EXCEPT !.beats = @ + 1, !.wire = IF stream[n].open THEN Append(@, stream[n].last) ELSE @])
    /\ UNCHANGED <<client, missing, shardKept>> /\ Fine

HeartStops(n) ==
    /\ stream[n].heart = "stopping"
    /\ Set(n, [stream[n] EXCEPT !.heart = "off"])
    /\ UNCHANGED <<client, missing, shardKept>> /\ Fine

Handler(n) == DecodeBlock(n) \/ ShardDecoded(n) \/ PutShardV2(n) \/ Commit(n) \/ Stopped(n) \/ HeartStops(n)

-----------------------------------------------------------------------------
(* parseShardUploadNDJSON and the retry loop.                               *)

\* Defect: a stream that ends is taken for a success.
AfterEOFGood == "ok"

AfterEOF == "error"

After(frame) ==
    CASE frame = "result" -> "ok"
      [] frame = "retry" -> IF this < Tries THEN "send" ELSE "error"
      [] frame = "fatal" -> "error"
      [] OTHER -> "read"

ReadFrame ==
    /\ client = "read" /\ stream[this].seen < Len(stream[this].wire)
    /\ client' = After(stream[this].wire[stream[this].seen + 1])
    /\ stream' = [stream EXCEPT ![this].seen = @ + 1, ![this].open = client' = "read"]
    /\ UNCHANGED <<missing, shardKept>> /\ Fine

\* The stream ended, or broke, without a terminal frame.
ReadEOF ==
    /\ client = "read" /\ stream[this].seen = Len(stream[this].wire)
    /\ stream[this].at = "done" \/ ~stream[this].open
    /\ client' = AfterEOF
    /\ stream' = [stream EXCEPT ![this].open = FALSE]
    /\ UNCHANGED <<missing, shardKept>> /\ Fine

\* The connection breaks and frames not yet read are lost.
Break ==
    /\ client = "read" /\ stream[this].open /\ Trouble
    /\ \E kept \in stream[this].seen .. Len(stream[this].wire) :
          stream' = [stream EXCEPT ![this].open = FALSE, ![this].wire = SubSeq(@, 1, kept)]
    /\ UNCHANGED <<client, missing, shardKept>>

\* The upload's context ends, or the request never reaches the server.
Quit ==
    /\ client \in {"send", "read"} /\ Trouble
    /\ client' = "error"
    /\ stream' = IF client = "read" THEN [stream EXCEPT ![this].open = FALSE] ELSE stream
    /\ UNCHANGED <<missing, shardKept>>

\* The missing xorb arrives from another upload.
Arrive ==
    /\ missing # {} /\ missing' = {}
    /\ UNCHANGED <<client, stream, shardKept>> /\ Fine

StreamStep == Send \/ ReadFrame \/ ReadEOF \/ \E n \in DOMAIN stream : Handler(n)
StreamNext == StreamStep \/ Break \/ Quit \/ Arrive \/ \E n \in DOMAIN stream : Reject(n) \/ Beat(n)

-----------------------------------------------------------------------------
\* A terminal frame is the last of its stream: no heartbeat repeats it, and no
\* progress follows it.
TerminalLast ==
    \A n \in DOMAIN stream : \A k \in DOMAIN stream[n].wire :
        stream[n].wire[k] \in Terminal => k = Len(stream[n].wire)

\* The client reports success only for a shard the server committed, whatever
\* broke in between.
ResultCommitted == client = "ok" => shardKept

\* A handler that returned has stopped its heartbeat goroutine.
HeartbeatStopped == \A n \in DOMAIN stream : stream[n].at = "done" => stream[n].heart = "off"

\* An upload that began returns and no handler stays behind, whether its client
\* waits for it or is gone.
StreamEnds == stream # <<>> ~> (client \in {"ok", "error"} /\ \A n \in DOMAIN stream : stream[n].at = "done")

\* The streamed shard upload: success is the committed shard's, and a terminal
\* frame ends both the stream and its heartbeat.
ShardUploadSound == ResultCommitted /\ TerminalLast /\ HeartbeatStopped
=============================================================================
