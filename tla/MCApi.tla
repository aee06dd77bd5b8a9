------------------------------- MODULE MCApi -------------------------------
(***************************************************************************)
(* The client's calls and the server's handlers on small instances: a      *)
(* behaviour follows one of six mechanisms that share no state.            *)
(***************************************************************************)
EXTENDS Retry, ShardStream, IdleBody, Resume, Reconstruct, GCRequest

CONSTANTS ka, kb, kc, kd

VARIABLE focus

vars == <<focus, retryVars, streamVars, idleVars, resumeVars, reconstructVars, gcVars>>

Init ==
    /\ focus \in {"retry", "stream", "idle", "resume", "reconstruct", "gc"}
    /\ RetryInit /\ StreamInit /\ IdleInit /\ ResumeInit /\ ReconstructInit /\ GCInit
    /\ focus # "resume" => out = <<>>
    /\ focus # "stream" => missing = {}
    /\ focus # "retry" => stored = <<>>

Next ==
    /\ UNCHANGED focus
    /\ \/ /\ focus = "retry" /\ RetryNext
          /\ UNCHANGED <<streamVars, idleVars, resumeVars, reconstructVars, gcVars>>
       \/ /\ focus = "stream" /\ StreamNext
          /\ UNCHANGED <<retryVars, idleVars, resumeVars, reconstructVars, gcVars>>
       \/ /\ focus = "idle" /\ IdleNext
          /\ UNCHANGED <<retryVars, streamVars, resumeVars, reconstructVars, gcVars>>
       \/ /\ focus = "resume" /\ ResumeNext
          /\ UNCHANGED <<retryVars, streamVars, idleVars, reconstructVars, gcVars>>
       \/ /\ focus = "reconstruct" /\ ReconstructNext
          /\ UNCHANGED <<retryVars, streamVars, idleVars, resumeVars, gcVars>>
       \/ /\ focus = "gc" /\ GCNext
          /\ UNCHANGED <<retryVars, streamVars, idleVars, resumeVars, reconstructVars>>

\* The client's and the server's own steps are taken; a timer that runs fires.
Spec ==
    /\ Init /\ [][Next]_vars
    /\ WF_vars(/\ focus = "stream" /\ StreamStep
               /\ UNCHANGED <<focus, retryVars, idleVars, resumeVars, reconstructVars, gcVars>>)
    /\ WF_vars(/\ focus = "idle" /\ IdleStep
               /\ UNCHANGED <<focus, retryVars, streamVars, resumeVars, reconstructVars, gcVars>>)

-----------------------------------------------------------------------------
MCFound == {<<>>, <<1>>, <<1, 2>>, <<0>>, <<0, 0>>, <<0, 0, 0>>}

\* Files with repeated, shared and already stored chunks, and an empty one; the
\* headers meet every boundary of a file of seven bytes.
MCSize == (ka :> 1) @@ (kb :> 2) @@ (kc :> 1) @@ (kd :> 3)
MCPacked == (ka :> 2) @@ (kb :> 2) @@ (kc :> 3) @@ (kd :> 2)
MCStored == {<<ka, kb, kc>>, <<kb, kd>>}
MCUploads == {<<<<ka, kb, kc, kd>>>>, <<<<kb, kc, kb, kc>>, <<kc>>>>, <<<<kd, ka, kb>>, <<ka, kb, kc, kd>>>>, <<<<>>, <<kc, ka>>>>}
MCHeader ==
    {[bytes |-> TRUE, first |-> f, last |-> l] : f \in {0, 3, 7}, l \in {Absent, Malformed, 5, 9}}
    \cup {[bytes |-> TRUE, first |-> Absent, last |-> l] : l \in {Absent, 0, 2}}
    \cup {[bytes |-> TRUE, first |-> Malformed, last |-> 2], NoRange}
MCSetting == {[terms |-> 1, piece |-> 2], [terms |-> 3, piece |-> 0], [terms |-> 6, piece |-> 2]}

\* A shard with a xorb of its own, two spools and a manifest.
MCGarbage ==
    [p \in Passes |-> CASE p = "shards" -> {1} [] p = "xorbs" -> {11}
                        [] p = "spools" -> {21, 22} [] p = "mirror" -> {31}]
MCOwner == [x \in {11} |-> 1]
MCBounds == {[max |-> 1, budget |-> TRUE, dry |-> FALSE]}

-----------------------------------------------------------------------------
\* A download into a prefix of the file that meets no corrupt chunk, resumed,
\* restarted or moved to V1, ends with the file's content or an error; one of the
\* whole file does so whatever it meets.  A body that falls silent stays failed,
\* and every body's context is released.
DownloadSound == ResumedExact /\ RestartVerified /\ TimeoutSticky /\ ContextReleased

\* A streamed upload ends, and so does a call on a server that falls silent.
CallsReturn == StreamEnds /\ IdleReturns
=============================================================================
