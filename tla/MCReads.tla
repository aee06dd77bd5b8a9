------------------------------ MODULE MCReads ------------------------------
(***************************************************************************)
(* The three mechanisms behind a read of the store, on small instances: a  *)
(* behaviour follows the index caches, the xorb mappings or the pipeline   *)
(* of a reconstructed file, which share no state.                          *)
(***************************************************************************)
EXTENDS IndexCache, XorbMap, Pipeline

CONSTANTS s1, s2, k1, k2

C(len, compressed) == [len |-> len, compressed |-> compressed, ok |-> TRUE]
Bad(len) == [len |-> len, compressed |-> TRUE, ok |-> FALSE]
T(size, chunks) == [size |-> size, chunks |-> chunks]

\* Two terms around an empty one, trailing empty chunks that drain discards.
Whole == <<T(1, <<C(1, TRUE)>>), T(0, <<C(1, TRUE)>>), T(1, <<C(1, TRUE), C(0, FALSE)>>)>>

\* Last terms whose chunks exceed, or fall short of, what they declare.
Excess == <<T(1, <<C(1, FALSE)>>), T(1, <<C(1, TRUE), C(1, FALSE)>>)>>
Short == <<T(1, <<C(1, FALSE)>>), T(2, <<C(1, TRUE)>>)>>

\* Chunks of two bytes, read in parts.
Parts == <<T(3, <<C(2, TRUE), C(1, FALSE)>>), T(1, <<C(1, TRUE)>>)>>

\* A chunk that does not decode.
Corrupt == <<T(1, <<Bad(1)>>), T(2, <<C(2, FALSE)>>)>>

MCTermLists == {Whole, Parts, Excess, Short, Corrupt}

\* S3 with its disk copies and failing calls, and a local store.
MCBackends == {[remote |-> TRUE, mayFail |-> TRUE], [remote |-> FALSE, mayFail |-> FALSE]}
MCMapping == 1 .. Cardinality(Hash) + 2 * Cardinality(Reader) + 2
MCMaxAcquires == [r \in Reader |-> 1]

\* Two shards that share an index entry.
MCEntriesOf == s1 :> <<k1>> @@ s2 :> <<k1, k2>>

-----------------------------------------------------------------------------
VARIABLE focus

vars == <<focus, indexVars, mapVars, pipeVars>>

Init ==
    /\ focus \in {"index", "map", "pipe"}
    /\ IndexInit /\ MapInit /\ PipeInit
    /\ focus # "index" => ~bucket
    /\ focus # "map" => objects = {} /\ ~backend.remote
    /\ focus # "pipe" => terms = Whole

Next ==
    /\ UNCHANGED focus
    /\ \/ focus = "index" /\ IndexNext /\ UNCHANGED <<mapVars, pipeVars>>
       \/ focus = "map" /\ MapNext /\ UNCHANGED <<indexVars, pipeVars>>
       \/ focus = "pipe" /\ PipeNext /\ UNCHANGED <<indexVars, mapVars>>

\* Every goroutine takes the steps it can take.
Spec ==
    /\ Init /\ [][Next]_vars
    /\ \A r \in Reader :
         WF_vars(focus = "map" /\ ReaderStep(r) /\ UNCHANGED <<focus, backend, indexVars, pipeVars>>)
    /\ \A a \in Actor :
         WF_vars(focus = "map" /\ Unmap(a) /\ UNCHANGED <<focus, backend, indexVars, pipeVars>>)
    /\ WF_vars(focus = "pipe" /\ Fetch /\ UNCHANGED <<focus, indexVars, mapVars>>)
    /\ WF_vars(focus = "pipe" /\ ReadOn /\ UNCHANGED <<focus, indexVars, mapVars>>)
    /\ WF_vars(focus = "pipe" /\ CloseOn /\ UNCHANGED <<focus, indexVars, mapVars>>)
    /\ \A w \in Worker : WF_vars(focus = "pipe" /\ Work(w) /\ UNCHANGED <<focus, indexVars, mapVars>>)
=============================================================================
