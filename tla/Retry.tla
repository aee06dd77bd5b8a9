------------------------------- MODULE Retry -------------------------------
(***************************************************************************)
(* UploadXorb through doWithNetworkRetry: every attempt sends the xorb     *)
(* from one reader whose offset all attempts share.  The transport may     *)
(* return from an attempt while its sender still reads the body, so a      *)
(* sender left over from an earlier attempt takes blocks the current one   *)
(* needed.                                                                 *)
(***************************************************************************)
EXTENDS Integers, Sequences

CONSTANTS
    Blocks,   \* length of the xorb, in reads of the transport
    Retries

ASSUME RetryAssumption == Blocks \in Nat \ {0} /\ Retries \in Nat

VARIABLES
    call,    \* [pc, live]: the call and its context
    offset,  \* of the reader
    conn,    \* conn[cur]: attempt i, [got, sending, answer, alone, late]
    stored   \* what the server stores under the xorb's hash: nothing or a xorb

retryVars == <<call, offset, conn, stored>>

Xorb == [i \in 1 .. Blocks |-> i]
retryAttempts == Retries + 1
cur == Len(conn)

RetryInit ==
    /\ call = [pc |-> "do", live |-> TRUE]
    /\ offset = 0 /\ conn = <<>> /\ stored \in {<<>>, Xorb}

\* makeBody: the reader is rewound for the next attempt.
resetRequestBody == offset' = 0

\* The next attempt.  alone: no other sender has read since it began; late: ctx
\* had ended before.
Do ==
    /\ call.pc = "do"
    /\ IF conn = <<>> THEN UNCHANGED offset ELSE resetRequestBody
    /\ conn' = Append(conn, [got |-> <<>>, sending |-> TRUE, answer |-> "none", alone |-> TRUE, late |-> ~call.live])
    /\ call' = [call EXCEPT !.pc = "wait"]
    /\ UNCHANGED stored

\* A sender reads from the shared offset and puts what it read on its
\* connection; one that has sent its length reads on to see the end.
SendBlock(j) ==
    /\ conn[j].sending /\ offset < Blocks
    /\ offset' = offset + 1
    /\ conn' = [k \in DOMAIN conn |->
                  IF k = j /\ Len(conn[j].got) < Blocks THEN [conn[j] EXCEPT !.got = Append(@, offset + 1)]
                  ELSE IF k = cur /\ k # j THEN [conn[k] EXCEPT !.alone = FALSE]
                  ELSE conn[k]]
    /\ UNCHANGED <<call, stored>>

\* The sender finds the end of the reader; a body shorter than the announced
\* length breaks the connection.
SendEnd(j) ==
    /\ conn[j].sending /\ offset = Blocks
    /\ conn' = [conn EXCEPT ![j].sending = FALSE,
                            ![j].answer = IF @ = "none" /\ Len(conn[j].got) < Blocks THEN "cut" ELSE @]
    /\ UNCHANGED <<call, offset, stored>>

\* The sender notices that its request is over.
SendStop(j) ==
    /\ conn[j].sending /\ conn[j].answer # "none"
    /\ conn' = [conn EXCEPT ![j].sending = FALSE]
    /\ UNCHANGED <<call, offset, stored>>

\* The handler of attempt j answers, also for a client that is gone.
Respond(j, status) == conn' = [conn EXCEPT ![j].answer = IF @ = "cut" THEN "served" ELSE status]

\* PutXorb finds the hash stored and reads nothing of the body.
AlreadyStored(j) ==
    /\ conn[j].answer \in {"none", "cut"} /\ stored # <<>>
    /\ Respond(j, "200")
    /\ UNCHANGED <<call, offset, stored>>

\* PutXorb recomputes the hash of what it received.
Matches(got) == got = Xorb

\* handleUploadXorb of a xorb that PutXorb did not find, once the announced
\* length arrived; another attempt may have stored it meanwhile.  What does not
\* match its hash is a server error, like a failing store.
Serve(j) ==
    /\ Len(conn[j].got) = Blocks /\ conn[j].answer \in {"none", "cut"}
    /\ \/ Matches(conn[j].got) /\ stored' = conn[j].got /\ Respond(j, "200")
       \/ ~Matches(conn[j].got) /\ UNCHANGED stored /\ Respond(j, "500")
    /\ UNCHANGED <<call, offset>>

\* The connection breaks, with the handler still at work or its answer lost.
Upset(j) ==
    /\ conn[j].answer \notin {"cut", "served"}
    /\ conn' = [conn EXCEPT ![j].answer = IF @ = "none" THEN "cut" ELSE "served"]
    /\ UNCHANGED <<call, offset, stored>>

Refuse(j) ==
    /\ conn[j].answer \in {"none", "cut"}
    /\ \E status \in {"500", "403"} : Respond(j, status)
    /\ UNCHANGED <<call, offset, stored>>

\* Defect: a lost answer is a success.
OutcomeBlind ==
    CASE conn[cur].answer \in {"200", "served"} -> "ok"
      [] conn[cur].answer = "cut" -> "ok"
      [] OTHER -> "error"

\* doWithNetworkRetry's verdict on the answer of the last attempt: server
\* errors and network errors are tried again while attempts and ctx last.
Outcome ==
    CASE conn[cur].answer = "200" -> "ok"
      [] conn[cur].answer = "403" -> "error"
      [] OTHER -> IF call.live /\ cur < retryAttempts THEN "do" ELSE "error"

\* The answer may come before the body was sent; a 200 may break off inside its
\* own body.
Receive ==
    /\ call.pc = "wait" /\ conn[cur].answer # "none"
    /\ \/ call' = [call EXCEPT !.pc = Outcome]
       \/ Outcome = "ok" /\ call' = [call EXCEPT !.pc = "error"]
    /\ UNCHANGED <<offset, conn, stored>>

\* A request whose context ended fails.
Abort ==
    /\ call.pc = "wait" /\ ~call.live /\ conn[cur].answer = "none"
    /\ conn' = [conn EXCEPT ![cur].answer = "cut"]
    /\ UNCHANGED <<call, offset, stored>>

RetryCancel ==
    /\ call.live /\ call.pc \in {"do", "wait"}
    /\ call' = [call EXCEPT !.live = FALSE]
    /\ UNCHANGED <<offset, conn, stored>>

RetryNext ==
    \/ Do \/ Receive \/ Abort \/ RetryCancel
    \/ \E j \in DOMAIN conn :
          \/ SendBlock(j) \/ SendEnd(j) \/ SendStop(j)
          \/ AlreadyStored(j) \/ Serve(j) \/ Upset(j) \/ Refuse(j)

-----------------------------------------------------------------------------
\* Whatever blocks a leftover sender took, the server stores nothing or the
\* xorb its hash names.
StoredSound == stored \in {<<>>, Xorb}

\* UploadXorb succeeds only if the server stores the xorb, also when the answer
\* it returns came before the body, from a server that found the xorb stored by
\* an attempt whose own answer was lost.
SuccessStored == call.pc = "ok" => stored = Xorb

\* An attempt no leftover sender disturbed sends the xorb from its start.
RewoundForRetry == conn # <<>> /\ conn[cur].alone => conn[cur].got = SubSeq(Xorb, 1, Len(conn[cur].got))

\* A call whose context ended starts at most the one attempt it had decided on.
OneLateAttempt == \A j, k \in DOMAIN conn : conn[j].late /\ conn[k].late => j = k

\* An upload of a xorb through retries over one reader: the server stores the
\* xorb or nothing, success means stored, each attempt starts over, and an
\* ended context ends the attempts.
XorbUploadSound == StoredSound /\ SuccessStored /\ RewoundForRetry /\ OneLateAttempt
=============================================================================
