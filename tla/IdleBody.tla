------------------------------ MODULE IdleBody ------------------------------
(***************************************************************************)
(* The read-idle guard of GET requests: a timer runs during the wait for   *)
(* the headers and during every read of the body; when it fires it cancels *)
(* the request's own context.  The callback races the read it watches.     *)
(***************************************************************************)
EXTENDS Integers, Sequences

CONSTANT BodyLen   \* reads the body is long

ASSUME IdleAssumption == BodyLen \in Nat

VARIABLES
    idle,    \* [pc, timer, parent, child, err]: the guarded response
    base,    \* what the inner call returned to RoundTrip or Read, or "none"
    given,   \* reads of the body the server sent and the transport holds or passed on
    taken,   \* reads the caller got
    saw      \* what the caller's calls returned, in order

idleVars == <<idle, base, given, taken, saw>>

IdleInit ==
    /\ idle = [pc |-> "new", timer |-> "off", parent |-> TRUE, child |-> TRUE, err |-> "none"]
    /\ base = "none" /\ given = 0 /\ taken = 0 /\ saw = <<>>

arm(pc) == "armed"

RoundTrip ==
    /\ idle.pc = "new"
    /\ idle' = [idle EXCEPT !.pc = "headers", !.timer = arm("headers")]
    /\ UNCHANGED <<base, given, taken, saw>>

\* time.AfterFunc's callback: cancel, then close(done).
Fire ==
    /\ idle.timer = "armed"
    /\ idle' = [idle EXCEPT !.timer = "firing", !.child = FALSE]
    /\ UNCHANGED <<base, given, taken, saw>>

Fired ==
    /\ idle.timer = "firing"
    /\ idle' = [idle EXCEPT !.timer = "fired"]
    /\ UNCHANGED <<base, given, taken, saw>>

\* The server sends; it may go silent at any point.
Serve2 ==
    /\ idle.pc \in {"headers", "open", "read"} /\ given < BodyLen /\ idle.child /\ idle.parent
    /\ given' = given + 1
    /\ UNCHANGED <<idle, base, taken, saw>>

\* The inner call returns: with what is there, though its context may just have
\* ended, or with the error of a connection that broke.
BaseReturns ==
    /\ idle.pc \in {"headers", "read"} /\ base = "none"
    /\ base' \in {"failed"} \cup IF idle.pc = "headers" THEN {"headers"}
                                ELSE IF taken < given THEN {"data"}
                                ELSE IF taken = BodyLen THEN {"EOF"} ELSE {}
    /\ UNCHANGED <<idle, given, taken, saw>>

\* ... or with the error of its ended context.
BaseCancelled ==
    /\ idle.pc \in {"headers", "read"} /\ base = "none" /\ ~(idle.child /\ idle.parent)
    /\ base' = "failed"
    /\ UNCHANGED <<idle, given, taken, saw>>

\* disarm: Stop fails once the callback has begun, and then waits for it.
Disarmable == base # "none" /\ idle.timer # "firing"
Won == idle.timer = "fired"

\* wrap: the outcome of a deadline that won, unless the caller's context ended.
wrap == IF Won /\ idle.parent THEN "timeout" ELSE base

HeadersReturn ==
    /\ idle.pc = "headers" /\ Disarmable
    /\ idle' = [idle EXCEPT !.timer = "off", !.pc = IF wrap = "headers" THEN "open" ELSE "closed",
                            !.child = @ /\ wrap = "headers"]
    /\ saw' = Append(saw, wrap) /\ base' = "none"
    /\ UNCHANGED <<given, taken>>

\* The caller reads; the error of a deadline that won is sticky.
Read ==
    /\ idle.pc = "open"
    /\ IF idle.err # "none"
       THEN saw' = Append(saw, idle.err) /\ idle' = [idle EXCEPT !.pc = "end"]
       ELSE idle' = [idle EXCEPT !.pc = "read", !.timer = arm("read")] /\ UNCHANGED saw
    /\ UNCHANGED <<base, given, taken>>

Sticky(out) == IF Won /\ out # "data" THEN out ELSE "none"

\* Data that came with the timeout is returned along with its error.
ReadReturn ==
    /\ idle.pc = "read" /\ Disarmable
    /\ LET out == IF base = "EOF" THEN "EOF" ELSE wrap
       IN /\ saw' = Append(saw, out)
          /\ taken' = IF base = "data" THEN taken + 1 ELSE taken
          /\ idle' = [idle EXCEPT !.timer = "off", !.pc = IF out \in {"EOF", "failed"} THEN "end" ELSE "open",
                                  !.err = Sticky(out), !.child = @ /\ ~Won /\ base \notin {"EOF", "failed"}]
    /\ base' = "none"
    /\ UNCHANGED given

closed == [idle EXCEPT !.pc = "closed", !.child = FALSE]

\* The caller closes the body, having read it or not.
CloseIdle ==
    /\ idle.pc \in {"open", "end"}
    /\ idle' = closed
    /\ UNCHANGED <<base, given, taken, saw>>

ParentCancel ==
    /\ idle.parent /\ idle.pc \notin {"new", "closed"}
    /\ idle' = [idle EXCEPT !.parent = FALSE]
    /\ UNCHANGED <<base, given, taken, saw>>

IdleStep == RoundTrip \/ Fire \/ Fired \/ BaseCancelled \/ HeadersReturn \/ Read \/ ReadReturn
IdleNext == IdleStep \/ Serve2 \/ BaseReturns \/ CloseIdle \/ ParentCancel

-----------------------------------------------------------------------------
\* Once a read lost against the deadline, every later read fails the same way.
TimeoutSticky ==
    \A k \in DOMAIN saw : saw[k] = "timeout" => \A m \in k .. Len(saw) : saw[m] = "timeout"

\* A closed response holds neither a context nor a running timer.
ContextReleased == idle.pc = "closed" => ~idle.child /\ idle.timer = "off"

\* A call on a server gone silent returns.
IdleReturns == idle.pc \in {"headers", "read"} ~> idle.pc \notin {"headers", "read"}
=============================================================================
