------------------------------ MODULE Gateway ------------------------------
(* Lesson 63's edge: the HTTP gateway that turns a request into one RPC, or, *)
(* for the dashboard, into two at once, and the gRPC servers behind it that  *)
(* drain when they are told to stop.  What the services do with a call is in *)
(* OrderService; here it answers with one of a few codes.                    *)
EXTENDS Naturals, FiniteSets

CONSTANTS Requests

VARIABLES
    kind,       \* "user", "order" (get or create) or "dashboard"
    at,         \* how far: "new", "calling", "answered"
    call,       \* the RPC of a request to a service: "none", "flying" or its code
    gone,       \* the client hung up or the handler's deadline passed: ctx's error
    cancelled,  \* the dashboard's group: its first error, {} for none
    answer,     \* what the client gets
    server      \* the gRPC servers

vars == <<kind, at, call, gone, cancelled, answer, server>>

Services == {"user", "order"}
Kinds == {"user", "order", "dashboard"}
OwnCodes == {"OK", "NotFound", "FailedPrecondition", "Internal"}
CtxCodes == {"Canceled", "DeadlineExceeded"}
Codes == OwnCodes \cup CtxCodes \cup {"Unavailable"}

httpStatus(code) ==
    CASE code = "OK" -> 200
      [] code = "NotFound" -> 404
      [] code = "FailedPrecondition" -> 422
      [] code = "Canceled" -> 499
      [] code = "Unavailable" -> 503
      [] code = "DeadlineExceeded" -> 504
      [] OTHER -> 500

Uses(r) == IF kind[r] = "dashboard" THEN Services ELSE {kind[r]}

Init ==
    /\ kind \in [Requests -> Kinds]
    /\ at = [r \in Requests |-> "new"]
    /\ call = [r \in Requests |-> [s \in Services |-> "none"]]
    /\ gone = [r \in Requests |-> {}] /\ cancelled = [r \in Requests |-> {}]
    /\ answer = [r \in Requests |-> {}]
    /\ server = [s \in Services |-> "serving"]

-----------------------------------------------------------------------------
(* The gateway *)

\* The handler makes its context, with a deadline, and its calls.  A server
\* that has stopped refuses them, one that is draining as well.
Arrive(r) ==
    /\ at[r] = "new" /\ at' = [at EXCEPT ![r] = "calling"]
    /\ call' = [call EXCEPT ![r] = [s \in Services |->
                    IF s \notin Uses(r) THEN "none"
                    ELSE IF server[s] \in {"stopping", "down"} THEN "Unavailable" ELSE "flying"]]
    /\ UNCHANGED <<kind, gone, cancelled, answer, server>>

Returns(r, s, code) == call' = [call EXCEPT ![r][s] = code]

\* The service answers.
Reply(r, s) ==
    /\ call[r][s] = "flying" /\ server[s] # "down"
    /\ \E code \in OwnCodes : Returns(r, s, code)
    /\ UNCHANGED <<kind, at, gone, cancelled, answer, server>>

\* The call's context is done: the client left, the 2 or 3 seconds are over,
\* or errgroup cancelled it because its sibling failed.
CutShort(r, s) ==
    /\ call[r][s] = "flying"
    /\ \/ \E code \in gone[r] : Returns(r, s, code)
       \/ cancelled[r] # {} /\ Returns(r, s, "Canceled")
    /\ UNCHANGED <<kind, at, gone, cancelled, answer, server>>

ContextEnds(r) ==
    /\ at[r] = "calling" /\ gone[r] = {}
    /\ \E code \in CtxCodes : gone' = [gone EXCEPT ![r] = {code}]
    /\ UNCHANGED <<kind, at, call, cancelled, answer, server>>

\* The goroutine of the user call returns its error to the group; that of the
\* orders swallows it.
UserFails(r) ==
    /\ kind[r] = "dashboard" /\ at[r] = "calling" /\ cancelled[r] = {}
    /\ call[r]["user"] \in Codes \ {"OK"}
    /\ cancelled' = [cancelled EXCEPT ![r] = {call[r]["user"]}]
    /\ UNCHANGED <<kind, at, call, gone, answer, server>>

\* The page shows the orders only when they came.
Answer(r) ==
    /\ at[r] = "calling" /\ \A s \in Uses(r) : call[r][s] \in Codes
    /\ kind[r] = "dashboard" /\ call[r]["user"] # "OK" => cancelled[r] # {}
    /\ LET code == IF kind[r] # "dashboard" THEN call[r][kind[r]]
                   ELSE IF cancelled[r] = {} THEN "OK" ELSE CHOOSE c \in cancelled[r] : TRUE
       IN answer' = [answer EXCEPT ![r] =
              {[status |-> httpStatus(code),
                orders |-> code = "OK" /\ call[r]["order"] = "OK"]}]
    /\ at' = [at EXCEPT ![r] = "answered"]
    /\ UNCHANGED <<kind, call, gone, cancelled, server>>

-----------------------------------------------------------------------------
(* Server.Run on its signal *)

ServerMoves(s, from, to) == server[s] = from /\ server' = [server EXCEPT ![s] = to]

\* Health goes to NOT_SERVING while the server still takes what comes.
Drain(s) ==
    /\ ServerMoves(s, "serving", "draining")
    /\ UNCHANGED <<kind, at, call, gone, cancelled, answer>>

\* 150 ms later GracefulStop refuses what is new...
StopAccepting(s) ==
    /\ ServerMoves(s, "draining", "stopping")
    /\ UNCHANGED <<kind, at, call, gone, cancelled, answer>>

\* ...and returns once nothing is in flight; after 10 s Stop cuts off the rest.
Stopped(s) ==
    /\ ServerMoves(s, "stopping", "down")
    /\ \/ (\A r \in Requests : call[r][s] # "flying") /\ UNCHANGED call
       \/ call' = [r \in Requests |-> IF call[r][s] = "flying"
                       THEN [call[r] EXCEPT ![s] = "Unavailable"] ELSE call[r]]
    /\ UNCHANGED <<kind, at, gone, cancelled, answer>>

Handle(r) == ContextEnds(r) \/ UserFails(r) \/ Answer(r) \/ \E s \in Services : CutShort(r, s)
Stops(s) == StopAccepting(s) \/ Stopped(s)

Next ==
    \/ \E r \in Requests : Arrive(r) \/ Handle(r) \/ \E s \in Services : Reply(r, s)
    \/ \E s \in Services : Drain(s) \/ Stops(s)

\* Services may hang: only the deadline is sure to come.
Spec ==
    /\ Init /\ [][Next]_vars
    /\ \A r \in Requests : WF_vars(Handle(r))
    /\ \A s \in Services : WF_vars(Stops(s))

-----------------------------------------------------------------------------
(* Properties *)

GatewayTypeOK ==
    /\ kind \in [Requests -> Kinds] /\ at \in [Requests -> {"new", "calling", "answered"}]
    /\ call \in [Requests -> [Services -> Codes \cup {"none", "flying"}]]
    /\ \A r \in Requests : Cardinality(gone[r]) <= 1 /\ Cardinality(answer[r]) <= 1
    /\ server \in [Services -> {"serving", "draining", "stopping", "down"}]

(***************************************************************************)
(* The dashboard's policy (gateway.go:280): what went wrong with the user  *)
(* decides the status, and never the cancellation it caused; what went     *)
(* wrong with the orders costs only the orders.                            *)
(***************************************************************************)
UserDecides ==
    \A r \in Requests : kind[r] = "dashboard" => \A a \in answer[r] :
        /\ a.status = httpStatus(call[r]["user"])
        /\ a.orders => call[r]["order"] = "OK"
        /\ a.status = 499 => gone[r] = {"Canceled"}

(***************************************************************************)
(* A request that arrived is answered, although a service may never reply  *)
(* and a server may stop under it.                                         *)
(***************************************************************************)
EveryGatewayAnswers == \A r \in Requests : at[r] = "calling" ~> at[r] = "answered"
=============================================================================
