----------------------------- MODULE Middleware -----------------------------
(* The layers around the handlers of four programs: the HTTP middleware of   *)
(* lesson 39 and of the capstone, the gRPC interceptors of lesson 62, and    *)
(* the gin middleware and interceptors of lesson 63, whose gateway calls     *)
(* services that call services.  A call goes inwards through its layers and  *)
(* outwards through the same, returning or panicking.  Timeout runs what is  *)
(* inside it on a second goroutine, and both write to the client's answer.   *)
EXTENDS Naturals, Sequences

CONSTANTS Calls

VARIABLES
    system,     \* the program
    call,
    minted,     \* request ids the process has made: the counter
    alive       \* the process runs

vars == <<system, call, minted, alive>>

\* Mutant: the first draft of lesson 39, with Recover outside Timeout.
HttpChainRecoverOutside == <<"requestID", "logging", "recover", "timeout", "auth">>

\* The first layer is the outermost.
HttpChain == <<"requestID", "logging", "timeout", "recover", "auth">>
GrpcChain == <<"recover", "logging", "auth">>
GatewayChain == <<"requestID", "logging", "recover">>
UnaryServerChain == <<"recover", "requestID", "logging">>

\* A goroutine of a call: the layer it is in (0 is the server, one more than
\* there are layers is the handler) and what it is doing there.  To abort is to
\* panic with http.ErrAbortHandler.
Goroutines == [at : 0..6, way : {"none", "in", "record", "send", "wait",
                                 "out", "panic", "abort", "done"}]
Answers == {"none", "ok", "error", "unauthorized", "internal", "timeout", "dropped"}
CallStates == [g : [1..2 -> Goroutines], key : BOOLEAN, parent : SUBSET Calls,
               header : SUBSET Nat, id : SUBSET Nat, writing : [1..2 -> Answers],
               answer : Answers, recorded : Answers, log : Seq(Answers)]

Resting == [at |-> 0, way |-> "none"]
NewCall == [g |-> <<Resting, Resting>>, key |-> TRUE, parent |-> {}, header |-> {},
            id |-> {}, writing |-> <<"none", "none">>,
            answer |-> "none", recorded |-> "none", log |-> <<>>]

Init ==
    /\ system \in {"lesson39", "capstone", "lesson62", "lesson63"}
    /\ call = [c \in Calls |-> NewCall]
    /\ minted = 0 /\ alive = TRUE

Rpc(c) == system = "lesson62" \/ call[c].parent # {}

Chain(c) ==
    CASE system \in {"lesson39", "capstone"} -> HttpChain
      [] system = "lesson62" -> GrpcChain
      [] system = "lesson63" -> IF Rpc(c) THEN UnaryServerChain ELSE GatewayChain

Layer(c, k) ==
    LET at == call[c].g[k].at IN
    IF at = 0 THEN "server" ELSE IF at > Len(Chain(c)) THEN "handler" ELSE Chain(c)[at]

\* Goroutine k of the call is in this layer, on this way.
In(c, k, layer, way) == alive /\ Layer(c, k) = layer /\ call[c].g[k].way = way

Deeper(rec, k) == [rec EXCEPT !.g[k].at = @ + 1]
Back(rec, k, way) == [rec EXCEPT !.g[k] = [at |-> @.at - 1, way |-> way]]
Becomes(c, rec) == call' = [call EXCEPT ![c] = rec] /\ UNCHANGED system

-----------------------------------------------------------------------------
(* An answer is written *)

\* The programs with a Timeout: two goroutines share a response writer.
Shared == system \in {"lesson39", "capstone"}

\* Elsewhere one goroutine writes.  An HTTP status is sent and recorded when it
\* is first written; a gRPC status is what is returned.
Write(c, rec, status) ==
    IF Rpc(c) THEN [rec EXCEPT !.answer = status]
    ELSE [rec EXCEPT !.answer = IF @ = "none" THEN status ELSE @,
                     !.recorded = IF @ = "none" THEN status ELSE @]

\* WriteHeader for the first time reads the header map.
Cloning(c, k) == call[c].g[k].way = "send" /\ call[c].answer = "none"

\* A goroutine sets a header and enters the recorder, which in lesson 39 keeps
\* the last status and in the capstone one that it finds unset.  A map that is
\* written to while it is read may end the process (and so may two writes at
\* once, which is the same end).
StartWriting(c, k, status) ==
    LET recorder == IF system = "lesson39" \/ call[c].recorded = "none" THEN "record" ELSE "send" IN
    /\ Becomes(c, [call[c] EXCEPT !.g[k].way = recorder, !.writing[k] = status])
    /\ alive' \in IF Cloning(c, 3 - k) THEN BOOLEAN ELSE {TRUE}
    /\ UNCHANGED minted

Record(c, k) ==
    /\ alive /\ call[c].g[k].way = "record"
    /\ Becomes(c, [call[c] EXCEPT !.recorded = call[c].writing[k], !.g[k].way = "send"])
    /\ UNCHANGED <<minted, alive>>

\* The first status to come here is the client's.  The handler goes on after it.
Send(c, k) ==
    /\ alive /\ call[c].g[k].way = "send"
    /\ \E way \in IF Layer(c, k) = "handler" THEN {"out", "panic", "abort"} ELSE {"out"} :
        Becomes(c, Back([call[c] EXCEPT !.answer = IF @ = "none" THEN call[c].writing[k] ELSE @,
                                        !.writing[k] = "none"], k, way))
    /\ UNCHANGED <<minted, alive>>

\* What a layer does that answers in place of the next.
Answer(c, k, status) ==
    IF Shared THEN StartWriting(c, k, status)
    ELSE Becomes(c, Back(Write(c, call[c], status), k, "out")) /\ UNCHANGED <<minted, alive>>

-----------------------------------------------------------------------------
(* Inwards *)

\* A client calls, with the right key or not, with an id of its own or not.
Arrive(c) ==
    /\ alive /\ call[c].g[1].way = "none"
    /\ \E key \in BOOLEAN, header \in {{}, {0}} :
        Becomes(c, [call[c] EXCEPT !.g[1] = [at |-> 1, way |-> "in"], !.key = key, !.header = header])
    /\ UNCHANGED <<minted, alive>>

\* A handler of lesson 63 calls the next service: its id goes along.
ForwardRequestID(p, c) ==
    /\ system = "lesson63" /\ In(p, 1, "handler", "in")
    /\ c # p /\ call[c].g[1].way = "none"
    /\ Becomes(c, [call[c] EXCEPT !.g[1] = [at |-> 1, way |-> "in"],
                                  !.parent = {p}, !.header = call[p].id])
    /\ UNCHANGED <<minted, alive>>

RequestID(c, k) ==
    /\ In(c, k, "requestID", "in")
    /\ minted' = IF call[c].header = {} THEN minted + 1 ELSE minted
    /\ Becomes(c, Deeper([call[c] EXCEPT !.id = IF @ # {} THEN @
                            ELSE IF call[c].header = {} THEN {minted'} ELSE call[c].header], k))
    /\ UNCHANGED alive

\* Logging and Recover do their part on the way out.
Enter(c, k) ==
    /\ In(c, k, "logging", "in") \/ In(c, k, "recover", "in")
    /\ Becomes(c, Deeper(call[c], k))
    /\ UNCHANGED <<minted, alive>>

\* A wrong key is answered here, and next is not called.
Auth(c, k) ==
    /\ In(c, k, "auth", "in")
    /\ IF call[c].key THEN Becomes(c, Deeper(call[c], k)) /\ UNCHANGED <<minted, alive>>
       ELSE Answer(c, k, "unauthorized")

Timeout(c) ==
    /\ In(c, 1, "timeout", "in")
    /\ Becomes(c, [call[c] EXCEPT !.g = <<[@[1] EXCEPT !.way = "wait"], [at |-> @[1].at + 1, way |-> "in"]>>])
    /\ UNCHANGED <<minted, alive>>

\* The handler returns or panics, having written or not: one that sees its
\* context end returns in silence.  A call it has made has returned before.  No
\* handler of these programs aborts, but the layers are written for one that does.
Handler(c, k) ==
    /\ In(c, k, "handler", "in")
    /\ \A d \in Calls : call[d].parent = {c} => call[d].g[1].way = "done"
    /\ \/ \E way \in IF Shared THEN {"out", "panic", "abort"} ELSE {"out", "panic"} :
            /\ Rpc(c) => way = "panic"
            /\ Becomes(c, Back(call[c], k, way)) /\ UNCHANGED <<minted, alive>>
       \/ \E status \in {"ok", "error"}, way \in {"out", "panic"} :
            /\ ~Shared
            /\ Becomes(c, Back(Write(c, call[c], status), k, way)) /\ UNCHANGED <<minted, alive>>
       \/ \E status \in {"ok", "error"} : Shared /\ StartWriting(c, k, status)

-----------------------------------------------------------------------------
(* Outwards *)

\* A layer that does nothing on the way out; none but Recover stops a panic.
Leave(c, k) ==
    /\ \/ \E layer \in {"auth", "requestID"}, way \in {"out", "panic", "abort"} : In(c, k, layer, way)
       \/ In(c, k, "recover", "out") \/ In(c, k, "logging", "panic")
    /\ Becomes(c, Back(call[c], k, call[c].g[k].way))
    /\ UNCHANGED <<minted, alive>>

\* An abort is panicked again, meant for net/http.
Recover(c, k) ==
    \/ In(c, k, "recover", "panic") /\ Answer(c, k, "internal")
    \/ /\ In(c, k, "recover", "abort")
       /\ Becomes(c, Back(call[c], k, "abort")) /\ UNCHANGED <<minted, alive>>

\* What Logging sees once next has returned; nothing written is a 200.
Seen(c) ==
    LET status == IF Rpc(c) THEN call[c].answer ELSE call[c].recorded IN
    IF status = "none" THEN "ok" ELSE status

Logging(c, k) ==
    /\ In(c, k, "logging", "out")
    /\ Becomes(c, Back([call[c] EXCEPT !.log = Append(@, Seen(c))], k, "out"))
    /\ UNCHANGED <<minted, alive>>

\* The inner goroutine ends and closes done; nobody recovers on it what comes
\* this far, and the process ends.
InnerEnds(c) ==
    \/ /\ In(c, 2, "timeout", "out")
       /\ Becomes(c, [call[c] EXCEPT !.g[2].way = "done"]) /\ UNCHANGED <<minted, alive>>
    \/ /\ In(c, 2, "timeout", "panic") \/ In(c, 2, "timeout", "abort")
       /\ alive' = FALSE /\ UNCHANGED <<system, call, minted>>

HandlerDone(c) ==
    /\ In(c, 1, "timeout", "wait") /\ call[c].g[2].way = "done"
    /\ Becomes(c, Back(call[c], 1, "out"))
    /\ UNCHANGED <<minted, alive>>

\* The deadline: 504 is written, and the handler goes on.
TimedOut(c) ==
    /\ In(c, 1, "timeout", "wait")
    /\ StartWriting(c, 1, "timeout")

\* net/http recovers what is left and drops the connection, gRPC does not.
Return(c) ==
    /\ In(c, 1, "server", "out") \/ In(c, 1, "server", "panic")
    /\ alive' = ~(Rpc(c) /\ call[c].g[1].way = "panic")
    /\ Becomes(c, [call[c] EXCEPT !.g[1].way = "done",
            !.answer = IF call[c].g[1].way = "panic" THEN "dropped"
                       ELSE IF @ = "none" THEN "ok" ELSE @])
    /\ UNCHANGED minted

Run(c, k) ==
    \/ RequestID(c, k) \/ Enter(c, k) \/ Auth(c, k) \/ Handler(c, k)
    \/ Leave(c, k) \/ Recover(c, k) \/ Logging(c, k) \/ Record(c, k) \/ Send(c, k)

Next ==
    \E c \in Calls :
        \/ Arrive(c) \/ Timeout(c) \/ InnerEnds(c) \/ HandlerDone(c) \/ TimedOut(c) \/ Return(c)
        \/ \E k \in 1..2 : Run(c, k)
        \/ \E p \in Calls : ForwardRequestID(p, c)

Spec == Init /\ [][Next]_vars

-----------------------------------------------------------------------------
(* Properties *)

MiddlewareTypeOK == call \in [Calls -> CallStates] /\ minted \in Nat /\ alive \in BOOLEAN

(***************************************************************************)
(* A handler that panics costs its own call an error and nothing else: no  *)
(* connection is dropped, whichever goroutine the handler is on, and the   *)
(* process lives (39 main.go:188, the warning about Timeout and Recover).  *)
(* Two things end it all the same: a panic that Recover itself lets go on  *)
(* Timeout's goroutine, where net/http is not to see it (39 main.go:152,   *)
(* 47 middleware.go:127), and the two goroutines at one header map.        *)
(***************************************************************************)
PanicsStayInside ==
    /\ \A c \in Calls : call[c].answer # "dropped"
    /\ alive \/ \E c \in Calls : \/ Layer(c, 2) = "timeout" /\ call[c].g[2].way = "abort"
                                \/ \A k \in 1..2 : call[c].g[k].way \in {"record", "send"}

(***************************************************************************)
(* A call that has returned has one log line, and it says what the client  *)
(* got.  Where two goroutines write it need not: one of the two statuses   *)
(* then is the timeout's, or, as lesson 39 keeps the last status and not   *)
(* the first, that of a panic after an answer.  The gRPC servers log       *)
(* nothing of a call that panicked, which passes their logging layer       *)
(* before it is recovered.                                                 *)
(***************************************************************************)
Late == CASE system = "lesson39" -> {"timeout", "internal"}
          [] system = "capstone" -> {"timeout"}
          [] system \in {"lesson62", "lesson63"} -> {}
LogTellsTheAnswer ==
    \A c \in Calls : call[c].g[1].way = "done" =>
        IF Rpc(c) /\ call[c].log = <<>> THEN call[c].answer = "internal"
        ELSE /\ Len(call[c].log) = 1
             /\ call[c].log[1] = call[c].answer \/ {call[c].log[1], call[c].answer} \cap Late # {}

(***************************************************************************)
(* One click has one id: a call made on behalf of another has its id, and  *)
(* ids that were not handed in are given out once.                         *)
(***************************************************************************)
OneIdPerClick ==
    \A c, d \in Calls :
        /\ call[c].id # {} /\ call[c].parent = {d} => call[c].id = call[d].id
        /\ call[c].parent \cup call[d].parent = {} /\ c # d /\ call[c].id = call[d].id
              => call[c].id \subseteq {0}
=============================================================================
