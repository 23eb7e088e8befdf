-------------------------- MODULE InventoryClient --------------------------
(* Lesson 62, one RPC of its client: a unary GetProduct, a WatchStock, a      *)
(* BulkUpsert or a Reserve stream.  Messages go through flow-control windows, *)
(* the connection may break, the context may end, and the retry policy of the *)
(* connection starts the RPC again when nothing has come back.                *)
EXTENDS Integers, Sequences, SequencesExt

CONSTANTS
    Batch,      \* messages of BulkUpsert and Reserve (4)
    Events,     \* events of WatchStock (4)
    Window,     \* messages on their way in one direction before a send blocks
    MaxBreaks   \* bound: connections that break

\* What the constants have to be.
ClientAssumption == {Batch, Events, Window} \subseteq Nat \ {0} /\ MaxBreaks \in Nat

VARIABLES
    rpc,        \* what is called, and what ends its context
    attempt, breaks,
    up, uploaded, halfClosed,   \* to the server; messages of this attempt sent; CloseSend
    handler,    \* where the handler is, the message it is sending, its status
    served,     \* messages of this attempt it has received
    runs,       \* history: messages received in all attempts
    down, received,             \* to the client, and what it has read
    code        \* what the client is told

vars == <<rpc, attempt, breaks, up, uploaded, halfClosed, handler, served, runs, down, received, code>>

\* "empty" is the empty id.
Ids == {"p1", "nope", "empty", "slow", "boom"}
Rpcs ==
    [kind : {"GetProduct"}, id : Ids, token : BOOLEAN, ender : {"DeadlineExceeded", "Canceled"}]
    \cup [kind : {"WatchStock", "BulkUpsert", "Reserve"}, id : {"p1"}, token : {TRUE},
          ender : {"DeadlineExceeded"}]

Messages == IF rpc.kind \in {"BulkUpsert", "Reserve"} THEN Batch ELSE 1
Handler(at, out, status) == [at |-> at, out |-> out, status |-> status]

Init ==
    /\ rpc \in Rpcs
    /\ attempt = 1 /\ breaks = 0
    /\ up = <<>> /\ uploaded = 0 /\ halfClosed = FALSE
    /\ handler = Handler("none", <<>>, "none")
    /\ served = 0 /\ runs = 0 /\ down = <<>> /\ received = <<>> /\ code = "none"

client == <<rpc, attempt, breaks, uploaded, halfClosed, received, code>>
server == <<handler, served, runs>>

-----------------------------------------------------------------------------
(* The server *)

\* The interceptors: without the token nothing is handled.
Arrive ==
    /\ handler.at = "none" /\ code = "none"
    /\ handler' = IF rpc.token THEN Handler("running", <<>>, "none")
                  ELSE Handler("over", <<>>, "Unauthenticated")
    /\ UNCHANGED <<client, up, served, runs, down>>

Receives ==
    /\ handler.at = "running" /\ handler.out = <<>> /\ up # <<>>
    /\ up' = Tail(up) /\ served' = served + 1 /\ runs' = runs + 1

\* The product is there, the caller is wrong, or a panic is recovered.
GetProduct ==
    /\ rpc.kind = "GetProduct" /\ Receives
    /\ handler' = CASE rpc.id = "p1" -> Handler("closing", <<1>>, "none")
                    [] rpc.id = "slow" -> Handler("sleeping", <<>>, "none")
                    [] rpc.id = "nope" -> Handler("over", <<>>, "NotFound")
                    [] rpc.id = "empty" -> Handler("over", <<>>, "InvalidArgument")
                    [] rpc.id = "boom" -> Handler("over", <<>>, "Internal")
    /\ UNCHANGED <<client, down>>

\* After two seconds there is no product of that name.
WakeUp ==
    /\ handler.at = "sleeping" /\ handler' = Handler("over", <<>>, "NotFound")
    /\ UNCHANGED <<client, up, served, runs, down>>

WatchStock ==
    /\ rpc.kind = "WatchStock" /\ Receives
    /\ handler' = Handler("watching", <<1>>, "none")
    /\ UNCHANGED <<client, down>>

\* BulkUpsert counts, and answers with its summary when the client is done.
BulkUpsert ==
    /\ rpc.kind = "BulkUpsert" /\ UNCHANGED <<client, down>>
    /\ \/ Receives /\ UNCHANGED handler
       \/ /\ handler.at = "running" /\ up = <<>> /\ halfClosed
          /\ handler' = Handler("closing", <<served>>, "none")
          /\ UNCHANGED <<up, served, runs>>

\* Reserve answers each message, and ends when the client does.
Reserve ==
    /\ rpc.kind = "Reserve" /\ UNCHANGED <<client, down>>
    /\ \/ Receives /\ handler' = Handler("running", <<served + 1>>, "none")
       \/ /\ handler.at = "running" /\ handler.out = <<>> /\ up = <<>> /\ halfClosed
          /\ handler' = Handler("over", <<>>, "OK")
          /\ UNCHANGED <<up, served, runs>>

\* stream.Send waits for room; a watcher has its next event until the last.
Send ==
    /\ handler.out # <<>> /\ Len(down) < Window
    /\ down' = down \o handler.out
    /\ handler' =
        CASE handler.at = "running" -> Handler("running", <<>>, "none")
          [] handler.at = "watching" /\ handler.out[1] < Events ->
                Handler("watching", <<handler.out[1] + 1>>, "none")
          [] OTHER -> Handler("over", <<>>, "OK")
    /\ UNCHANGED <<client, up, served, runs>>

\* The deadline or the hang-up of the client reaches a handler that waits.
SeesContext ==
    /\ code # "none" /\ handler.at \notin {"none", "over"}
    /\ handler' = Handler("over", <<>>, code)
    /\ UNCHANGED <<client, up, served, runs, down>>

Serves ==
    Arrive \/ GetProduct \/ WakeUp \/ WatchStock \/ BulkUpsert \/ Reserve \/ Send \/ SeesContext

-----------------------------------------------------------------------------
(* The client *)

\* Neither a deadline nor an internal error is tried again.
Tries == 3
RetryableStatusCodes == {"Unavailable", "ResourceExhausted"}
Retries ==
    /\ code = "none" /\ handler.at = "over" /\ handler.status \in RetryableStatusCodes
    /\ attempt < Tries /\ received = <<>> /\ down = <<>>

\* The library starts again and sends what it has kept.
Retry ==
    /\ Retries
    /\ attempt' = attempt + 1
    /\ up' = <<>> /\ uploaded' = 0 /\ halfClosed' = FALSE
    /\ handler' = Handler("none", <<>>, "none") /\ served' = 0
    /\ UNCHANGED <<rpc, breaks, runs, down, received, code>>

SendRequest ==
    /\ code = "none" /\ uploaded < Messages /\ ~halfClosed
    /\ Len(up) < Window /\ handler.at # "over"
    /\ up' = Append(up, uploaded + 1) /\ uploaded' = uploaded + 1
    /\ UNCHANGED <<rpc, attempt, breaks, halfClosed, server, down, received, code>>

\* All is sent, or a send was told that the RPC is over.
CloseSend ==
    /\ code = "none" /\ ~halfClosed
    /\ uploaded = Messages \/ (handler.at = "over" /\ ~Retries)
    /\ halfClosed' = TRUE
    /\ UNCHANGED <<rpc, attempt, breaks, up, uploaded, server, down, received, code>>

\* demo9 reads in a goroutine of its own; the others read when they have sent.
Reads == code = "none" /\ (rpc.kind = "Reserve" \/ halfClosed)

Recv ==
    /\ Reads /\ down # <<>>
    /\ received' = Append(received, Head(down)) /\ down' = Tail(down)
    /\ UNCHANGED <<rpc, attempt, breaks, up, uploaded, halfClosed, server, code>>

\* The status comes after the last message; OK is io.EOF for a stream.
Status ==
    /\ Reads /\ down = <<>> /\ handler.at = "over" /\ ~Retries
    /\ code' = handler.status
    /\ UNCHANGED <<rpc, attempt, breaks, up, uploaded, halfClosed, server, down, received>>

\* The deadline of the call, or cancel in demo4.
ContextEnds ==
    /\ code = "none" /\ code' = rpc.ender
    /\ UNCHANGED <<rpc, attempt, breaks, up, uploaded, halfClosed, server, down, received>>

\* What has arrived can still be read.
Break ==
    /\ breaks < MaxBreaks /\ code = "none" /\ handler.at # "none"
    /\ breaks' = breaks + 1 /\ up' = <<>>
    /\ handler' = Handler("over", <<>>, "Unavailable")
    /\ \E n \in 0..Len(down) : down' = SubSeq(down, 1, n)
    /\ UNCHANGED <<rpc, attempt, uploaded, halfClosed, served, runs, received, code>>

Asks == Retry \/ SendRequest \/ CloseSend \/ Recv \/ Status

Next == Serves \/ Asks \/ ContextEnds \/ Break

\* Nobody has to break connections, and no deadline has to help.
Spec == Init /\ [][Next]_vars /\ WF_vars(Serves) /\ WF_vars(Asks)

-----------------------------------------------------------------------------
(* Properties *)

ClientTypeOK ==
    /\ rpc \in Rpcs /\ attempt \in 1..Tries /\ breaks \in 0..MaxBreaks
    /\ {Len(up), Len(down)} \subseteq 0..Window /\ Len(handler.out) <= 1
    /\ {uploaded, served} \subseteq 0..Messages /\ halfClosed \in BOOLEAN

Answers ==
    CASE rpc.kind = "GetProduct" -> <<1>>
      [] rpc.kind = "WatchStock" -> [i \in 1..Events |-> i]
      [] rpc.kind = "BulkUpsert" -> <<Batch>>
      [] rpc.kind = "Reserve" -> [i \in 1..Batch |-> i]

(***************************************************************************)
(* However often the connection breaks and the RPC is started again, the   *)
(* client reads every answer once and in order, and a call that ends well  *)
(* has read them all.  An error names its cause: a deadline, a cancelled   *)
(* context, a panic, a missing token or product (main.go:214 to 294).      *)
(***************************************************************************)
AnswersAreWhole ==
    /\ IsPrefix(received, Answers)
    /\ code = "OK" => received = Answers
    /\ CASE code = "Unauthenticated" -> ~rpc.token /\ runs = 0
         [] code = "NotFound" -> rpc.id \in {"nope", "slow"}
         [] code = "InvalidArgument" -> rpc.id = "empty"
         [] code = "Internal" -> rpc.id = "boom"
         [] code = "Unavailable" -> breaks > 0
         [] OTHER -> code \in {"none", "OK", rpc.ender}

(***************************************************************************)
(* The retry policy adds no work by itself: unless a connection broke, a   *)
(* message is handled once, a panic included (main.go:115).  With breaks   *)
(* it may be handled once more for each.                                   *)
(***************************************************************************)
RetriesAddNoWork == runs <= (breaks + 1) * Messages

(* The two directions never wait for each other: every call ends without   *)
(* its deadline, and so does its handler (main.go:370).                     *)
EveryCallEnds == <>[](code # "none" /\ handler.at \in {"none", "over"})
=============================================================================
