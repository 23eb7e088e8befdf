------------------------------ MODULE Channels ------------------------------
(* Channels as the lessons use them: a program is a sequence of goroutines,  *)
(* main first, and a goroutine the sequence of its channel operations.  The  *)
(* operations are those of the Go runtime; sleeping and printing between     *)
(* them is left out, so every order the scheduler and the clock can produce  *)
(* is there.  When main returns the program ends, whoever is still at work.  *)
EXTENDS Integers, Sequences, SequencesExt

VARIABLES
    lesson,
    line,       \* for each goroutine its next operation, 0 before it is started
    buffer,     \* for each channel what was sent and not received
    closed,     \* channels
    got,        \* for each goroutine what it received, in order
    crashed     \* a panic

vars == <<lesson, line, buffer, closed, got, crashed>>

Op(op, channels, with, other) == [op |-> op, on |-> channels, with |-> with, other |-> other]
Go(g) == Op("go", {}, g, "wait")
Send(c, value) == Op("send", {c}, value, "wait")
Receive(c) == Op("receive", {c}, 0, "wait")
Select(channels, other) == Op("receive", channels, 0, other)
RangeOver(c) == Op("range", {c}, 0, "wait")
Close(c) == Op("close", {c}, 0, "wait")
Cancel(c) == Op("cancel", {c}, 0, "wait")

-----------------------------------------------------------------------------
(* The programs *)

\* A greeting, a result, a buffer that is drained, a worker, a closed channel.
Lesson23 ==
    << <<Go(2), Receive("messages"), Go(3), Receive("results"),
         Send("buffered", 1), Send("buffered", 2), Send("buffered", 3), Close("buffered"),
         RangeOver("buffered"), Go(4)>>
       \o [i \in 1..5 |-> Send("jobs", i)]
       \o <<Close("jobs"), Receive("done"),
            Send("ch", 42), Close("ch"), Receive("ch"), Receive("ch")>>,
       <<Send("messages", 1)>>,
       <<Send("results", 5050)>>,
       <<RangeOver("jobs"), Send("done", 1)>> >>

\* Two results in any order, a slow one with a timeout, and one nobody sends.
Lesson24 ==
    << <<Go(2), Go(3), Select({"ch1", "ch2"}, "wait"), Select({"ch1", "ch2"}, "wait"),
         Go(4), Select({"slowChannel"}, "timeout"), Select({"nonBlocking"}, "default")>>,
       <<Send("ch1", 1)>>, <<Send("ch2", 2)>>, <<Send("slowChannel", 3)>> >>

\* doWork waits for its work or for the context: its deadline, a cancel from
\* another goroutine, and the deferred cancels close what may be closed.
doWork(ctx) == Select({ctx}, "timeout")
Lesson25 ==
    << <<Go(2), doWork("ctx1"), Go(3), doWork("ctx2"), Go(4), doWork("ctx3"),
         Cancel("ctx2"), Cancel("ctx1")>>,
       <<Cancel("ctx1")>>, <<Cancel("ctx2")>>, <<Cancel("ctx3")>> >>

Lesson49 == << <<Go(2), Receive("done")>>, <<Close("done")>> >>

\* The two repaired sends: into a buffer, and to a receiver that was started.
Lesson55 == << <<Send("ch", 1), Receive("ch"), Go(2), Send("ch2", 2)>>, <<Receive("ch2")>> >>

\* Nobody is ever ready on the nil channel.
Lesson66 ==
    << <<Send("ch", 1), Close("ch"), Receive("ch"), Receive("ch"), Select({"nilCh"}, "default")>> >>

Code ==
    CASE lesson = 23 -> Lesson23 [] lesson = 24 -> Lesson24 [] lesson = 25 -> Lesson25
      [] lesson = 49 -> Lesson49 [] lesson = 55 -> Lesson55 [] lesson = 66 -> Lesson66

Goroutines == DOMAIN Code
ChannelsUsed == UNION {op.on : op \in UNION {ToSet(Code[g]) : g \in Goroutines}}

Capacity(c) ==
    CASE c = "buffered" -> 3
      [] c = "jobs" -> 5
      [] c = "ch" -> IF lesson = 66 THEN 2 ELSE 1
      [] OTHER -> 0

-----------------------------------------------------------------------------
(* The runtime *)

Init ==
    /\ lesson \in {23, 24, 25, 49, 55, 66}
    /\ line = [g \in Goroutines |-> IF g = 1 THEN 1 ELSE 0]
    /\ buffer = [c \in ChannelsUsed |-> <<>>]
    /\ closed = {} /\ got = [g \in Goroutines |-> <<>>] /\ crashed = FALSE

Over(g) == line[g] > Len(Code[g])
At(g, ops) == line[g] \in DOMAIN Code[g] /\ Code[g][line[g]].op \in ops
Now(g) == Code[g][line[g]]
Steps(g) == [line EXCEPT ![g] = @ + 1]

Start(g) ==
    /\ At(g, {"go"})
    /\ line' = [Steps(g) EXCEPT ![Now(g).with] = 1]
    /\ UNCHANGED <<buffer, closed, got, crashed>>

SendBuffered(g) ==
    /\ At(g, {"send"})
    /\ \E c \in Now(g).on \ closed :
        /\ Len(buffer[c]) < Capacity(c)
        /\ buffer' = [buffer EXCEPT ![c] = Append(@, Now(g).with)]
    /\ line' = Steps(g) /\ UNCHANGED <<closed, got, crashed>>

Receives(g) == At(g, {"receive", "range"})

\* A range goes back for more; it ends when the channel is closed and empty.
Gets(g, value, lines) ==
    /\ got' = [got EXCEPT ![g] = Append(@, value)]
    /\ line' = [lines EXCEPT ![g] = IF At(g, {"range"}) THEN @ ELSE @ + 1]

\* Sender and receiver of an unbuffered channel meet.
Meet(g, h) ==
    /\ At(g, {"send"}) /\ Receives(h)
    /\ \E c \in (Now(g).on \cap Now(h).on) \ closed :
        Capacity(c) = 0 /\ Gets(h, Now(g).with, Steps(g))
    /\ UNCHANGED <<buffer, closed, crashed>>

ReceiveBuffered(g) ==
    /\ Receives(g)
    /\ \E c \in {c \in Now(g).on : buffer[c] # <<>>} :
        /\ Gets(g, Head(buffer[c]), line)
        /\ buffer' = [buffer EXCEPT ![c] = Tail(@)]
    /\ UNCHANGED <<closed, crashed>>

\* The zero value.
ReceiveClosed(g) ==
    /\ Receives(g)
    /\ \E c \in Now(g).on \cap closed : buffer[c] = <<>>
    /\ IF At(g, {"range"})
       THEN line' = Steps(g) /\ UNCHANGED got
       ELSE Gets(g, 0, line)
    /\ UNCHANGED <<buffer, closed, crashed>>

\* A timer may fire at any time, also when a channel is ready; default is
\* taken when none is.
Otherwise(g) ==
    /\ At(g, {"receive"})
    /\ \/ Now(g).other = "timeout"
       \/ /\ Now(g).other = "default"
          /\ \A c \in Now(g).on :
                /\ c \notin closed /\ buffer[c] = <<>>
                /\ \A h \in Goroutines : ~(At(h, {"send"}) /\ c \in Now(h).on)
    /\ Gets(g, -1, line)
    /\ UNCHANGED <<buffer, closed, crashed>>

\* Cancelling twice is allowed, closing twice and sending after it are not.
CloseChannel(g) ==
    /\ At(g, {"close", "cancel"})
    /\ line' = Steps(g)
    /\ closed' = closed \cup Now(g).on
    /\ crashed' = (crashed \/ (At(g, {"close"}) /\ Now(g).on \cap closed # {}))
    /\ UNCHANGED <<buffer, got>>

SendOnClosed(g) ==
    /\ At(g, {"send"}) /\ Now(g).on \cap closed # {}
    /\ crashed' = TRUE /\ UNCHANGED <<line, buffer, closed, got>>

Step(g) ==
    /\ ~Over(1) /\ ~crashed /\ UNCHANGED lesson
    /\ \/ Start(g) \/ SendBuffered(g) \/ ReceiveBuffered(g) \/ ReceiveClosed(g)
       \/ Otherwise(g) \/ CloseChannel(g) \/ SendOnClosed(g)
       \/ \E h \in Goroutines : Meet(g, h)

Next == \E g \in Goroutines : Step(g)

\* The scheduler runs whoever can run, and timers fire.
Spec == Init /\ [][Next]_vars /\ WF_vars(Next)

-----------------------------------------------------------------------------
(* Properties *)

ChannelsTypeOK ==
    /\ \A g \in Goroutines : line[g] \in 0..(Len(Code[g]) + 1) /\ got[g] \in Seq(Int)
    /\ \A c \in ChannelsUsed : Len(buffer[c]) <= Capacity(c)
    /\ closed \subseteq ChannelsUsed /\ crashed \in BOOLEAN

\* Both results in one order or the other, the slow one or a timeout, default.
BothThenMaybe == {r \o <<s, -1>> : r \in {<<1, 2>>, <<2, 1>>}, s \in {3, -1}}

(***************************************************************************)
(* Whatever the scheduler does, nothing panics, and at the end main has    *)
(* received what the comments say: every value once and in order, both     *)
(* results of a select in one order or the other, zero from a closed       *)
(* channel, and the worker has had every job before main is told it is     *)
(* done (23 main.go:91, 24 main.go:45, 66 main.go:433).                    *)
(***************************************************************************)
ReceivedInOrder ==
    /\ ~crashed
    /\ Over(1) =>
        CASE lesson = 23 -> /\ got[1] = <<1, 5050, 1, 2, 3, 1, 42, 0>>
                            /\ got[4] = <<1, 2, 3, 4, 5>>
          [] lesson = 24 -> got[1] \in BothThenMaybe
          [] lesson = 25 -> {"ctx1", "ctx2"} \subseteq closed
          [] lesson = 49 -> got[1] = <<0>>
          [] lesson = 55 -> got[1] = <<1>> /\ got[2] = <<2>>
          [] lesson = 66 -> got[1] = <<1, 0, -1>>

(***************************************************************************)
(* main returns, and then nobody is left waiting but the slow sender that  *)
(* main gave up (24 main.go:59); goroutines of lesson 25 are not waited    *)
(* for.                                                                    *)
(***************************************************************************)
NobodyIsLeft ==
    <>(Over(1) /\ \A g \in Goroutines \ {1} :
        \/ Over(g) \/ lesson = 25
        \/ lesson = 24 /\ g = 4 /\ got[1][3] = -1)
=============================================================================
