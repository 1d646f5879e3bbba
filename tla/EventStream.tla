---------------------------- MODULE EventStream ----------------------------
(***************************************************************************)
(* Event streaming over Redis pub/sub (services/events.py): EventEmitter   *)
(* publishes the events of a run, EventStream.subscribe follows one run    *)
(* and subscribe_broadcast the system channel.  Pub/sub keeps nothing: a   *)
(* message reaches the subscriptions that exist when it is published, in   *)
(* order, and a connection that is lost takes its pending messages along.  *)
(*                                                                         *)
(* Emitters and streams of a process share one pool of connections, which  *)
(* refuses a caller when all are taken.  The emitter is called by the      *)
(* orchestrator of the run, which announces steps and completion; an       *)
(* exception of the emitter leaves execute_run, as none of the calls is    *)
(* inside a try block.  A heartbeat changes nothing and is left out.       *)
(***************************************************************************)
EXTENDS Integers, Sequences, FiniteSets

CONSTANTS Followers,  \* streams of the run (subscribe, collect)
          Listeners,  \* streams of the system channel (subscribe_broadcast)
          PoolSize,   \* max_connections of the pool
          MaxEvents,  \* bound on the events of a channel
          MaxOpens,   \* bound on the streams a slot opens
          MaxFaults   \* bound on lost connections

PoolAssumption == PoolSize \in Nat \ {0} /\ Followers \cap Listeners = {}

VARIABLES run,        \* the run: running, completed, failed, abandoned
          published,  \* the events of each channel
          stream,     \* the streams
          taken,      \* connections of the pool in use
          opens,      \* how often each slot opened a stream
          faults

vars == <<run, published, stream, taken, opens, faults>>

Streams == Followers \cup Listeners
Channels == {"run", "system"}
Channel(s) == IF s \in Followers THEN "run" ELSE "system"
Terminal == {"run_completed", "run_failed", "run_cancelled"}
Kinds == Terminal \cup {"step"}

Last(ch) == Len(published[ch])

(* told: the connected frame was yielded, with "from" events published by  *)
(* then; live: Redis has the subscription, which starts after event        *)
(* "first"; pos: the last message taken from it; sent: the frames yielded. *)
Closed == [pc |-> "closed", conn |-> FALSE, told |-> FALSE, from |-> 0,
           live |-> FALSE, first |-> 0, pos |-> 0, sent |-> <<>>, gap |-> FALSE]

Init ==
    /\ run = "running"
    /\ published = [ch \in Channels |-> <<>>]
    /\ stream = [s \in Streams |-> Closed]
    /\ taken = 0
    /\ opens = [s \in Streams |-> 0]
    /\ faults = 0

---------------------------------------------------------------------------
(* The emitter *)

Publish(ch, kind) ==
    /\ taken < PoolSize /\ Last(ch) < MaxEvents
    /\ published' = [published EXCEPT ![ch] = Append(@, kind)]

EmitStep ==
    /\ run = "running"
    /\ Publish("run", "step")
    /\ UNCHANGED <<run, stream, taken, opens, faults>>

(* The run is stored as completed and then announced.                      *)
EmitCompleted ==
    /\ run = "running"
    /\ Publish("run", "run_completed")
    /\ run' = "completed"
    /\ UNCHANGED <<stream, taken, opens, faults>>

(* _fail_run and cancel_run announce nothing.                              *)
EndSilently ==
    /\ run = "running"
    /\ run' = "failed"
    /\ UNCHANGED <<published, stream, taken, opens, faults>>

(* No connection is left: publish raises.                                  *)
EmitRefused ==
    /\ run = "running" /\ taken >= PoolSize
    /\ run' = "abandoned"
    /\ UNCHANGED <<published, stream, taken, opens, faults>>

Broadcast ==
    /\ Publish("system", "step")
    /\ UNCHANGED <<run, stream, taken, opens, faults>>

---------------------------------------------------------------------------
(* The streams *)

(* pubsub.subscribe takes a connection and sends the command.              *)
Subscribe(s) ==
    /\ stream[s].pc = "closed" /\ opens[s] < MaxOpens
    /\ taken < PoolSize
    /\ taken' = taken + 1
    /\ stream' = [stream EXCEPT ![s] = [Closed EXCEPT !.pc = "open", !.conn = TRUE]]
    /\ opens' = [opens EXCEPT ![s] = @ + 1]
    /\ UNCHANGED <<run, published, faults>>

(* No connection is left: the stream ends before its first frame.          *)
SubscribeRefused(s) ==
    /\ stream[s].pc = "closed" /\ opens[s] < MaxOpens
    /\ taken >= PoolSize
    /\ stream' = [stream EXCEPT ![s] = Closed]
    /\ opens' = [opens EXCEPT ![s] = @ + 1]
    /\ UNCHANGED <<run, published, taken, faults>>

(* The connected frame does not wait for the reply of Redis ...            *)
Connected(s) ==
    /\ stream[s].pc = "open" /\ ~stream[s].told
    /\ stream' = [stream EXCEPT ![s].told = TRUE, ![s].from = Last(Channel(s))]
    /\ UNCHANGED <<run, published, taken, opens, faults>>

(* ... which reads the command from the connection some time later.        *)
Subscribed(s) ==
    /\ stream[s].pc = "open" /\ ~stream[s].live
    /\ stream' = [stream EXCEPT ![s].live = TRUE, ![s].pos = Last(Channel(s)),
                                ![s].first = Last(Channel(s))]
    /\ UNCHANGED <<run, published, taken, opens, faults>>

(* Seeded fault: the heartbeat cuts off a read that has its message.       *)
ReceiveOrDrop(s) ==
    LET e == stream[s].pos + 1 IN
    /\ stream[s].pc = "open" /\ stream[s].told /\ stream[s].live
    /\ e <= Last(Channel(s))
    /\ \E keep \in BOOLEAN :
          stream' = [stream EXCEPT ![s].pos = e,
                       ![s].sent = IF keep THEN Append(@, e) ELSE @,
                       ![s].pc = IF s \in Followers /\ published["run"][e] \in Terminal
                                 THEN "closing" ELSE "open"]
    /\ UNCHANGED <<run, published, taken, opens, faults>>

(* The next message is yielded; a terminal one ends the stream of a run.   *)
Receive(s) ==
    LET e == stream[s].pos + 1
        ends == s \in Followers /\ published["run"][e] \in Terminal
    IN
    /\ stream[s].pc = "open" /\ stream[s].told /\ stream[s].live
    /\ e <= Last(Channel(s))
    /\ stream' = [stream EXCEPT ![s].pos = e, ![s].sent = Append(@, e),
                                ![s].pc = IF ends THEN "closing" ELSE "open"]
    /\ UNCHANGED <<run, published, taken, opens, faults>>

(* The client disconnects, or the timeout of collect expires.              *)
Leave(s) ==
    /\ stream[s].pc = "open"
    /\ stream' = [stream EXCEPT ![s].pc = "closing"]
    /\ UNCHANGED <<run, published, taken, opens, faults>>

(* The client library connects again and renews the subscription, without  *)
(* the messages in between.                                                *)
Reconnect(s) ==
    /\ stream[s].pc = "open" /\ stream[s].live /\ faults < MaxFaults
    /\ stream' = [stream EXCEPT ![s].pos = Last(Channel(s)), ![s].gap = TRUE]
    /\ faults' = faults + 1
    /\ UNCHANGED <<run, published, taken, opens>>

(* Redis stays away: the read raises and the stream ends.                  *)
Break(s) ==
    /\ stream[s].pc = "open" /\ faults < MaxFaults
    /\ stream' = [stream EXCEPT ![s].pc = "broken"]
    /\ faults' = faults + 1
    /\ UNCHANGED <<run, published, taken, opens>>

(* unsubscribe, then aclose.                                               *)
Cleanup(s) ==
    /\ stream[s].pc = "closing"
    /\ stream' = [stream EXCEPT ![s] = Closed]
    /\ taken' = taken - 1
    /\ UNCHANGED <<run, published, opens, faults>>

(* unsubscribe raises, and aclose is not reached.                          *)
CleanupFails(s) ==
    /\ stream[s].pc = "broken"
    /\ stream' = [stream EXCEPT ![s] = [Closed EXCEPT !.conn = TRUE]]
    /\ UNCHANGED <<run, published, taken, opens, faults>>

Emitter == EmitStep \/ EmitCompleted \/ EndSilently \/ EmitRefused \/ Broadcast

Step(s) == Subscribed(s) \/ Connected(s) \/ Receive(s) \/ Cleanup(s) \/ CleanupFails(s)

Next ==
    \/ Emitter
    \/ \E s \in Streams :
          \/ Subscribe(s) \/ SubscribeRefused(s) \/ Step(s)
          \/ Leave(s) \/ Reconnect(s) \/ Break(s)

Spec == Init /\ [][Next]_vars

(* The tasks of the streams and the connection to Redis go on.             *)
FairSpec == Spec /\ \A s \in Streams : WF_vars(Step(s))

---------------------------------------------------------------------------
(* Properties *)

(* Type invariant: the pool counts the connections of streams.             *)
TypeOK ==
    /\ run \in {"running", "completed", "failed", "abandoned"}
    /\ published \in [Channels -> Seq(Kinds)]
    /\ \A s \in Streams :
          /\ stream[s] \in [pc : {"closed", "open", "closing", "broken"},
                            conn : BOOLEAN, told : BOOLEAN, live : BOOLEAN,
                            gap : BOOLEAN, from : Nat, first : Nat,
                            pos : 0..Last(Channel(s)),
                            sent : Seq(1..Last(Channel(s)))]
          /\ stream[s].pc # "closed" => stream[s].conn
    /\ taken \in 0..PoolSize
    /\ taken >= Cardinality({s \in Streams : stream[s].conn})

(* A stream that was not reconnected yields every event published since    *)
(* its subscription, once and in the order they were published.            *)
FramesInOrder ==
    \A s \in Streams :
        stream[s].live /\ ~stream[s].gap =>
            /\ Len(stream[s].sent) = stream[s].pos - stream[s].first
            /\ \A i \in DOMAIN stream[s].sent : stream[s].sent[i] = stream[s].first + i

-----------------------------------------------------------------------------
(* What the code's comments and docs say and the code does not do.         *)

(* A stream that ended holds no connection, however it ended.              *)
EndedHoldsNothing == \A s \in Streams : stream[s].pc = "closed" => ~stream[s].conn

(* Once connected, a stream misses no event: what is published from then   *)
(* on is yielded or waits for it.                                          *)
ConnectedMissesNothing ==
    \A s \in Streams :
        stream[s].pc = "open" /\ stream[s].told /\ stream[s].live /\ ~stream[s].gap =>
            stream[s].first <= stream[s].from

(* A stream that follows a run until it ends does not outlive it.          *)
EndsWithRun ==
    \A s \in Followers : (stream[s].pc = "open" /\ run = "failed") ~> stream[s].pc = "closed"

=============================================================================
