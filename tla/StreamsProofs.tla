--------------------------- MODULE StreamsProofs ----------------------------
(***************************************************************************)
(* Proofs about what a user sees of a run in MCStreams: the event service, *)
(* the data hook of the web pages and the polling SSE route, each for      *)
(* every value of its constants.                                           *)
(***************************************************************************)
EXTENDS MCStreams, Sequences, FiniteSetTheorems, TLAPS

-----------------------------------------------------------------------------
(* The parts of MCStreams share no state, so a behaviour of it is one of   *)
(* each of them.                                                           *)
THEOREM StreamsAreParts ==
    StreamsSpec => Route!Spec /\ Service!Spec /\ Hook!Spec
<1>1. StreamsInit => Route!Init /\ Service!Init /\ Hook!Init
  BY DEF StreamsInit
<1> DEFINE all == <<part, routeVars, eventVars, hookVars>>
<1>2. [StreamsNext]_all => [Route!Next]_(Route!vars)
  BY DEF StreamsNext, RouteNext, ServiceNext, HookNext, routeVars, Route!vars
<1>3. [StreamsNext]_all => [Service!Next]_(Service!vars)
  BY DEF StreamsNext, RouteNext, ServiceNext, HookNext, eventVars, Service!vars
<1>4. [StreamsNext]_all => [Hook!Next]_(Hook!vars)
  BY DEF StreamsNext, RouteNext, ServiceNext, HookNext, hookVars, Hook!vars
<1> QED
  BY <1>1, <1>2, <1>3, <1>4, PTL
     DEF StreamsSpec, Route!Spec, Service!Spec, Hook!Spec

-----------------------------------------------------------------------------
(***************************************************************************)
(* Events over Redis.  A subscription starts at an event and takes the     *)
(* next one each time; it has sent as many frames as it has taken events,  *)
(* unless a new connection let some go by.                                 *)
(***************************************************************************)
StreamRecord ==
    [pc : {"closed", "open", "closing", "broken"}, conn : BOOLEAN,
     told : BOOLEAN, from : Nat, live : BOOLEAN, first : Nat, pos : Nat,
     sent : Seq(Nat), gap : BOOLEAN]

InStep(s) ==
    /\ ~stream[s].live => stream[s].sent = <<>> /\ ~stream[s].gap
    /\ stream[s].live /\ ~stream[s].gap =>
         /\ Len(stream[s].sent) = stream[s].pos - stream[s].first
         /\ \A i \in DOMAIN stream[s].sent :
              stream[s].sent[i] = stream[s].first + i

ServiceInv ==
    /\ published \in [Service!Channels -> Seq(Service!Kinds)]
    /\ stream \in [Service!Streams -> StreamRecord]
    /\ \A s \in Service!Streams : InStep(s)

(* Each channel has a last event.                                          *)
LEMMA LastIsNat ==
    ASSUME ServiceInv, NEW s \in Service!Streams
    PROVE  Service!Last(Service!Channel(s)) \in Nat
  BY DEF ServiceInv, Service!Last, Service!Channel, Service!Channels

(* The closed stream.                                                      *)
LEMMA ClosedIsRecord ==
    /\ Service!Closed \in StreamRecord
    /\ [Service!Closed EXCEPT !.pc = "open", !.conn = TRUE] \in StreamRecord
    /\ [Service!Closed EXCEPT !.conn = TRUE] \in StreamRecord
    /\ \A r \in {Service!Closed,
                 [Service!Closed EXCEPT !.pc = "open", !.conn = TRUE],
                 [Service!Closed EXCEPT !.conn = TRUE]} :
          ~r.live /\ r.sent = <<>> /\ ~r.gap
  <1>1. <<>> \in Seq(Nat)
    OBVIOUS
  <1>2. Service!Closed \in StreamRecord
    BY <1>1 DEF Service!Closed, StreamRecord
  <1>3. ~Service!Closed.live /\ Service!Closed.sent = <<>> /\ ~Service!Closed.gap
    BY DEF Service!Closed
  <1> QED
    BY <1>2, <1>3 DEF StreamRecord

(* One stream becomes r, and r is in step.                                 *)
LEMMA StreamBecomes ==
    ASSUME ServiceInv, published' = published, NEW s \in Service!Streams,
           NEW r \in StreamRecord, stream' = [stream EXCEPT ![s] = r],
           ~r.live => r.sent = <<>> /\ ~r.gap,
           r.live /\ ~r.gap =>
              /\ Len(r.sent) = r.pos - r.first
              /\ \A i \in DOMAIN r.sent : r.sent[i] = r.first + i
    PROVE  ServiceInv'
  BY DEF ServiceInv, InStep

(* Every step of the event service keeps its invariant.                    *)
LEMMA ServiceStep ==
    ASSUME ServiceInv, Service!Next
    PROVE  ServiceInv'
  <1>0. /\ published \in [Service!Channels -> Seq(Service!Kinds)]
        /\ stream \in [Service!Streams -> StreamRecord]
        /\ \A s \in Service!Streams : InStep(s)
    BY DEF ServiceInv
  <1>1. CASE Service!Emitter
    <2>1. stream' = stream
      BY <1>1 DEF Service!Emitter, Service!EmitStep, Service!EmitCompleted,
                  Service!EndSilently, Service!EmitRefused, Service!Broadcast
    <2>2. ASSUME NEW ch \in Service!Channels, NEW kind \in Service!Kinds,
                 Service!Publish(ch, kind)
          PROVE  published' \in [Service!Channels -> Seq(Service!Kinds)]
      BY <1>0, <2>2 DEF Service!Publish
    <2>3. published' \in [Service!Channels -> Seq(Service!Kinds)]
      BY <1>0, <1>1, <2>2
         DEF Service!Emitter, Service!EmitStep, Service!EmitCompleted,
             Service!EndSilently, Service!EmitRefused, Service!Broadcast,
             Service!Kinds, Service!Terminal, Service!Channels
    <2> QED
      BY <1>0, <2>1, <2>3 DEF ServiceInv, InStep
  <1>2. ASSUME NEW s \in Service!Streams,
               \/ Service!Subscribe(s) \/ Service!SubscribeRefused(s)
               \/ Service!Cleanup(s) \/ Service!CleanupFails(s)
        PROVE  ServiceInv'
    <2>1. PICK r \in StreamRecord :
             /\ stream' = [stream EXCEPT ![s] = r] /\ published' = published
             /\ ~r.live /\ r.sent = <<>> /\ ~r.gap
      <3> DEFINE opened == [Service!Closed EXCEPT !.pc = "open", !.conn = TRUE]
                 kept == [Service!Closed EXCEPT !.conn = TRUE]
      <3>1. \A r \in {Service!Closed, opened, kept} :
               r \in StreamRecord /\ ~r.live /\ r.sent = <<>> /\ ~r.gap
        BY ClosedIsRecord
      <3>2. published' = published /\
            \E r \in {Service!Closed, opened, kept} : stream' = [stream EXCEPT ![s] = r]
        BY <1>2 DEF Service!Subscribe, Service!SubscribeRefused, Service!Cleanup,
                    Service!CleanupFails
      <3> HIDE DEF opened, kept
      <3> QED
        BY <3>1, <3>2
    <2> QED
      BY <2>1, StreamBecomes
  <1>3. ASSUME NEW s \in Service!Streams,
               \/ Service!Connected(s) \/ Service!Subscribed(s) \/ Service!Leave(s)
               \/ Service!Reconnect(s) \/ Service!Break(s)
        PROVE  ServiceInv'
    <2>1. stream[s] \in StreamRecord /\ Service!Last(Service!Channel(s)) \in Nat
      BY <1>0, LastIsNat
    <2> DEFINE n == Service!Last(Service!Channel(s))
    <2>2. CASE Service!Connected(s)
      <3> DEFINE r == [stream[s] EXCEPT !.told = TRUE, !.from = n]
      <3>1. r \in StreamRecord /\ r.live = stream[s].live /\ r.sent = stream[s].sent
            /\ r.gap = stream[s].gap /\ r.pos = stream[s].pos /\ r.first = stream[s].first
        BY <2>1 DEF StreamRecord
      <3>2. stream' = [stream EXCEPT ![s] = r] /\ published' = published
        BY <1>0, <2>2 DEF Service!Connected
      <3> HIDE DEF r
      <3> QED
        BY <1>0, <3>1, <3>2, StreamBecomes DEF InStep
    <2>3. CASE Service!Subscribed(s)
      <3> DEFINE r == [stream[s] EXCEPT !.live = TRUE, !.pos = n, !.first = n]
      <3>1. r \in StreamRecord /\ r.live /\ r.sent = stream[s].sent
            /\ r.pos = n /\ r.first = n
        BY <2>1 DEF StreamRecord
      <3>2. stream' = [stream EXCEPT ![s] = r] /\ published' = published
        BY <1>0, <2>3 DEF Service!Subscribed
      <3>3. stream[s].sent = <<>>
        BY <1>0, <2>3 DEF Service!Subscribed, InStep
      <3> HIDE DEF r
      <3>4. Len(r.sent) = 0 /\ DOMAIN r.sent = {} /\ r.pos - r.first = 0
        BY <2>1, <3>1, <3>3
      <3> QED
        BY <3>1, <3>2, <3>4, StreamBecomes
    <2>4. CASE Service!Reconnect(s)
      <3> DEFINE r == [stream[s] EXCEPT !.pos = n, !.gap = TRUE]
      <3>1. r \in StreamRecord /\ r.live = stream[s].live /\ r.gap
        BY <2>1 DEF StreamRecord
      <3>2. stream' = [stream EXCEPT ![s] = r] /\ published' = published
            /\ stream[s].live
        BY <1>0, <2>4 DEF Service!Reconnect
      <3> HIDE DEF r
      <3> QED
        BY <3>1, <3>2, StreamBecomes
    <2>5. CASE Service!Leave(s) \/ Service!Break(s)
      <3>1. PICK pc \in {"closing", "broken"} :
               stream' = [stream EXCEPT ![s] = [stream[s] EXCEPT !.pc = pc]]
               /\ published' = published
        BY <1>0, <2>5 DEF Service!Leave, Service!Break
      <3> DEFINE r == [stream[s] EXCEPT !.pc = pc]
      <3>2. r \in StreamRecord /\ r.live = stream[s].live /\ r.sent = stream[s].sent
            /\ r.gap = stream[s].gap /\ r.pos = stream[s].pos /\ r.first = stream[s].first
        BY <2>1 DEF StreamRecord
      <3> HIDE DEF r
      <3>3. stream' = [stream EXCEPT ![s] = r] /\ published' = published
        BY <3>1 DEF r
      <3>4. InStep(s)
        BY <1>0
      <3>5. /\ ~r.live => r.sent = <<>> /\ ~r.gap
            /\ r.live /\ ~r.gap =>
                 /\ Len(r.sent) = r.pos - r.first
                 /\ \A i \in DOMAIN r.sent : r.sent[i] = r.first + i
        BY <3>2, <3>4 DEF InStep
      <3> QED
        BY <3>2, <3>3, <3>5, StreamBecomes
    <2> QED
      BY <1>3, <2>2, <2>3, <2>4, <2>5
  <1>4. ASSUME NEW s \in Service!Streams, Service!Receive(s)
        PROVE  ServiceInv'
    <2>1. stream[s] \in StreamRecord /\ stream[s].live
      BY <1>0, <1>4 DEF Service!Receive
    <2>2. PICK pos, sent : pos = stream[s].pos + 1 /\ sent = Append(stream[s].sent, pos)
      OBVIOUS
    <2>3. /\ stream[s].pos \in Nat /\ stream[s].first \in Nat
          /\ stream[s].sent \in Seq(Nat) /\ pos \in Nat /\ sent \in Seq(Nat)
      BY <2>1, <2>2 DEF StreamRecord
    <2>4. PICK pc \in {"closing", "open"} :
             /\ stream' = [stream EXCEPT ![s] = [stream[s] EXCEPT
                               !.pos = pos, !.sent = sent, !.pc = pc]]
             /\ published' = published
      BY <1>0, <1>4, <2>2 DEF Service!Receive
    <2> DEFINE r == [stream[s] EXCEPT !.pos = pos, !.sent = sent, !.pc = pc]
    <2>5. r \in StreamRecord /\ r.live /\ r.gap = stream[s].gap
          /\ r.first = stream[s].first /\ r.pos = pos /\ r.sent = sent
      BY <2>1, <2>3 DEF StreamRecord
    <2> HIDE DEF r
    <2>6. ~r.gap => /\ Len(r.sent) = r.pos - r.first
                    /\ \A i \in DOMAIN r.sent : r.sent[i] = r.first + i
      <3> SUFFICES ASSUME ~r.gap
                   PROVE  /\ Len(r.sent) = r.pos - r.first
                          /\ \A i \in DOMAIN r.sent : r.sent[i] = r.first + i
        OBVIOUS
      <3>1. /\ Len(stream[s].sent) = stream[s].pos - stream[s].first
            /\ \A i \in DOMAIN stream[s].sent :
                 stream[s].sent[i] = stream[s].first + i
        BY <1>0, <2>1, <2>5 DEF InStep
      <3>2. /\ Len(sent) = Len(stream[s].sent) + 1
            /\ sent[Len(sent)] = pos
            /\ \A i \in DOMAIN stream[s].sent : sent[i] = stream[s].sent[i]
            /\ DOMAIN sent = DOMAIN stream[s].sent \cup {Len(sent)}
        BY SMTT(30), <2>2, <2>3
      <3>3. Len(stream[s].sent) \in Nat
        BY <2>3
      <3>4. Len(sent) = pos - stream[s].first
        BY SMTT(30), <2>2, <2>3, <3>1, <3>2, <3>3
      <3>5. sent[Len(sent)] = stream[s].first + Len(sent)
        BY <2>2, <2>3, <3>2, <3>3, <3>4
      <3>6. \A i \in DOMAIN sent : sent[i] = stream[s].first + i
        BY <3>1, <3>2, <3>5
      <3> QED
        BY <2>5, <3>4, <3>6
    <2>7. stream' = [stream EXCEPT ![s] = r]
      BY <2>4 DEF r
    <2> QED
      BY <2>4, <2>5, <2>6, <2>7, StreamBecomes
  <1> QED
    BY <1>1, <1>2, <1>3, <1>4 DEF Service!Next, Service!Step

(* However streams open, end, break and open again, a stream that was not  *)
(* reconnected yields every event published since its subscription, once   *)
(* and in order, for every number of streams, events and connections.      *)
THEOREM FramesStayInOrder == StreamsSpec => []FramesInOrder
<1>1. Service!Init => ServiceInv
  <2> SUFFICES ASSUME Service!Init
               PROVE  ServiceInv
    OBVIOUS
  <2>1. <<>> \in Seq(Service!Kinds)
    OBVIOUS
  <2> QED
    BY <2>1, ClosedIsRecord DEF Service!Init, ServiceInv, InStep, Service!Closed
<1>2. ServiceInv /\ [Service!Next]_(Service!vars) => ServiceInv'
  <2>1. ServiceInv /\ UNCHANGED Service!vars => ServiceInv'
    BY DEF ServiceInv, InStep, Service!vars
  <2> QED
    BY <2>1, ServiceStep
<1>3. ServiceInv => FramesInOrder
  BY DEF ServiceInv, InStep, FramesInOrder, Service!FramesInOrder
<1> QED
  BY <1>1, <1>2, <1>3, StreamsAreParts, PTL DEF Service!Spec

-----------------------------------------------------------------------------
(***************************************************************************)
(* The data hook.  The newest request is for the parameters of the latest  *)
(* render and is served after the user's last question or write; when it   *)
(* was the last to end, the state is its answer.                           *)
(***************************************************************************)
RequestRecord ==
    [of : Params \cup {None}, phase : {"sent", "served", "answered", "failed"},
     version : Nat]

StateRecord ==
    [data : [of : Params \cup {None}, version : Nat], loading : BOOLEAN,
     error : BOOLEAN]

Newest == requests[Len(requests)]

(* The newest request will bring what the user may expect ...              *)
NewestBrings ==
    params # None =>
        /\ requests # <<>>
        /\ Newest.of = params
        /\ Newest.phase = "served" => Newest.version >= known

HookInv ==
    /\ params \in Params \cup {None}
    /\ requests \in Seq(RequestRecord)
    /\ state \in StateRecord
    /\ version \in Nat /\ known \in 0..version
    /\ last \in 0..Len(requests)
    /\ NewestBrings /\ Hook!NewestIsShown

(* A request is issued for the parameters of the latest render.            *)
LEMMA RequestIssued ==
    ASSUME HookInv, NEW p \in Params \cup {None}, params' = p, Hook!Fetch(p),
           version' \in Nat, known' \in 0..version', UNCHANGED last
    PROVE  HookInv'
  <1>1. CASE p = None
    <2>1. UNCHANGED <<state, requests>>
      BY <1>1 DEF Hook!Fetch
    <2> QED
      BY <1>1, <2>1 DEF HookInv, NewestBrings, Hook!NewestIsShown
  <1>2. CASE p # None
    <2> DEFINE r == [Hook!Issued EXCEPT !.of = p]
    <2>1. r \in RequestRecord /\ r.phase = "sent" /\ r.of = p
      BY DEF HookInv, Hook!Issued, RequestRecord
    <2>2. /\ requests' = Append(requests, r)
          /\ state' = [state EXCEPT !.loading = TRUE, !.error = FALSE]
      BY <1>2 DEF Hook!Fetch
    <2> HIDE DEF r
    <2>3. /\ requests' \in Seq(RequestRecord) /\ requests' # <<>>
          /\ Len(requests') = Len(requests) + 1 /\ Len(requests) \in Nat
          /\ requests'[Len(requests')] = r
      BY <2>1, <2>2 DEF HookInv
    <2>4. last' \in 0..Len(requests') /\ last' # Len(requests')
      BY <2>3 DEF HookInv
    <2>5. state' \in StateRecord
      BY <2>2 DEF HookInv, StateRecord
    <2>6. NewestBrings'
      BY <2>1, <2>3 DEF NewestBrings, Newest
    <2>7. Hook!NewestIsShown'
      BY <2>4 DEF Hook!NewestIsShown
    <2> QED
      BY <2>3, <2>4, <2>5, <2>6, <2>7 DEF HookInv
  <1> QED
    BY <1>1, <1>2

(* The server reads for a request, or the request ends: with its answer,   *)
(* or with an error that keeps the data.                                   *)
LEMMA RequestMoves ==
    ASSUME HookInv, NEW i \in DOMAIN requests, NEW r \in RequestRecord,
           requests' = [requests EXCEPT ![i] = r], r.of = requests[i].of,
           state' \in StateRecord, UNCHANGED <<params, version, known>>,
           \/ r.phase = "served" /\ r.version = version /\ UNCHANGED <<state, last>>
           \/ /\ r.phase \in {"answered", "failed"} /\ last' = i
              /\ \/ state'.error
                 \/ /\ requests[i].phase = "served"
                    /\ state'.data.of = requests[i].of
                    /\ state'.data.version = requests[i].version
    PROVE  HookInv'
  <1>1. /\ requests' \in Seq(RequestRecord) /\ Len(requests') = Len(requests)
        /\ DOMAIN requests = 1..Len(requests) /\ Len(requests) \in Nat
        /\ requests'[i] = r
        /\ \A j \in DOMAIN requests \ {i} : requests'[j] = requests[j]
    BY DEF HookInv
  <1>2. last' \in 0..Len(requests')
    BY <1>1 DEF HookInv
  <1>3. /\ params # None => requests # <<>> /\ Newest.of = params
        /\ params # None /\ Newest.phase = "served" => Newest.version >= known
        /\ version >= known
    BY DEF HookInv, NewestBrings
  <1>4. ASSUME params # None
        PROVE  Len(requests) \in DOMAIN requests /\ requests' # <<>>
    BY <1>1, <1>3, <1>4 DEF HookInv
  <1>5. ASSUME params # None
        PROVE  /\ Newest'.of = params
               /\ Newest'.phase = "served" => Newest'.version >= known
    <2>1. CASE i = Len(requests)
      <3>1. Newest' = r /\ Newest = requests[i]
        BY <1>1, <2>1 DEF Newest
      <3> QED
        BY <1>3, <1>5, <3>1
    <2>2. CASE i # Len(requests)
      <3>1. Newest' = Newest
        BY <1>1, <1>4, <1>5, <2>2 DEF Newest
      <3> QED
        BY <1>3, <1>5, <3>1
    <2> QED
      BY <2>1, <2>2
  <1>6. NewestBrings'
    BY <1>3, <1>4, <1>5 DEF NewestBrings
  <1>7. Hook!NewestIsShown'
    <2> SUFFICES ASSUME params # None, last' = Len(requests), ~state'.error
                 PROVE  state'.data.of = params /\ state'.data.version >= known
      BY <1>1 DEF Hook!NewestIsShown
    <2>1. CASE UNCHANGED <<state, last>>
      BY <2>1 DEF HookInv, Hook!NewestIsShown
    <2>2. CASE /\ last' = i /\ requests[i].phase = "served"
               /\ state'.data.of = requests[i].of
               /\ state'.data.version = requests[i].version
      <3>1. Newest = requests[i]
        BY <2>2 DEF Newest
      <3> QED
        BY <1>3, <2>2, <3>1
    <2> QED
      BY <2>1, <2>2
  <1> QED
    BY <1>1, <1>2, <1>6, <1>7 DEF HookInv

(* Every step of the hook keeps its invariant.                             *)
LEMMA HookStep ==
    ASSUME HookInv, Hook!Next
    PROVE  HookInv'
  <1>0. /\ params \in Params \cup {None} /\ requests \in Seq(RequestRecord)
        /\ state \in StateRecord /\ version \in Nat /\ known \in 0..version
    BY DEF HookInv
  <1>1. ASSUME NEW p \in Params \cup {None}, Hook!Render(p)
        PROVE  HookInv'
    <2>1. version' = version /\ known' = version /\ params' = p /\ Hook!Fetch(p)
          /\ UNCHANGED last
      BY <1>1 DEF Hook!Render
    <2> QED
      BY <1>0, <2>1, RequestIssued
  <1>2. CASE Hook!Refetch
    <2>1. /\ version' = version /\ known' = version /\ params' = params
          /\ Hook!Fetch(params) /\ UNCHANGED last
      BY <1>2 DEF Hook!Refetch
    <2> QED
      BY <1>0, <2>1, RequestIssued
  <1>3. CASE Hook!Posted
    <2>1. /\ version' = version + 1 /\ known' = version' /\ params' = params
          /\ Hook!Fetch(params) /\ UNCHANGED last
      BY <1>3 DEF Hook!Posted
    <2>2. version' \in Nat /\ known' \in 0..version'
      BY <1>0, <2>1
    <2> QED
      BY <1>0, <2>1, <2>2, RequestIssued
  <1>4. CASE Hook!Change \/ Hook!Post \/ Hook!PostFails
    <2>1. UNCHANGED <<params, state, requests, known, last>>
          /\ version' \in {version, version + 1}
      BY <1>4 DEF Hook!Change, Hook!Post, Hook!PostFails
    <2>2. version' \in Nat /\ known' \in 0..version'
      BY <1>0, <2>1
    <2> QED
      BY <2>1, <2>2 DEF HookInv, NewestBrings, Newest, Hook!NewestIsShown
  <1>5. ASSUME NEW i \in DOMAIN requests, Hook!Serve(i)
        PROVE  HookInv'
    <2> DEFINE r == [requests[i] EXCEPT !.phase = "served", !.version = version]
    <2>0. requests[i] \in RequestRecord
      BY <1>0
    <2>1. /\ r \in RequestRecord /\ r.phase = "served" /\ r.version = version
          /\ r.of = requests[i].of
      BY <1>0, <2>0 DEF RequestRecord
    <2>2. /\ requests' = [requests EXCEPT ![i] = r]
          /\ UNCHANGED <<params, version, known, state, last>>
      BY <1>5 DEF Hook!Serve
    <2> HIDE DEF r
    <2> QED
      BY <1>0, <2>1, <2>2, RequestMoves
  <1>6. ASSUME NEW i \in DOMAIN requests, NEW phase \in {"answered", "failed"},
               Hook!Ends(i, phase), state' \in StateRecord,
               \/ state'.error
               \/ /\ requests[i].phase = "served"
                  /\ state'.data.of = requests[i].of
                  /\ state'.data.version = requests[i].version
        PROVE  HookInv'
    <2> DEFINE r == [requests[i] EXCEPT !.phase = phase]
    <2>0. requests[i] \in RequestRecord
      BY <1>0
    <2>1. r \in RequestRecord /\ r.phase = phase /\ r.of = requests[i].of
      BY <1>0, <2>0 DEF RequestRecord
    <2>2. /\ requests' = [requests EXCEPT ![i] = r] /\ last' = i
          /\ UNCHANGED <<params, version, known>>
      BY <1>6 DEF Hook!Ends
    <2> HIDE DEF r
    <2> QED
      BY <1>6, <2>1, <2>2, RequestMoves
  <1>7. ASSUME NEW i \in DOMAIN requests, Hook!Answer(i)
        PROVE  HookInv'
    <2>0. requests[i] \in RequestRecord
      BY <1>0
    <2>1. /\ Hook!Ends(i, "answered") /\ requests[i].phase = "served"
          /\ state' = [data |-> [of |-> requests[i].of,
                                 version |-> requests[i].version],
                       loading |-> FALSE, error |-> FALSE]
      BY <1>7 DEF Hook!Answer
    <2>2. /\ state' \in StateRecord /\ state'.data.of = requests[i].of
          /\ state'.data.version = requests[i].version
      BY <2>0, <2>1 DEF StateRecord, RequestRecord
    <2> QED
      BY <1>6, <2>1, <2>2
  <1>8. ASSUME NEW i \in DOMAIN requests, Hook!Misfit(i) \/ Hook!Fail(i)
        PROVE  HookInv'
    <2>1. state' \in StateRecord /\ state'.error
      BY <1>0, <1>8 DEF Hook!Misfit, Hook!Fail, Hook!Caught, StateRecord
    <2>2. Hook!Ends(i, "answered") \/ Hook!Ends(i, "failed")
      BY <1>8 DEF Hook!Misfit, Hook!Fail
    <2> QED
      BY <1>6, <2>1, <2>2
  <1> QED
    BY <1>1, <1>2, <1>3, <1>4, <1>5, <1>7, <1>8 DEF Hook!Next

(* While no request has ended after the newest one, and that without an    *)
(* error, the page shows data of its parameters from no earlier than the   *)
(* user's last question or write, for every number of requests and         *)
(* changes, answered in whatever order and shape.                          *)
THEOREM NewestStaysShown == StreamsSpec => []NewestIsShown
<1>1. Hook!Init => HookInv
  <2> SUFFICES ASSUME Hook!Init
               PROVE  HookInv
    OBVIOUS
  <2>1. state \in StateRecord
    BY DEF Hook!Init, StateRecord, Hook!Nothing
  <2>2. CASE params = None
    BY <2>1, <2>2 DEF Hook!Init, HookInv, NewestBrings, Hook!NewestIsShown
  <2>3. CASE params # None
    <3> DEFINE r == Hook!Issued
    <3>1. r \in RequestRecord /\ r.phase = "sent" /\ r.of = params
      BY DEF Hook!Init, Hook!Issued, RequestRecord
    <3>2. requests = <<r>>
      BY <2>3 DEF Hook!Init
    <3> HIDE DEF r
    <3>3. requests \in Seq(RequestRecord) /\ Len(requests) = 1 /\ requests[1] = r
          /\ requests # <<>>
      BY <3>1, <3>2
    <3> QED
      BY <2>1, <3>1, <3>3
         DEF Hook!Init, HookInv, NewestBrings, Newest, Hook!NewestIsShown
  <2> QED
    BY <2>2, <2>3
<1>2. HookInv /\ [Hook!Next]_(Hook!vars) => HookInv'
  <2>1. HookInv /\ UNCHANGED Hook!vars => HookInv'
    BY DEF HookInv, NewestBrings, Newest, Hook!NewestIsShown, Hook!vars
  <2> QED
    BY <2>1, HookStep
<1>3. HookInv => NewestIsShown
  BY DEF HookInv, NewestIsShown
<1> QED
  BY <1>1, <1>2, <1>3, StreamsAreParts, PTL DEF Hook!Spec

-----------------------------------------------------------------------------
(***************************************************************************)
(* The SSE route.  A stream holds the connection of its request until it   *)
(* responds, or to its end where FastAPI keeps the session, and one of its *)
(* own while the client takes the frames, and takes either only if one is  *)
(* left.                                                                   *)
(***************************************************************************)
Asking == {c \in Clients : Route!HoldsRequest(c)}
Yielding == {c \in Clients : Route!HoldsPoll(c)}

ViewerRecord ==
    [pc : {"off", "asked", "poll", "yield", "sleep", "ended"},
     last : -1..MaxSteps, read : [status : Route!RunStatus \cup {Route!Nil},
                                  steps : 0..MaxSteps],
     seen : SUBSET (0..MaxSteps), end : {Route!Nil, "run.completed", "run.failed"}]

ViewerSound(s) ==
    s \in ViewerRecord /\ (s.pc = "yield" <=> s.read.status # Route!Nil)

RouteInv ==
    /\ row \in [status : Route!RunStatus, steps : 0..MaxSteps]
    /\ exec \in [on : BOOLEAN, done : 0..MaxSteps]
    /\ cancelling \in BOOLEAN /\ resumes \in 0..MaxResumes
    /\ DOMAIN viewer = Clients /\ viewer = [c \in Clients |-> viewer[c]]
    /\ \A c \in Clients : ViewerSound(viewer[c])
    /\ Route!Used <= RoutePool

(* A stream in the state s holds the connection of its request.            *)
Asks(s) == s.pc = "asked" \/ (KeepsSession /\ s.pc # "off")

(* Who holds a connection: those that asked, and those that yield.         *)
LEMMA Holders ==
    /\ Asking = {c \in Clients : Asks(viewer[c])}
    /\ Yielding = {c \in Clients : viewer[c].pc = "yield"}
    /\ IsFiniteSet(Asking) /\ IsFiniteSet(Yielding)
    /\ Route!Used = Cardinality(Asking) + Cardinality(Yielding)
    /\ Cardinality(Asking) \in Nat /\ Cardinality(Yielding) \in Nat
  <1>1. /\ Asking = {c \in Clients : Asks(viewer[c])}
        /\ Yielding = {c \in Clients : viewer[c].pc = "yield"}
    BY DEF Asking, Yielding, Asks, Route!HoldsRequest, Route!HoldsPoll
  <1>2. IsFiniteSet(Clients)
    BY StreamsAssumption
       DEF Route!StreamAssumption, Route!IsFiniteSet, IsFiniteSet
  <1>3. IsFiniteSet(Asking) /\ IsFiniteSet(Yielding)
    BY <1>2, FS_Subset DEF Asking, Yielding
  <1>4. \A S : Route!Cardinality(S) = Cardinality(S)
    BY DEF Route!Cardinality, Cardinality
  <1>5. Route!Used = Cardinality(Asking) + Cardinality(Yielding)
    BY <1>4 DEF Route!Used, Asking, Yielding
  <1> QED
    BY <1>1, <1>3, <1>5, FS_CardinalityType

(* And so in the next state.                                               *)
LEMMA HoldersAfter ==
    /\ Asking' = {c \in Clients : Asks(viewer'[c])}
    /\ Yielding' = {c \in Clients : viewer'[c].pc = "yield"}
    /\ IsFiniteSet(Asking') /\ IsFiniteSet(Yielding')
    /\ Route!Used' = Cardinality(Asking') + Cardinality(Yielding')
    /\ Cardinality(Asking') \in Nat /\ Cardinality(Yielding') \in Nat
  <1> DEFINE fact ==
        /\ Asking = {c \in Clients : Asks(viewer[c])}
        /\ Yielding = {c \in Clients : viewer[c].pc = "yield"}
        /\ IsFiniteSet(Asking) /\ IsFiniteSet(Yielding)
        /\ Route!Used = Cardinality(Asking) + Cardinality(Yielding)
        /\ Cardinality(Asking) \in Nat /\ Cardinality(Yielding) \in Nat
  <1>1. fact
    BY Holders
  <1> HIDE DEF fact
  <1>2. fact'
    BY <1>1, PTL
  <1> QED
    BY <1>2 DEF fact, Asks

(* A stream becomes s, taking no connection, or one where one is left.     *)
LEMMA ViewerBecomes ==
    ASSUME RouteInv, NEW c \in Clients, NEW s, ViewerSound(s),
           viewer' = [viewer EXCEPT ![c] = s],
           UNCHANGED <<row, exec, cancelling, resumes>>,
           \/ /\ Asks(s) => Asks(viewer[c])
              /\ s.pc = "yield" => viewer[c].pc = "yield"
           \/ /\ Route!Used < RoutePool
              /\ \/ s.pc # "yield" /\ Asks(s) /\ ~Asks(viewer[c])
                 \/ /\ s.pc = "yield" /\ viewer[c].pc # "yield"
                    /\ Asks(s) = Asks(viewer[c])
    PROVE  RouteInv'
  <1>1. /\ viewer'[c] = s /\ \A d \in Clients \ {c} : viewer'[d] = viewer[d]
    BY DEF RouteInv
  <1>2. Route!Used \in Nat /\ Route!Used <= RoutePool /\ RoutePool \in Nat
    <2>1. RoutePool \in Nat
      BY StreamsAssumption DEF Route!StreamAssumption
    <2>2. Route!Used \in Nat
      BY Holders
    <2> QED
      BY <2>1, <2>2 DEF RouteInv
  <1>3. Route!Used' <= RoutePool
    <2>1. CASE /\ Asks(s) => Asks(viewer[c])
               /\ s.pc = "yield" => viewer[c].pc = "yield"
      <3>1. Asking' \subseteq Asking /\ Yielding' \subseteq Yielding
        BY <1>1, <2>1, Holders, HoldersAfter
      <3>2. /\ Cardinality(Asking') <= Cardinality(Asking)
            /\ Cardinality(Yielding') <= Cardinality(Yielding)
        BY <3>1, Holders, HoldersAfter, FS_Subset
      <3> QED
        BY <1>2, <3>2, Holders, HoldersAfter
    <2>2. CASE /\ Route!Used < RoutePool
               /\ s.pc # "yield" /\ Asks(s) /\ ~Asks(viewer[c])
      <3>1. Asking' = Asking \cup {c} /\ Yielding' \subseteq Yielding /\ c \notin Asking
        BY <1>1, <2>2, Holders, HoldersAfter
      <3>2. Cardinality(Asking') = Cardinality(Asking) + 1
        BY <3>1, Holders, FS_AddElement
      <3>3. Cardinality(Yielding') <= Cardinality(Yielding)
        BY <3>1, Holders, FS_Subset
      <3> QED
        BY <1>2, <2>2, <3>2, <3>3, Holders, HoldersAfter
    <2>3. CASE /\ Route!Used < RoutePool
               /\ s.pc = "yield" /\ viewer[c].pc # "yield"
               /\ Asks(s) = Asks(viewer[c])
      <3>1. Asking' \subseteq Asking
            /\ Yielding' = Yielding \cup {c} /\ c \notin Yielding
        BY <1>1, <2>3, Holders, HoldersAfter
      <3>2. Cardinality(Yielding') = Cardinality(Yielding) + 1
        BY <3>1, Holders, FS_AddElement
      <3>3. Cardinality(Asking') <= Cardinality(Asking)
        BY <3>1, Holders, FS_Subset
      <3> QED
        BY <1>2, <2>3, <3>2, <3>3, Holders, HoldersAfter
    <2> QED
      BY <2>1, <2>2, <2>3
  <1>4. \A d \in Clients : ViewerSound(viewer'[d])
    BY <1>1 DEF RouteInv
  <1>5. DOMAIN viewer' = Clients /\ viewer' = [d \in Clients |-> viewer'[d]]
    BY DEF RouteInv
  <1> QED
    BY <1>3, <1>4, <1>5 DEF RouteInv

(* Every step of the route or of the run keeps the invariant of the route. *)
LEMMA RouteStep ==
    ASSUME RouteInv, Route!Next
    PROVE  RouteInv'
  <1>0. /\ RoutePool \in Nat \ {0} /\ MaxSteps \in Nat /\ MaxResumes \in Nat
        /\ row \in [status : Route!RunStatus, steps : 0..MaxSteps]
        /\ exec \in [on : BOOLEAN, done : 0..MaxSteps]
        /\ \A c \in Clients : ViewerSound(viewer[c])
    BY StreamsAssumption DEF RouteInv, Route!StreamAssumption
  <1>1. CASE Route!Run
    <2>1. viewer' = viewer /\ Route!Used' = Route!Used
      <3>1. viewer' = viewer
        BY <1>1 DEF Route!Run, Route!Claim, Route!StepDone, Route!Await,
                    Route!Complete, Route!Escape, Route!Leaves, Route!CancelRead,
                    Route!CancelWrite, Route!Resume
      <3>2. Asking' = Asking /\ Yielding' = Yielding
        BY <3>1, Holders, HoldersAfter
      <3> QED
        BY <3>1, <3>2, Holders, HoldersAfter
    <2>3. cancelling \in BOOLEAN /\ resumes \in 0..MaxResumes
      BY DEF RouteInv
    <2>2. /\ row' \in [status : Route!RunStatus, steps : 0..MaxSteps]
          /\ exec' \in [on : BOOLEAN, done : 0..MaxSteps]
          /\ cancelling' \in BOOLEAN /\ resumes' \in 0..MaxResumes
      <3> USE <1>0, <2>3 DEF Route!RunStatus, Route!Terminal
      <3>1. CASE Route!Claim
        BY <3>1 DEF Route!Claim
      <3>7. CASE Route!Resume
        <4>1. row' = [row EXCEPT !.status = "queued"] /\ UNCHANGED <<exec, cancelling>>
          BY <3>7 DEF Route!Resume
        <4>2. resumes' = resumes + 1 /\ resumes < MaxResumes
          BY <3>7 DEF Route!Resume
        <4>3. resumes' \in 0..MaxResumes
          BY <4>2
        <4> QED
          BY <4>1, <4>3
      <3>2. CASE Route!StepDone
        BY <3>2 DEF Route!StepDone
      <3>3. ASSUME NEW status \in Route!RunStatus, Route!Leaves(status)
            PROVE  /\ row' \in [status : Route!RunStatus, steps : 0..MaxSteps]
                   /\ exec' \in [on : BOOLEAN, done : 0..MaxSteps]
                   /\ UNCHANGED <<cancelling, resumes>>
        BY <3>3 DEF Route!Leaves
      <3>4. CASE Route!Await \/ Route!Complete
        BY <3>3, <3>4 DEF Route!Await, Route!Complete
      <3>5. CASE Route!Escape
        BY <3>3, <3>5 DEF Route!Escape
      <3>6. CASE Route!CancelRead \/ Route!CancelWrite
        BY <3>6 DEF Route!CancelRead, Route!CancelWrite
      <3> QED
        BY <1>1, <3>1, <3>2, <3>4, <3>5, <3>6, <3>7 DEF Route!Run
    <2> QED
      BY <2>1, <2>2 DEF RouteInv
  <1>2. ASSUME NEW c \in Clients, NEW pc \in {"poll", "ended"},
               viewer[c].pc \notin {"yield", "off"},
               viewer' = [viewer EXCEPT ![c] = [viewer[c] EXCEPT !.pc = pc]],
               UNCHANGED <<row, exec, cancelling, resumes>>
        PROVE  RouteInv'
    <2> DEFINE s == [viewer[c] EXCEPT !.pc = pc]
    <2>1. ViewerSound(s) /\ s.pc = pc
      BY <1>0, <1>2 DEF ViewerSound, ViewerRecord
    <2> HIDE DEF s
    <2>2. viewer' = [viewer EXCEPT ![c] = s]
      BY <1>2 DEF s
    <2>3. (Asks(s) => Asks(viewer[c])) /\ s.pc # "yield"
      BY <1>2, <2>1 DEF Asks
    <2> QED
      BY <1>2, <2>1, <2>2, <2>3, ViewerBecomes
  <1>3. ASSUME NEW c \in Clients, Route!Respond(c) \/ Route!Wake(c) \/ Route!PollTimeout(c)
        PROVE  RouteInv'
    BY <1>2, <1>3 DEF Route!Respond, Route!Wake, Route!PollTimeout, Route!Becomes
  <1>4. ViewerSound(Route!Off) /\ Route!Off.pc = "off"
        /\ ViewerSound([Route!Off EXCEPT !.pc = "asked"])
    BY <1>0 DEF ViewerSound, ViewerRecord, Route!Off, Route!Nil, Route!RunStatus,
                Route!Terminal
  <1>5. ASSUME NEW c \in Clients, Route!Close(c)
        PROVE  RouteInv'
    <2>1. viewer' = [viewer EXCEPT ![c] = Route!Off]
          /\ UNCHANGED <<row, exec, cancelling, resumes>>
      BY <1>5 DEF Route!Close, Route!Becomes
    <2>2. ~Asks(Route!Off) /\ Route!Off.pc # "yield"
      BY <1>4 DEF Asks
    <2> QED
      BY <1>4, <2>1, <2>2, ViewerBecomes
  <1>6. ASSUME NEW c \in Clients, Route!Ask(c)
        PROVE  RouteInv'
    <2> DEFINE s == [Route!Off EXCEPT !.pc = "asked"]
    <2>1. viewer' = [viewer EXCEPT ![c] = s] /\ viewer[c].pc = "off"
          /\ Route!Used < RoutePool /\ UNCHANGED <<row, exec, cancelling, resumes>>
      BY <1>6 DEF Route!Ask, Route!Becomes
    <2>2. ViewerSound(s) /\ s.pc = "asked"
      BY <1>4 DEF Route!Off
    <2> HIDE DEF s
    <2>3. Asks(s) /\ ~Asks(viewer[c]) /\ s.pc # "yield"
      BY <2>1, <2>2 DEF Asks
    <2> QED
      BY <2>1, <2>2, <2>3, ViewerBecomes
  <1>7. ASSUME NEW c \in Clients, Route!Poll(c)
        PROVE  RouteInv'
    <2> DEFINE s == [viewer[c] EXCEPT !.pc = "yield", !.read = row]
    <2>1. viewer' = [viewer EXCEPT ![c] = s] /\ viewer[c].pc = "poll"
          /\ Route!Used < RoutePool /\ UNCHANGED <<row, exec, cancelling, resumes>>
      BY <1>7 DEF Route!Poll, Route!Becomes
    <2>2. row.status # Route!Nil /\ row \in [status : Route!RunStatus \cup {Route!Nil},
                                            steps : 0..MaxSteps]
      BY <1>0 DEF Route!RunStatus, Route!Terminal, Route!Nil
    <2>3. ViewerSound(s) /\ s.pc = "yield"
      BY <1>0, <2>2 DEF ViewerSound, ViewerRecord
    <2> HIDE DEF s
    <2>4. Asks(s) = Asks(viewer[c]) /\ viewer[c].pc # "yield"
      BY <2>1, <2>3 DEF Asks
    <2> QED
      BY <2>1, <2>3, <2>4, ViewerBecomes
  <1>8. ASSUME NEW c \in Clients, Route!Yield(c)
        PROVE  RouteInv'
    <2>0. viewer[c] \in ViewerRecord
      BY <1>0 DEF ViewerSound
    <2>1. PICK seen, end, pc :
             /\ seen = viewer[c].seen \cup {viewer[c].read.steps}
             /\ end \in {Route!Nil, "run.completed", "run.failed"}
             /\ pc \in {"ended", "sleep"}
             /\ viewer' = [viewer EXCEPT ![c] = [viewer[c] EXCEPT
                    !.last = viewer[c].read.steps, !.seen = seen, !.end = end,
                    !.read = Route!Off.read, !.pc = pc]]
             /\ UNCHANGED <<row, exec, cancelling, resumes>>
      BY <1>8, <2>0 DEF Route!Yield, Route!Becomes, ViewerRecord
    <2>2. PICK shown : shown = viewer[c].read.steps
      OBVIOUS
    <2>3. shown \in 0..MaxSteps /\ seen \in SUBSET (0..MaxSteps)
      BY <2>0, <2>1, <2>2 DEF ViewerRecord
    <2>4. PICK read : read = Route!Off.read
      OBVIOUS
    <2>5. /\ read \in [status : Route!RunStatus \cup {Route!Nil}, steps : 0..MaxSteps]
          /\ read.status = Route!Nil
      BY <1>0, <2>4 DEF Route!Off
    <2> DEFINE s == [viewer[c] EXCEPT !.last = shown, !.seen = seen, !.end = end,
                                      !.read = read, !.pc = pc]
    <2>7. ViewerSound(s) /\ s.pc = pc
      <3>0. shown \in -1..MaxSteps
        BY <1>0, <2>3
      <3>1. s \in ViewerRecord
        BY <2>0, <2>1, <2>3, <2>5, <3>0 DEF ViewerRecord
      <3>2. s.pc = pc /\ s.read = read
        BY <2>0 DEF ViewerRecord
      <3> QED
        BY <2>1, <2>5, <3>1, <3>2 DEF ViewerSound
    <2>6. viewer' = [viewer EXCEPT ![c] = s]
      BY <2>1, <2>2, <2>4
    <2> HIDE DEF s
    <2>8. (Asks(s) => Asks(viewer[c])) /\ s.pc # "yield"
      BY <1>8, <2>1, <2>7 DEF Asks, Route!Yield
    <2> QED
      BY <2>1, <2>6, <2>7, <2>8, ViewerBecomes
  <1> QED
    BY <1>1, <1>3, <1>5, <1>6, <1>7, <1>8 DEF Route!Next, Route!Serve

(* The pool is never overdrawn by streams, and a stream that yields has    *)
(* read a row, for every number of streams, connections and steps, whether *)
(* or not the session of a request is kept to the end of its stream.       *)
THEOREM RouteKeepsPool == StreamsSpec => []Route!TypeOK
<1>1. Route!Init => RouteInv
  <2> SUFFICES ASSUME Route!Init
               PROVE  RouteInv
    OBVIOUS
  <2>0. RoutePool \in Nat \ {0} /\ MaxSteps \in Nat /\ MaxResumes \in Nat
    BY StreamsAssumption DEF Route!StreamAssumption
  <2>1. \A c \in Clients : viewer[c] = Route!Off
    BY DEF Route!Init
  <2>2. ViewerSound(Route!Off) /\ Route!Off.pc = "off"
    BY <2>0 DEF ViewerSound, ViewerRecord, Route!Off, Route!Nil, Route!RunStatus,
                Route!Terminal
  <2>3. Asking = {} /\ Yielding = {}
    BY <2>1, <2>2, Holders DEF Asks
  <2>4. Route!Used <= RoutePool
    <3>1. Cardinality(Asking) = 0 /\ Cardinality(Yielding) = 0
      BY <2>3, FS_EmptySet
    <3>2. Route!Used = Cardinality(Asking) + Cardinality(Yielding)
      BY Holders
    <3> QED
      BY <2>0, <3>1, <3>2
  <2>5. DOMAIN viewer = Clients /\ viewer = [c \in Clients |-> viewer[c]]
    BY DEF Route!Init
  <2>6. /\ row \in [status : Route!RunStatus, steps : 0..MaxSteps]
        /\ exec \in [on : BOOLEAN, done : 0..MaxSteps]
        /\ cancelling \in BOOLEAN /\ resumes \in 0..MaxResumes
    <3>1. 0 \in 0..MaxSteps /\ 0 \in 0..MaxResumes
      BY <2>0
    <3>2. "queued" \in Route!RunStatus
      BY DEF Route!RunStatus
    <3>3. row = [status |-> "queued", steps |-> 0]
          /\ exec = [on |-> FALSE, done |-> 0] /\ cancelling = FALSE /\ resumes = 0
      BY DEF Route!Init
    <3>4. row \in [status : Route!RunStatus, steps : 0..MaxSteps]
      BY <3>1, <3>2, <3>3
    <3>5. exec \in [on : BOOLEAN, done : 0..MaxSteps]
      BY <3>1, <3>3
    <3> QED
      BY <3>1, <3>3, <3>4, <3>5
  <2> QED
    BY <2>1, <2>2, <2>4, <2>5, <2>6 DEF RouteInv
<1>2. RouteInv /\ [Route!Next]_(Route!vars) => RouteInv'
  <2>1. ASSUME RouteInv, UNCHANGED Route!vars
        PROVE  RouteInv'
    <3>1. viewer' = viewer
      BY <2>1 DEF Route!vars
    <3>2. Asking' = Asking /\ Yielding' = Yielding
      BY <3>1, Holders, HoldersAfter
    <3>3. Route!Used' = Route!Used
      BY <3>2, Holders, HoldersAfter
    <3> QED
      BY <2>1, <3>3 DEF RouteInv, Route!vars
  <2> QED
    BY <2>1, RouteStep
<1>3. RouteInv => Route!TypeOK
  BY DEF RouteInv, ViewerSound, ViewerRecord, Route!TypeOK
<1> QED
  BY <1>1, <1>2, <1>3, StreamsAreParts, PTL DEF Route!Spec
=============================================================================
