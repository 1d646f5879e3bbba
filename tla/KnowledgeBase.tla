--------------------------- MODULE KnowledgeBase ---------------------------
(***************************************************************************)
(* The knowledge service (services/knowledge.py) behind routers/knowledge. *)
(* The API runs as several uvicorn processes (apps/api/Dockerfile:24) that *)
(* share one Qdrant server.  Every process also keeps a BM25 index of its  *)
(* own, in memory, which answers only when the vector search raises.       *)
(*                                                                         *)
(* A request is cut at its awaits: what it awaits is one step, and what it *)
(* does with the answer is the next.  An answer is lost when Qdrant is     *)
(* unreachable at that moment, whether or not the call took effect.        *)
(*                                                                         *)
(* Abstracted: one organisation; a document is the set of its chunks; a    *)
(* search returns every document of the collection it reads, so top_k and  *)
(* scores do not appear; ingestion_jobs, which nothing reads, is left out. *)
(* Each chunk has a vector of its own length, the model's or the 64 of the *)
(* hash fallback: a collection is created for that of the first.           *)
(***************************************************************************)
EXTENDS Naturals, FiniteSets

CONSTANTS Procs,          \* uvicorn processes
          Clients,        \* requests in flight
          Docs,           \* documents that may be ingested
          Domains,        \* domain names as the callers write them
          Collections,    \* collection names after sanitising
          CollectionOf,   \* _collection_name: two names may map to one
          Sizes,          \* lengths of the embedding vectors
          MaxOutages,     \* bound on the times Qdrant goes away
          MaxRestarts     \* bound on the times a process is restarted

NamesAreMapped == CollectionOf \in [Domains -> Collections]

VARIABLES qdrant,         \* the server's collections
          reachable,      \* whether calls to Qdrant get through
          outages, restarts,
          bm25,           \* _bm25 of each process, per collection
          req,            \* the requests in flight
          kept,           \* points whose ingest returned, not deleted since
          durable,        \* those of kept that were recorded as "completed"
          gone            \* per process, points whose delete returned True

vars == <<qdrant, reachable, outages, restarts, bm25, req, kept, durable, gone>>

Points == [doc : Docs, domain : Domains]
InCollection(c) == {p \in Points : CollectionOf[p.domain] = c}
NoCollection == [exists |-> FALSE]
Existing(s, ps) == [exists |-> TRUE, size |-> s, points |-> ps]
Idle == [pc |-> "idle"]

(***************************************************************************)
(* The names kept, durable and gone follow the callers' point of view and  *)
(* decide nothing.  A delete and an ingest of one collection that overlap  *)
(* may end either way, so the overlap takes the point out of all three.    *)
(***************************************************************************)
InFlight(pcs, c) == \E k \in Clients : req[k].pc \in pcs /\ req[k].coll = c
Ingesting == {"ensure", "create", "upsert", "index"}
Deleting == {"delete", "clear"}

Init ==
    /\ qdrant = [c \in Collections |-> NoCollection]
    /\ reachable = TRUE /\ outages = 0 /\ restarts = 0
    /\ bm25 = [p \in Procs |-> [c \in Collections |-> {}]]
    /\ req = [k \in Clients |-> Idle]
    /\ kept = {} /\ durable = {}
    /\ gone = [p \in Procs |-> {}]

---------------------------------------------------------------------------
(* ingest *)

(* Load, chunk and embed: everything before the first call to Qdrant.      *)
IngestStart(k, p, pt, s) ==
    LET c == CollectionOf[pt.domain] IN
    /\ req[k].pc = "idle"
    /\ \A j \in Clients : req[j].pc \in Ingesting => req[j].point # pt
    /\ req' = [j \in Clients |->
                 IF j = k
                 THEN [pc |-> "ensure", proc |-> p, coll |-> c, point |-> pt,
                       size |-> s, ok |-> FALSE,
                       torn |-> InFlight(Deleting, c)]
                 ELSE IF req[j].pc \in Deleting
                      THEN [req[j] EXCEPT !.spare = @ \cup {pt}]
                      ELSE req[j]]
    /\ kept' = kept \ {pt} /\ durable' = durable \ {pt}
    /\ gone' = [q \in Procs |-> gone[q] \ {pt}]
    /\ UNCHANGED <<qdrant, reachable, outages, restarts, bm25>>

(* get_collection: whatever it raises is taken for an absent collection.   *)
EnsureGet(k) ==
    /\ req[k].pc = "ensure"
    /\ req' = [req EXCEPT ![k].pc =
                 IF reachable /\ qdrant[req[k].coll].exists
                 THEN "upsert" ELSE "create"]
    /\ UNCHANGED <<qdrant, reachable, outages, restarts, bm25, kept, durable, gone>>

(* create_collection: raises when the collection exists by now.            *)
EnsureCreate(k) ==
    LET c == req[k].coll
        created == reachable /\ ~qdrant[c].exists IN
    /\ req[k].pc = "create"
    /\ qdrant' = IF created
                 THEN [qdrant EXCEPT ![c] = Existing(req[k].size, {})]
                 ELSE qdrant
    /\ req' = [req EXCEPT ![k].pc = IF created THEN "upsert" ELSE "index"]
    /\ UNCHANGED <<reachable, outages, restarts, bm25, kept, durable, gone>>

(* upsert, on the server, of all chunks or none: the vectors have to be of *)
(* the collection's length, and those of one document may not be alike.    *)
Upsert(k, alike) ==
    LET c == req[k].coll
        accepted == /\ reachable
                    /\ alike
                    /\ qdrant[c].exists
                    /\ qdrant[c].size = req[k].size IN
    /\ req[k].pc = "upsert"
    /\ qdrant' = IF accepted
                 THEN [qdrant EXCEPT ![c].points = @ \cup {req[k].point}]
                 ELSE qdrant
    /\ req' = [req EXCEPT ![k].pc = "index", ![k].ok = accepted]
    /\ UNCHANGED <<reachable, outages, restarts, bm25, kept, durable, gone>>

(* Seeded fault: the job is completed whatever happened to the upsert.     *)
CompletedAlways(k) == TRUE

(* The answer of the upsert, or its exception: the BM25 index is updated   *)
(* either way and the caller is told how many chunks were stored.          *)
Completed(k) == req[k].ok /\ reachable
IngestDone(k) ==
    LET pt == req[k].point IN
    /\ req[k].pc = "index"
    /\ bm25' = [bm25 EXCEPT ![req[k].proc][req[k].coll] = @ \cup {pt}]
    /\ kept' = IF req[k].torn THEN kept ELSE kept \cup {pt}
    /\ durable' = IF req[k].torn \/ ~Completed(k)
                  THEN durable ELSE durable \cup {pt}
    /\ req' = [req EXCEPT ![k] = Idle]
    /\ UNCHANGED <<qdrant, reachable, outages, restarts, gone>>

---------------------------------------------------------------------------
(* delete_collection *)

DeleteStart(k, p, d) ==
    LET c == CollectionOf[d] IN
    /\ req[k].pc = "idle"
    /\ req' = [j \in Clients |->
                 IF j = k
                 THEN [pc |-> "delete", proc |-> p, coll |-> c, ok |-> FALSE,
                       spare |-> {req[i].point : i \in
                                  {i \in Clients : req[i].pc \in Ingesting}}]
                 ELSE IF req[j].pc \in Ingesting /\ req[j].coll = c
                      THEN [req[j] EXCEPT !.torn = TRUE]
                      ELSE req[j]]
    /\ kept' = kept \ InCollection(c) /\ durable' = durable \ InCollection(c)
    /\ UNCHANGED <<qdrant, reachable, outages, restarts, bm25, gone>>

(* The server deletes the collection; deleting an absent one is no error.  *)
DeleteOnServer(k) ==
    /\ req[k].pc = "delete"
    /\ qdrant' = IF reachable
                 THEN [qdrant EXCEPT ![req[k].coll] = NoCollection]
                 ELSE qdrant
    /\ req' = [req EXCEPT ![k].pc = "clear", ![k].ok = reachable]
    /\ UNCHANGED <<reachable, outages, restarts, bm25, kept, durable, gone>>

(* Seeded fault: the index is cleared only if the collection is still      *)
(* there.                                                                  *)
ClearIndexOfOther(p, c) ==
    IF qdrant[c].exists THEN [bm25 EXCEPT ![p][c] = {}] ELSE bm25

(* _BM25Index.clear, in the process that serves the request.               *)
ClearIndex(p, c) == [bm25 EXCEPT ![p][c] = {}]
DeleteDone(k) ==
    LET p == req[k].proc
        c == req[k].coll IN
    /\ req[k].pc = "clear"
    /\ bm25' = ClearIndex(p, c)
    /\ gone' = IF req[k].ok /\ reachable
               THEN [gone EXCEPT ![p] = @ \cup (InCollection(c) \ req[k].spare)]
               ELSE gone
    /\ req' = [req EXCEPT ![k] = Idle]
    /\ UNCHANGED <<qdrant, reachable, outages, restarts, kept, durable>>

---------------------------------------------------------------------------
(* The environment *)

GoAway ==
    /\ reachable /\ outages < MaxOutages
    /\ reachable' = FALSE /\ outages' = outages + 1
    /\ UNCHANGED <<qdrant, restarts, bm25, req, kept, durable, gone>>

ComeBack ==
    /\ ~reachable
    /\ reachable' = TRUE
    /\ UNCHANGED <<qdrant, outages, restarts, bm25, req, kept, durable, gone>>

(* A restarted process forgets its index and the requests it was serving;  *)
(* a delete it was serving may have taken effect, or may not.              *)
Restart(p) ==
    /\ restarts < MaxRestarts
    /\ restarts' = restarts + 1
    /\ bm25' = [bm25 EXCEPT ![p] = [c \in Collections |-> {}]]
    /\ req' = [k \in Clients |->
                 IF req[k].pc # "idle" /\ req[k].proc = p THEN Idle ELSE req[k]]
    /\ kept' = kept \cap durable
    /\ UNCHANGED <<qdrant, reachable, outages, durable, gone>>

Next ==
    \/ \E k \in Clients :
         \/ \E p \in Procs, pt \in Points, s \in Sizes : IngestStart(k, p, pt, s)
         \/ EnsureGet(k) \/ EnsureCreate(k) \/ IngestDone(k)
         \/ \E alike \in BOOLEAN : Upsert(k, alike)
         \/ \E p \in Procs, d \in Domains : DeleteStart(k, p, d)
         \/ DeleteOnServer(k) \/ DeleteDone(k)
    \/ GoAway \/ ComeBack
    \/ \E p \in Procs : Restart(p)

Spec == Init /\ [][Next]_vars

---------------------------------------------------------------------------
(* What a search made now would return.  It changes nothing, so the        *)
(* properties ask it of every state instead of taking it as an action.     *)

(* The vector search raises when the server is away, when the collection   *)
(* is absent and when the query's vector has another length.               *)
VectorSearchWorks(c, s) ==
    reachable /\ qdrant[c].exists /\ qdrant[c].size = s

SearchResults(p, d, s) ==
    LET c == CollectionOf[d] IN
    IF VectorSearchWorks(c, s) THEN qdrant[c].points ELSE bm25[p][c]

---------------------------------------------------------------------------
(* Properties *)

(* The requests in flight, with the fields each kind carries.              *)
Requests ==
    {Idle}
    \cup [pc : Ingesting, proc : Procs, coll : Collections, point : Points,
          size : Sizes, ok : BOOLEAN, torn : BOOLEAN]
    \cup [pc : Deleting, proc : Procs, coll : Collections, ok : BOOLEAN,
          spare : SUBSET Points]

(* Type invariant: collections, indexes and requests have the shapes the   *)
(* service gives them.                                                     *)
TypeOK ==
    /\ qdrant \in [Collections -> {NoCollection}
                    \cup [exists : {TRUE}, size : Sizes, points : SUBSET Points]]
    /\ reachable \in BOOLEAN /\ outages \in Nat /\ restarts \in Nat
    /\ bm25 \in [Procs -> [Collections -> SUBSET Points]]
    /\ req \in [Clients -> Requests]
    /\ kept \subseteq Points /\ durable \subseteq Points
    /\ gone \in [Procs -> SUBSET Points]

(* An ingest recorded as "completed" rather than "completed_bm25_only" is  *)
(* in Qdrant until a delete of its collection begins, whatever outages,    *)
(* lost answers, restarts and other requests come in between.              *)
CompletedIsDurable ==
    \A pt \in durable :
        LET c == CollectionOf[pt.domain] IN
        qdrant[c].exists /\ pt \in qdrant[c].points

(* After a delete that returned True, the process that served it finds the *)
(* deleted documents neither in Qdrant nor in its fallback index.          *)
DeletedGoneHere ==
    \A p \in Procs, d \in Domains, s \in Sizes :
        SearchResults(p, d, s) \cap gone[p] = {}

-----------------------------------------------------------------------------
(* What the code's comments and docs say and the code does not do.         *)

(* "Delete the Qdrant collection and BM25 index for a domain."             *)
(* (knowledge.py:662): no process finds a document after its delete        *)
(* returned True.  The other process's index still has it.                 *)
DeletedGoneEverywhere ==
    \A p, q \in Procs, d \in Domains, s \in Sizes :
        SearchResults(q, d, s) \cap gone[p] = {}

(* The BM25 index answers "when the vector store is temporarily            *)
(* unavailable" (knowledge.py:96): while Qdrant has never been away, a     *)
(* vector search finds every document whose ingest returned.               *)
IngestedFound ==
    outages = 0 =>
        \A pt \in kept, s \in Sizes :
            LET c == CollectionOf[pt.domain] IN
            VectorSearchWorks(c, s) => pt \in qdrant[c].points

(* "Each organisation + domain combination maps to a dedicated Qdrant      *)
(* collection" (knowledge.py:340): a search in a domain returns documents  *)
(* of that domain.                                                         *)
SearchStaysInDomain ==
    \A p \in Procs, d \in Domains, s \in Sizes :
        \A pt \in SearchResults(p, d, s) : pt.domain = d

=============================================================================
