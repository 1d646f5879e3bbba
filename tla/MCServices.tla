----------------------------- MODULE MCServices -----------------------------
(***************************************************************************)
(* Services the routes and the orchestrator are built from, for TLC: the   *)
(* cursor pagination of the list routes (Pagination), the knowledge        *)
(* service (KnowledgeBase) and its chunks (Chunking), the memory layers of *)
(* a run (MemoryLayers) and the model router (LlmRouter).  They share no   *)
(* state, so a behaviour is one of them while the others stay at their     *)
(* start.                                                                  *)
(***************************************************************************)
EXTENDS Pagination, Chunking, TLC

CONSTANTS
    Procs, Clients, Docs, Domains, Collections, CollectionOf, Sizes,
    MaxOutages, MaxRestarts,
    Keys, Vals, None, Absent, MaxRedisFaults, MaxPgFaults,
    Calls, Roles, Providers, NoProvider, Modes, Prices, Priced

VARIABLES
    part,
    qdrant, reachable, outages, restarts, bm25, req, kept, durable, gone,
    redis, output, call, redisFaults, pgFaults, latest, removed,
    settings, configured, keyed, asked

knowledgeVars ==
    <<qdrant, reachable, outages, restarts, bm25, req, kept, durable, gone>>

memoryVars == <<redis, output, call, redisFaults, pgFaults, latest, removed>>

routerVars == <<settings, configured, keyed, asked>>

Knowledge == INSTANCE KnowledgeBase

Memory == INSTANCE MemoryLayers

Router == INSTANCE LlmRouter WITH call <- asked

ASSUME ServicesAssumption ==
    /\ Knowledge!NamesAreMapped
    /\ Memory!NoneIsNoValue
    /\ Router!RouterAssumption

-----------------------------------------------------------------------------
(* Two domain names that are both sanitised to "a_b" (knowledge.py:375).   *)
TwoShared == [d \in {"a-b", "a_b"} |-> "a_b"]

TextLengths == 0..40

(* A priced provider, a cheaper one, and one that is run at no charge.     *)
RouterPrices == [anthropic |-> 3, openai |-> 1, ollama |-> 0]

RequestSymmetry ==
    Permutations(Procs) \cup Permutations(Clients) \cup Permutations(Calls)

(* The router while another service runs: one of its initial states.       *)
Parked ==
    /\ settings = CHOOSE s \in Router!RoutingFields : TRUE
    /\ keyed = {}

ServicesInit ==
    /\ part \in {"pagination", "chunking", "knowledge", "memory", "router"}
    /\ Init
    /\ part # "pagination" => selected = {}
    /\ ChunkInit
    /\ part # "chunking" => tokens = 0
    /\ Knowledge!Init
    /\ Memory!Init
    /\ Router!Init
    /\ part # "router" => Parked

PaginationNext ==
    part = "pagination" /\ Next /\
    UNCHANGED <<part, chunkVars, knowledgeVars, memoryVars, routerVars>>

ChunkingNext ==
    /\ part = "chunking"
    /\ ChunkNext \/ (cut /\ UNCHANGED chunkVars)
    /\ UNCHANGED <<part, vars, knowledgeVars, memoryVars, routerVars>>

KnowledgeNext ==
    part = "knowledge" /\ Knowledge!Next /\
    UNCHANGED <<part, vars, chunkVars, memoryVars, routerVars>>

MemoryNext ==
    part = "memory" /\ Memory!Next /\
    UNCHANGED <<part, vars, chunkVars, knowledgeVars, routerVars>>

RouterNext ==
    part = "router" /\ Router!Next /\
    UNCHANGED <<part, vars, chunkVars, knowledgeVars, memoryVars>>

ServicesNext ==
    PaginationNext \/ ChunkingNext \/ KnowledgeNext \/ MemoryNext \/ RouterNext

ServicesSpec ==
    ServicesInit /\ [][ServicesNext]_<<part, vars, chunkVars, knowledgeVars,
                                     memoryVars, routerVars>>

-----------------------------------------------------------------------------
(* The type invariants of the four.                                        *)
ServicesTyped ==
    TypeOK /\ Knowledge!TypeOK /\ Memory!TypeOK /\ Router!TypeOK

(* The safety of the knowledge service, the memory layers and the router.  *)
CompletedIsDurable == Knowledge!CompletedIsDurable

DeletedGoneHere == Knowledge!DeletedGoneHere

AnswersAreCurrent == Memory!AnswersAreCurrent

FallbackIsLastResort == Router!FallbackIsLastResort
=============================================================================
