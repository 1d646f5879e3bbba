---------------------------- MODULE MemoryLayers ----------------------------
(***************************************************************************)
(* The memory service (services/memory.py): the memory of one agent run,   *)
(* kept in Redis until its time to live is over and in the "_memory" part  *)
(* of the output column of its row in agent_runs.                          *)
(*                                                                         *)
(* Every call awaits Redis and then Postgres, and each await is a step.  A *)
(* Redis call that raises may have taken effect or not.  The service       *)
(* swallows what both raise, except when a retrieve reads Postgres.        *)
(*                                                                         *)
(* Abstracted: a run's keys are distinct in Redis (the service cuts the    *)
(* ids of the organisation and of the run to twelve hex digits); list_keys *)
(* is the set of keys Redis and Postgres hold, and changes nothing.        *)
(***************************************************************************)
EXTENDS Naturals, FiniteSets

CONSTANTS Keys, Vals, None,
          Absent,          \* the column has no "_memory" part
          Clients,         \* calls in flight
          MaxRedisFaults,  \* bound on the Redis calls that raise
          MaxPgFaults      \* bound on the Postgres statements that raise

NoneIsNoValue == None \notin Vals

VARIABLES redis,           \* the short-term value of each key
          output,          \* agent_runs.output
          call,            \* the calls in flight
          redisFaults, pgFaults,
          latest,          \* per key: what a caller may expect to find
          removed          \* keys whose delete returned True, not stored since

vars == <<redis, output, call, redisFaults, pgFaults, latest, removed>>

NoOutput == [set |-> FALSE, memory |-> Absent]
NoMemory == [k \in Keys |-> None]
Idle == [pc |-> "idle"]
Busy(c, k) == call[c].pc # "idle" /\ call[c].key = k
Writing(c, k) == Busy(c, k) /\ call[c].op # "retrieve"

Init ==
    /\ redis = NoMemory
    /\ output = NoOutput
    /\ call = [c \in Clients |-> Idle]
    /\ redisFaults = 0 /\ pgFaults = 0
    /\ latest = [k \in Keys |-> {None}]
    /\ removed = {}

---------------------------------------------------------------------------
(* The statements of the service.                                          *)

(* Seeded fault, or a repair: the missing parent is created.               *)
JsonbSetDeep(out, k, v) ==
    [set |-> TRUE,
     memory |-> [IF out.memory = Absent THEN NoMemory ELSE out.memory
                 EXCEPT ![k] = v]]

(* jsonb_set(COALESCE(output, '{}'), ARRAY['_memory', key], value, true):  *)
(* it creates the last element of the path only, and returns its argument  *)
(* when an earlier one is missing.                                         *)
JsonbSet(out, k, v) ==
    [set |-> TRUE,
     memory |-> IF out.memory = Absent
                THEN Absent
                ELSE [out.memory EXCEPT ![k] = v]]

(* output #- ARRAY['_memory', key], where output has a "_memory".          *)
JsonbDelete(out, k) ==
    IF out.memory = Absent THEN out ELSE [out EXCEPT !.memory[k] = None]

(* COALESCE(output -> '_memory', '{}').                                    *)
PgMemory == IF output.memory = Absent THEN NoMemory ELSE output.memory

---------------------------------------------------------------------------
(* Calls.  "over" collects what a write may be overtaken by, and "may"     *)
(* what a retrieve may return: neither decides anything.                   *)

Begin(c, op, k, v) ==
    /\ call[c].pc = "idle"
    /\ call' = [d \in Clients |->
         IF d = c
         THEN [pc |-> "redis", op |-> op, key |-> k, val |-> v, ok |-> FALSE,
               may |-> {call[e].val : e \in {e \in Clients : Writing(e, k)}}
                       \cup IF op = "retrieve" THEN latest[k] ELSE {}]
         ELSE IF Busy(d, k) /\ op # "retrieve"
              THEN [call[d] EXCEPT !.may = @ \cup {v}]
              ELSE call[d]]
    /\ removed' = IF op = "store" THEN removed \ {k} ELSE removed
    /\ UNCHANGED <<redis, output, redisFaults, pgFaults, latest>>

StoreBegin(c, k, v) == Begin(c, "store", k, v)
RetrieveBegin(c, k) == Begin(c, "retrieve", k, None)
DeleteBegin(c, k) == Begin(c, "delete", k, None)

(* SET key value EX ttl, or DEL key.                                       *)
RedisWrite(c) ==
    LET k == call[c].key
        written == [redis EXCEPT ![k] = call[c].val] IN
    /\ call[c].pc = "redis" /\ call[c].op # "retrieve"
    /\ \/ /\ redis' = written
          /\ call' = [call EXCEPT ![c].pc = "pg", ![c].ok = TRUE]
          /\ UNCHANGED redisFaults
       \/ /\ redisFaults < MaxRedisFaults
          /\ redisFaults' = redisFaults + 1
          /\ redis' \in {redis, written}
          /\ call' = [call EXCEPT ![c].pc = "pg"]
    /\ UNCHANGED <<output, pgFaults, latest, removed>>

(* The caller of a write is answered.  A store says which layers took it;  *)
(* a delete says True when Redis or Postgres raised nothing.               *)
Answered(c, pgOk) ==
    LET k == call[c].key
        new == {call[c].val} \cup call[c].may IN
    /\ call' = [call EXCEPT ![c] = Idle]
    /\ latest' = [latest EXCEPT ![k] = IF call[c].ok THEN new ELSE @ \cup new]
    /\ removed' = IF call[c].op = "delete" /\ (call[c].ok \/ pgOk)
                     /\ call[c].may \subseteq {None}
                  THEN removed \cup {k} ELSE removed

(* _pg_write_key or _pg_delete_key, and the end of the call.               *)
PgWrite(c) ==
    LET k == call[c].key IN
    /\ call[c].pc = "pg" /\ call[c].op # "retrieve"
    /\ \/ /\ output' = IF call[c].op = "store"
                       THEN JsonbSet(output, k, call[c].val)
                       ELSE JsonbDelete(output, k)
          /\ Answered(c, TRUE)
          /\ UNCHANGED pgFaults
       \/ /\ pgFaults < MaxPgFaults
          /\ pgFaults' = pgFaults + 1
          /\ Answered(c, FALSE)
          /\ UNCHANGED output
    /\ UNCHANGED <<redis, redisFaults>>

(* GET key: a value answers the call, otherwise it goes on to Postgres.    *)
RedisRead(c) ==
    LET v == redis[call[c].key] IN
    /\ call[c].pc = "redis" /\ call[c].op = "retrieve"
    /\ \/ /\ call' = [call EXCEPT ![c].pc = IF v = None THEN "pg" ELSE "answer",
                               ![c].val = v]
          /\ UNCHANGED redisFaults
       \/ /\ redisFaults < MaxRedisFaults
          /\ redisFaults' = redisFaults + 1
          /\ call' = [call EXCEPT ![c].pc = "pg"]
    /\ UNCHANGED <<redis, output, pgFaults, latest, removed>>

(* The fallback; what it raises reaches the caller, who gets no answer.    *)
PgRead(c) ==
    /\ call[c].pc = "pg" /\ call[c].op = "retrieve"
    /\ \/ /\ call' = [call EXCEPT ![c].pc = "answer",
                               ![c].val = PgMemory[call[c].key]]
          /\ UNCHANGED pgFaults
       \/ /\ pgFaults < MaxPgFaults
          /\ pgFaults' = pgFaults + 1
          /\ call' = [call EXCEPT ![c] = Idle]
    /\ UNCHANGED <<redis, output, redisFaults, latest, removed>>

Return(c) ==
    /\ call[c].pc = "answer"
    /\ call' = [call EXCEPT ![c] = Idle]
    /\ UNCHANGED <<redis, output, redisFaults, pgFaults, latest, removed>>

---------------------------------------------------------------------------
(* The rest of the system *)

(* The time to live of a key is over.                                      *)
Expire(k) ==
    /\ redis[k] # None
    /\ redis' = [redis EXCEPT ![k] = None]
    /\ UNCHANGED <<output, call, redisFaults, pgFaults, latest, removed>>

(* _complete_run assigns the whole column.                                 *)
RunCompletes ==
    /\ output' = [set |-> TRUE, memory |-> Absent]
    /\ UNCHANGED <<redis, call, redisFaults, pgFaults, latest, removed>>

Next ==
    \/ \E c \in Clients :
         \/ \E k \in Keys, v \in Vals : StoreBegin(c, k, v)
         \/ \E k \in Keys : RetrieveBegin(c, k) \/ DeleteBegin(c, k)
         \/ RedisWrite(c) \/ PgWrite(c)
         \/ RedisRead(c) \/ PgRead(c) \/ Return(c)
    \/ \E k \in Keys : Expire(k)
    \/ RunCompletes

Spec == Init /\ [][Next]_vars

---------------------------------------------------------------------------
(* Properties *)

(* What a key may hold.                                                    *)
MaybeVals == Vals \cup {None}

(* Type invariant: layers and calls have the shapes the service gives.     *)
TypeOK ==
    /\ redis \in [Keys -> MaybeVals]
    /\ output \in [set : BOOLEAN, memory : {Absent} \cup [Keys -> MaybeVals]]
    /\ \A c \in Clients :
          \/ call[c] = Idle
          \/ call[c] \in [pc : {"redis", "pg", "answer"},
                          op : {"store", "retrieve", "delete"}, key : Keys,
                          val : MaybeVals, ok : BOOLEAN, may : SUBSET MaybeVals]
    /\ latest \in [Keys -> SUBSET MaybeVals] /\ removed \subseteq Keys

(* A retrieve returns nothing, the value of the latest store, or that of a *)
(* store it overlaps: never one that was overwritten or deleted before the *)
(* retrieve began, in whatever layer it is found.                          *)
AnswersAreCurrent ==
    \A c \in Clients :
        call[c].pc = "answer" => call[c].val \in call[c].may \cup {None}

-----------------------------------------------------------------------------
(* What the code's comments and docs say and the code does not do.         *)

(* "Every store writes to both layers" (memory.py:95): once a store        *)
(* returned and nothing raised, its value is in Postgres until the key is  *)
(* written again.                                                          *)
StoredIsDurable ==
    pgFaults = 0 =>
        \A k \in Keys :
            (~(\E c \in Clients : Writing(c, k)) /\ None \notin latest[k])
                => PgMemory[k] \in latest[k]

(* "True if the key was deleted from at least one layer." (memory.py:426): *)
(* after a delete returned True, and until the next store, the service     *)
(* finds no value for the key.                                             *)
DeletedIsGone ==
    \A k \in removed : redis[k] = None /\ PgMemory[k] = None

=============================================================================
