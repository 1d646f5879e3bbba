----------------------------- MODULE LlmRouter -----------------------------
(***************************************************************************)
(* The model router (services/llm.py): every role has a provider, and a    *)
(* mode other than "single" adds one fallback provider for all roles.  One *)
(* router and one settings object serve all coroutines of a process.       *)
(*                                                                         *)
(* Choosing the profiles runs without an await and is one step.  Asking a  *)
(* provider is several, because the work may be done, and charged, while   *)
(* its answer is lost.  A slot of Calls serves one request after another.  *)
(*                                                                         *)
(* Abstracted: a model is named by its provider and the role, each pair    *)
(* having a setting of its own (core/config.py:81-138); all requests to a  *)
(* model use the same tokens; temperatures, tools and latencies.           *)
(***************************************************************************)
EXTENDS Naturals, Sequences

CONSTANTS Calls,          \* requests in flight
          Roles,          \* planner, worker, classifier
          Providers,      \* those the settings name
          NoProvider,     \* MODEL_FALLBACK_PROVIDER is unset
          Modes,          \* MODEL_ROUTING_MODE
          Prices,         \* what a request to a provider's models costs
          Priced          \* providers whose models are in COST_TABLE

RouterAssumption ==
    /\ NoProvider \notin Providers
    /\ Prices \in [Providers -> Nat]
    /\ Priced \subseteq Providers
    /\ Modes \subseteq {"single", "hybrid", "cost", "latency"}

VARIABLES settings,       \* the routing fields of the settings object
          configured,     \* the same as read at start-up
          keyed,          \* providers whose API key is set
          call            \* the requests

vars == <<settings, configured, keyed, call>>

Models == [of : Providers, role : Roles]
Profiles == [provider : Providers, model : Models]
RoutingFields ==
    [mode : Modes, fallback : Providers \cup {NoProvider},
     chosen : [Roles -> Providers]]
Unused == [pc |-> "idle"]

---------------------------------------------------------------------------
(* Profiles *)

ModelFor(s, r) == [of |-> s.chosen[r], role |-> r]

Profile(s, r) == [provider |-> s.chosen[r], model |-> ModelFor(s, r)]

HasFallback(s, r) ==
    /\ s.mode \in {"hybrid", "cost", "latency"}
    /\ s.fallback \notin {NoProvider, s.chosen[r]}

(* The fallback's model is looked up under settings in which the fallback  *)
(* is the provider of the role.                                            *)
Override(s, r) == [s EXCEPT !.chosen[r] = s.fallback]

(* Seeded fault: the provider of the role is not put back.                 *)
RestoreNot(s, r, orig) == s

Restore(s, r, orig) == [s EXCEPT !.chosen[r] = orig]

Attempts(s, r) ==
    IF HasFallback(s, r) THEN <<Profile(s, r), Profile(Override(s, r), r)>>
    ELSE <<Profile(s, r)>>

SettingsAfter(s, r) ==
    IF HasFallback(s, r) THEN Restore(Override(s, r), r, s.chosen[r]) ELSE s

---------------------------------------------------------------------------
(* Cost *)

COST_TABLE == [m \in {n \in Models : n.of \in Priced} |-> Prices[m.of]]

(* A provider that tells no usage is taken to have used no tokens.         *)
EstimateCost(m, told) ==
    IF told /\ m \in DOMAIN COST_TABLE THEN COST_TABLE[m] ELSE 0

---------------------------------------------------------------------------
(* What of a message reaches a provider.  A message has text; an assistant *)
(* may call tools, and a tool's answer is linked to the call it answers.   *)

Parts(m) ==
    CASE m = "user"      -> {"content"}
      [] m = "assistant" -> {"content", "calls"}
      [] m = "tool"      -> {"content", "link"}

OpenAIPayload(m) == Parts(m)
InvokeOpenAICompat(m) == OpenAIPayload(m)
InvokeAzure(m) == OpenAIPayload(m)
InvokeAnthropic(m) == Parts(m) \ {"calls"}
InvokeGemini(m) == IF m = "tool" THEN {} ELSE {"content"}
InvokeCohere(m) == {"content"}
InvokeOllama(m) == {"content"}
StreamAnthropic(m) == IF m = "tool" THEN {} ELSE {"content"}

Invoke(p, m) ==
    CASE p \in {"openai", "mistral", "groq", "together"} -> InvokeOpenAICompat(m)
      [] p = "azure_openai" -> InvokeAzure(m)
      [] p = "anthropic"    -> InvokeAnthropic(m)
      [] p = "gemini"       -> InvokeGemini(m)
      [] p = "cohere"       -> InvokeCohere(m)
      [] p = "ollama"       -> InvokeOllama(m)

OpenAICompat == {"openai", "groq", "together", "mistral", "azure_openai"}

Stream(p, m) ==
    CASE p = "anthropic"     -> StreamAnthropic(m)
      [] p \in OpenAICompat  -> OpenAIPayload(m)
      [] OTHER               -> Invoke(p, m)

---------------------------------------------------------------------------
(* Requests *)

Ended == {"idle", "returned", "failed", "cancelled"}

Asking(stream, r, ps) ==
    [pc |-> "asking", stream |-> stream, role |-> r, profiles |-> ps,
     tried |-> {Head(ps)}, billed |-> 0, cost |-> 0]

Current(c) == Head(call[c].profiles)

Init ==
    /\ settings \in RoutingFields
    /\ configured = settings
    /\ keyed \in SUBSET Providers
    /\ call = [c \in Calls |-> Unused]

Generate(c, r) ==
    /\ call[c].pc \in Ended
    /\ call' = [call EXCEPT ![c] = Asking(FALSE, r, Attempts(settings, r))]
    /\ settings' = SettingsAfter(settings, r)
    /\ UNCHANGED <<configured, keyed>>

GenerateStream(c, r) ==
    /\ call[c].pc \in Ended
    /\ call' = [call EXCEPT ![c] = Asking(TRUE, r, <<Profile(settings, r)>>)]
    /\ UNCHANGED <<settings, configured, keyed>>

(* An OpenAI-compatible stream is asked for without a key, too.            *)
NeedsKey(c) ==
    /\ Current(c).provider # "ollama"
    /\ call[c].stream => Current(c).provider \notin OpenAICompat

HasKey(c) == Current(c).provider \in keyed

(* The attempt raises: the next profile is asked, if there is one.         *)
AttemptFails(c) ==
    LET rest == Tail(call[c].profiles) IN
    /\ call' = [call EXCEPT ![c] =
                  IF rest = <<>> THEN [@ EXCEPT !.pc = "failed"]
                  ELSE [@ EXCEPT !.pc = "asking", !.profiles = rest,
                                 !.tried = call[c].tried \cup {Head(rest)}]]
    /\ UNCHANGED <<settings, configured, keyed>>

NoKey(c) ==
    /\ call[c].pc = "asking" /\ NeedsKey(c) /\ ~HasKey(c)
    /\ AttemptFails(c)

(* The request is refused or does not arrive.                              *)
Rejected(c) ==
    /\ call[c].pc = "asking" /\ (NeedsKey(c) => HasKey(c))
    /\ AttemptFails(c)

(* The provider does the work and charges for it.                          *)
Worked(c) ==
    /\ call[c].pc = "asking" /\ (NeedsKey(c) => HasKey(c))
    /\ call' = [call EXCEPT ![c].pc = "answered",
                            ![c].billed = @ + Prices[Current(c).provider]]
    /\ UNCHANGED <<settings, configured, keyed>>

(* The answer is late, breaks off or cannot be parsed.                     *)
Lost(c) == call[c].pc = "answered" /\ AttemptFails(c)

Returned(c, told) ==
    /\ call[c].pc = "answered"
    /\ call' = [call EXCEPT ![c].pc = "returned",
                            ![c].cost = IF call[c].stream THEN 0
                                        ELSE EstimateCost(Current(c).model, told)]
    /\ UNCHANGED <<settings, configured, keyed>>

(* CancelledError is no Exception: no other provider is asked.             *)
Cancelled(c) ==
    /\ call[c].pc \in {"asking", "answered"}
    /\ call' = [call EXCEPT ![c].pc = "cancelled"]
    /\ UNCHANGED <<settings, configured, keyed>>

Next == \E c \in Calls :
    \/ \E r \in Roles : Generate(c, r) \/ GenerateStream(c, r)
    \/ NoKey(c) \/ Rejected(c) \/ Worked(c) \/ Lost(c) \/ Cancelled(c)
    \/ \E told \in BOOLEAN : Returned(c, told)

Spec == Init /\ [][Next]_vars

---------------------------------------------------------------------------
(* Settings keep their shape, and a request asks for one of the profiles   *)
(* of its role.                                                            *)
TypeOK ==
    /\ settings \in RoutingFields /\ configured \in RoutingFields
    /\ keyed \subseteq Providers
    /\ \A c \in Calls : call[c].pc # "idle" =>
         /\ call[c].pc \in Ended \cup {"asking", "answered"}
         /\ call[c].profiles \in Seq(Profiles) \ {<<>>}
         /\ call[c].tried \subseteq Profiles
         /\ call[c].cost \in Nat /\ call[c].billed \in Nat

(* The profiles the operator configured for a role: its provider, and the  *)
(* fallback in every mode but "single", each with its own model.           *)
Own(p, r) == [provider |-> p, model |-> [of |-> p, role |-> r]]

ConfiguredFor(r) ==
    {Own(configured.chosen[r], r)} \cup
    {Own(p, r) : p \in IF configured.mode = "single" THEN {}
                       ELSE {configured.fallback} \ {NoProvider}}

(* The fallback is the last resort, and it is one (llm.py:290-330): a      *)
(* request fails only after all that is configured for its role was asked, *)
(* and nobody answers unless the role's own provider was asked.  Requests  *)
(* of other coroutines, which look up their fallback in the same settings, *)
(* change nothing about it.                                                *)
FallbackIsLastResort == \A c \in Calls :
    /\ call[c].pc = "failed" /\ ~call[c].stream =>
         call[c].tried = ConfiguredFor(call[c].role)
    /\ call[c].pc \in {"answered", "returned"} =>
         Own(configured.chosen[call[c].role], call[c].role) \in call[c].tried

---------------------------------------------------------------------------
(* What the code's comments and docs say and the code does not do.         *)

(* "fallback chains" (README.md:79): a stream has no fallback either in    *)
(* the hybrid mode (llm.py:345).                                           *)
StreamsFallBack == \A c \in Calls :
    call[c].pc = "failed" => call[c].tried = ConfiguredFor(call[c].role)

(* "LLMResult cost tracking" (README.md:79): the cost of a result is what  *)
(* the request cost.  It leaves out the attempt whose answer was lost, and *)
(* answers that tell no usage or come from a model not in the table.       *)
CostIsBilled == \A c \in Calls :
    call[c].pc = "returned" /\ ~call[c].stream => call[c].cost = call[c].billed

(* "unified interface" (README.md:79): every provider that answers was     *)
(* sent the whole conversation.                                            *)
InterfaceIsUnified == \A c \in Calls :
    call[c].pc = "returned" => \A m \in {"user", "assistant", "tool"} :
        Parts(m) = IF call[c].stream THEN Stream(Current(c).provider, m)
                   ELSE Invoke(Current(c).provider, m)
=============================================================================
