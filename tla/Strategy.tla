------------------------------ MODULE Strategy ------------------------------
(***************************************************************************)
(* The pure strategy of a pool, packages/automation/src/strategy.ts: which *)
(* endpoints each binding is to be published at.                           *)
(*                                                                         *)
(* Endpoints are numbered in the order of their priority, then of their    *)
(* id, and bindings in the order the reconcile reads them.  The binding    *)
(* handled before another changes what that one finds: the number of       *)
(* bindings of each endpoint and the round-robin cursors are carried from  *)
(* one to the next by Working.                                             *)
(***************************************************************************)
EXTENDS Integers, FiniteSets

CONSTANTS EndpointCount,   \* endpoints of the pool
          BindingCount     \* domain bindings of the pool

Endpoint == 1 .. EndpointCount
Binding == 1 .. BindingCount

ASSUME StrategyAssumption == EndpointCount \in Nat /\ BindingCount \in Nat

NoEndpoint == 0

Health == {"unknown", "healthy", "degraded", "recovering", "unhealthy"}
Trigger == {"failure", "recovery", "configuration", "rebalance", "repair"}
Reason == {"none", "failure", "recovery", "rebalance", "no_healthy_endpoint"}

\* A decision for a binding; "none" where evaluateStrategy pushes nothing.
Decision == [reason : Reason, desired : SUBSET Endpoint]

\* StrategyContext.
Context ==
  [trigger : Trigger,
   strategy : {"primary_backup", "assignment_pool", "healthy_set"},
   selection : {"ordered", "least_assigned", "round_robin", "random"},
   recovery : {"automatic", "delayed", "keep_current", "manual"},
   enabled : [Endpoint -> BOOLEAN],           \* lifecycle
   addressed : [Endpoint -> BOOLEAN],         \* addressFamilies
   health : [Binding -> [Endpoint -> Health]],
   bound : SUBSET Binding,
   applied : [Binding -> SUBSET Endpoint],    \* currentEndpointIds
   original : [Binding -> Endpoint \cup {NoEndpoint}],
   hash : [Binding -> Nat],                   \* stableHash of event and binding
   cursors : [SUBSET Endpoint -> Endpoint \cup {NoEndpoint}]]

HealthyEnough(state) == state \in {"healthy", "degraded"}

\* healthyForBinding.
Candidates(ctx, b) ==
  {e \in Endpoint : /\ ctx.enabled[e]
                    /\ HealthyEnough(ctx.health[b][e])
                    /\ ctx.addressed[e]}

First(S) == CHOOSE e \in S : \A f \in S : e <= f

\* The candidate with k others before it.
Nth(S, k) == CHOOSE e \in S : Cardinality({f \in S : f < e}) = k

LeastAssigned(S, count) ==
  CHOOSE e \in S : \A f \in S : \/ count[e] < count[f]
                                \/ count[e] = count[f] /\ e <= f

\* findIndex gives -1 for a cursor that is no candidate.
AfterCursor(S, cursor) ==
  Nth(S, IF cursor \in S
         THEN (Cardinality({f \in S : f < cursor}) + 1) % Cardinality(S)
         ELSE 0)

\* selectEndpoint; w is what the bindings before this one have left.
SelectEndpoint(ctx, b, S, w) ==
  CASE ctx.selection = "ordered" -> First(S)
    [] ctx.selection = "least_assigned" -> LeastAssigned(S, w.count)
    [] ctx.selection = "random" -> Nth(S, ctx.hash[b] % Cardinality(S))
    [] ctx.selection = "round_robin" -> AfterCursor(S, w.cursors[S])

RecoversOriginal(ctx, b) ==
  /\ ctx.trigger = "recovery"
  /\ ctx.recovery \in {"automatic", "delayed"}
  /\ ctx.original[b] \in Candidates(ctx, b)
  /\ ctx.original[b] \notin ctx.applied[b]

CurrentHealthy(ctx, b) == ctx.applied[b] \cap Candidates(ctx, b) # {}

ShouldSelect(ctx, b) ==
  \/ ctx.trigger \in {"rebalance", "configuration", "repair"}
  \/ ~CurrentHealthy(ctx, b)
  \/ RecoversOriginal(ctx, b)

\* The binding gives up its endpoints before it chooses.
Released(ctx, b, w) ==
  [w EXCEPT !.count = [e \in Endpoint |->
     IF e \in ctx.applied[b] /\ @[e] > 0 THEN @[e] - 1 ELSE @[e]]]

Selected(ctx, b, w) ==
  CASE RecoversOriginal(ctx, b) -> ctx.original[b]
    [] ~RecoversOriginal(ctx, b) /\ ctx.trigger = "repair" /\ CurrentHealthy(ctx, b) ->
         First(ctx.applied[b] \cap Candidates(ctx, b))
    [] OTHER -> SelectEndpoint(ctx, b, Candidates(ctx, b), Released(ctx, b, w))

Selects(ctx, b) ==
  b \in ctx.bound /\ ShouldSelect(ctx, b) /\ Candidates(ctx, b) # {}

\* What the bindings after b find.
AfterBinding(ctx, b, w) ==
  IF ~Selects(ctx, b) THEN w
  ELSE LET e == Selected(ctx, b, w) IN
       [count |-> [Released(ctx, b, w).count EXCEPT ![e] = @ + 1],
        cursors |-> IF ctx.selection = "round_robin"
                    THEN [w.cursors EXCEPT ![Candidates(ctx, b)] = e]
                    ELSE w.cursors]

Working(ctx) ==
  LET before[b \in 1 .. BindingCount + 1] ==
        IF b = 1
        THEN [count |-> [e \in Endpoint |->
                Cardinality({a \in ctx.bound : e \in ctx.applied[a]})],
              cursors |-> ctx.cursors]
        ELSE AfterBinding(ctx, b - 1, before[b - 1])
  IN before

NoDecision == [reason |-> "none", desired |-> {}]
NoHealthyEndpoint(ctx, b) ==
  [reason |-> "no_healthy_endpoint", desired |-> ctx.applied[b]]

\* The decision for a binding that is published at one endpoint.
SingleDecision(ctx, b, w) ==
  LET e == Selected(ctx, b, w) IN
  CASE ~ShouldSelect(ctx, b) -> NoDecision
    [] ShouldSelect(ctx, b) /\ Candidates(ctx, b) = {} -> NoHealthyEndpoint(ctx, b)
    [] OTHER ->
         IF ctx.trigger \notin {"repair", "configuration"} /\ ctx.applied[b] = {e}
         THEN NoDecision
         ELSE [reason |-> CASE RecoversOriginal(ctx, b) -> "recovery"
                            [] ctx.trigger \in {"rebalance", "configuration", "repair"} -> "rebalance"
                            [] OTHER -> "failure",
               desired |-> {e}]

\* evaluateHealthySet.
SetDesired(ctx, b) ==
  LET kept == ctx.applied[b] \cap Candidates(ctx, b) IN
  IF ctx.trigger = "recovery" /\ ctx.recovery \in {"keep_current", "manual"} /\ kept # {}
  THEN kept ELSE Candidates(ctx, b)

SetDecision(ctx, b) ==
  LET desired == SetDesired(ctx, b)
      applies == ctx.trigger \in {"configuration", "repair"} IN
  CASE desired = {} -> NoHealthyEndpoint(ctx, b)
    [] desired # {} /\ ~applies /\ desired = ctx.applied[b] -> NoDecision
    [] OTHER ->
         [reason |-> CASE applies -> "rebalance"
                       [] ~applies /\ Cardinality(desired) > Cardinality(ctx.applied[b]) -> "recovery"
                       [] OTHER -> "failure",
          desired |-> desired]

\* evaluateStrategy: the decision for every binding.
EvaluateStrategy(ctx) ==
  [b \in Binding |->
     CASE b \notin ctx.bound -> NoDecision
       [] b \in ctx.bound /\ ctx.strategy = "healthy_set" -> SetDecision(ctx, b)
       [] OTHER -> SingleDecision(ctx, b, Working(ctx)[b])]

NextCursors(ctx) ==
  IF ctx.selection = "round_robin" /\ ctx.strategy # "healthy_set"
  THEN Working(ctx)[BindingCount + 1].cursors ELSE ctx.cursors
=============================================================================
