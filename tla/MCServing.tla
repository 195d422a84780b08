----------------------------- MODULE MCServing -----------------------------
(* A connection, the MCP servers, the rate limiter and the budgeter on small   *)
(* instances: values of their constants for TLC.  They share no state that any *)
(* of them writes, so each behaviour is of one part; an SSE request comes with  *)
(* a connection of one frame at most.                                          *)
EXTENDS Serving, McpManager, RateLimiter, Context

CONSTANTS k1, k2, k3

VARIABLE part  \* what a behaviour is of

allVars == <<servingVars, mcpVars, limiterVars, contextVars, part>>

MCServers == <<"a", "a__b", "c">>
MCOffers == [s \in {"a", "a__b", "c"} |->
               CASE s = "a" -> {"x", "b__x"} [] s = "a__b" -> {"x"} [] s = "c" -> {"x", "y"}]
MCNamespaced == [s \in DOMAIN MCOffers |-> [t \in MCOffers[s] |-> s \o "__" \o t]]
MCPerMinute == [k \in {k1, k2, k3} |-> CASE k = k1 -> 2 [] k = k2 -> 1 [] k = k3 -> 3]

MCBudgets == 0..5

\* Of the parts a behaviour is not of, the budgeter has its cheapest input.
NoInputs == [budget |-> 0, fixed |-> 0, factual |-> 0, summary |-> 0,
             buffer |-> <<>>, episodic |-> <<>>]

AllInit ==
  /\ part \in {"connection", "stream", "mcp", "limiter", "budgeter"}
  /\ IF part = "budgeter" THEN ContextInit ELSE inputs = NoInputs /\ result = NotYet
  /\ ServingInit /\ McpInit /\ LimiterInit

AllNext ==
  /\ UNCHANGED part
  /\ \/ /\ part \in {"connection", "stream"}
        /\ ServingNext
        /\ IF part = "connection" THEN stream' = "none" ELSE frames' <= 1
        /\ UNCHANGED <<mcpVars, limiterVars, contextVars>>
     \/ /\ part = "mcp"
        /\ McpNext
        /\ UNCHANGED <<servingVars, limiterVars, contextVars>>
     \/ /\ part = "limiter"
        /\ LimiterNext
        /\ UNCHANGED <<servingVars, mcpVars, contextVars>>
     \/ /\ part = "budgeter"
        /\ ContextNext
        /\ UNCHANGED <<servingVars, mcpVars, limiterVars>>

AllSpec == AllInit /\ [][AllNext]_allVars /\ ServingFairness

\* Every part has the state its module says.
PartsTypeOK == ServingTypeOK /\ McpTypeOK /\ LimiterTypeOK /\ ContextTypeOK
=============================================================================
