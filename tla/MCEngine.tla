------------------------------- MODULE MCEngine -------------------------------
(***************************************************************************)
(* The way of an event to a permanent matcher: the registration and the    *)
(* removal of matchers up to the end of the engine, the chain of           *)
(* middleware around each, and a circuit breaker in that chain.  The three *)
(* models share no state, so the initial state chooses one and the others  *)
(* stay as they begin; the instance has the sum of their states.           *)
(***************************************************************************)
EXTENDS HandlerChains, MatcherRegistry, CircuitBreaker, TLC

\* Goroutines, which build chains in one part, delete in another and pass the
\* breaker in the third; two matchers.
CONSTANTS g1, g2, m1, m2

VARIABLE part

engineParts == <<part, chainVars, engineVars, breakerVars>>

\* The matcher whose chain is built begins in a group, which it can leave.
PartsInit ==
  /\ part \in {"chains", "registry", "breaker"}
  /\ ChainInit /\ RegistryInit /\ BreakerInit
  /\ grouped
PartsNext ==
  /\ \/ part = "chains" /\ ChainNext /\ UNCHANGED <<engineVars, breakerVars>>
     \/ part = "registry" /\ RegistryNext /\ UNCHANGED <<chainVars, breakerVars>>
     \/ part = "breaker" /\ BreakerNext /\ UNCHANGED <<chainVars, engineVars>>
  /\ UNCHANGED part

EngineSpec == PartsInit /\ [][PartsNext]_engineParts

\* The chains alone.
ChainsAlone == PartsInit /\ part = "chains" /\ [][PartsNext]_engineParts

\* Events that build the chain are alike, and so are requests, calls that delete
\* and the matchers they delete.
Symmetry == Permutations({g1, g2}) \cup Permutations({m1, m2})
=============================================================================
