------------------------------ MODULE MCTurns ------------------------------
(* What answers a shopper, in one run: one turn from its message to its    *)
(* last frame, or the breaker its calls of the storefront go through.      *)
(* They have no state in common, so a behaviour is of one of them.         *)
EXTENDS Turn, Breaker

CONSTANT Parts \* the parts a behaviour may be of

VARIABLE part

MCInit ==
  /\ Init /\ BreakerInit
  /\ part \in Parts /\ (part # "turn" => ~voice /\ arm = "exposed")

MCNext ==
  /\ UNCHANGED part
  /\ \/ part = "turn" /\ Next /\ UNCHANGED breakerVars
     \/ part = "breaker" /\ BreakerNext /\ UNCHANGED vars

(* The fairness of Turn where a turn runs, and of Breaker where its calls. *)
MCSpec ==
  /\ MCInit /\ [][MCNext]_<<part, vars, breakerVars>>
  /\ WF_vars(part = "turn" /\ Progress)
  /\ Fairness

(* Every turn ends its response.                                           *)
TurnsEnd == part = "turn" => TurnEnds
=============================================================================
