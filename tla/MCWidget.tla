------------------------------- MODULE MCWidget -------------------------------
(* One shopper's browser, in one run: the widget, with every interleaving  *)
(* of two presses, two turns and two sentences; one recording, frame by    *)
(* frame; or the cart the session names, with two requests at once.  They  *)
(* have no state in common, so a behaviour is of one of them.              *)
EXTENDS Endpoint, Cart

CONSTANT Parts \* the parts a behaviour may be of

VARIABLE part

MCInit ==
  /\ Init /\ EndpointInit /\ CartInit
  /\ part \in Parts
  /\ part # "endpoint" => ~truth.dead

MCNext ==
  /\ UNCHANGED part
  /\ \/ part = "widget" /\ Next /\ UNCHANGED <<endpointVars, cartVars>>
     \/ part = "endpoint" /\ EndpointNext /\ UNCHANGED <<vars, cartVars>>
     \/ part = "cart" /\ CartNext /\ UNCHANGED <<vars, endpointVars>>

MCSpec == MCInit /\ [][MCNext]_<<part, vars, endpointVars, cartVars>>
=============================================================================
