------------------------- MODULE ControllerConfig -------------------------
(***************************************************************************)
(* What the initialisation binaries promise: a controller's configuration  *)
(* is written for a whole era of baskets at once, without clients, local   *)
(* stores or submissions.  Deployment is shown to implement this module.   *)
(***************************************************************************)
EXTENDS BasketConfig

CONSTANTS Controllers,   \* the controller accounts
          Administered   \* those an admin script can run against

VARIABLE config          \* each one's configuration

Init == config = [a \in Controllers |-> NoConfig]

\* deploy_v5_init writes the first era and leaves slot 11 alone ...
Configure(a) ==
  config' = [config EXCEPT ![a] = Configured(@, "m1", @.recipient)]

\* ... deploy_v6_init one of the others, and names a fee recipient.
ConfigureAndRoute(a) ==
  \E era \in Eras \ {"m1"}, r \in Recipients :
    config' = [config EXCEPT ![a] = Configured(@, era, r)]

Next == \E a \in Administered : Configure(a) \/ ConfigureAndRoute(a)

Spec == Init /\ [][Next]_config

ConfigTypeOK == config \in [Controllers -> Config]

\* No controller is ever configured by halves, whatever runs against it, and
\* one that nobody administers never is.
AllWhole ==
  \A a \in Controllers :
    Whole(config[a]) /\ (a \notin Administered => config[a] = NoConfig)
===========================================================================
