---------------------------- MODULE MCLoadBalancer ----------------------------
(***************************************************************************)
(* The instance of LoadBalancer for TLC.  Its two halves, the main thread  *)
(* that redirects browsers and the threads that serve cookies, share no    *)
(* variable: a behaviour exercises one of them.                            *)
(***************************************************************************)
EXTENDS LoadBalancer

MCFrontends == <<"f1", "f2">>

OneHalf ==
  \/ args = None
  \/ /\ \A b \in Browsers : at[b] = Away
     /\ dead = {} /\ \A f \in F : noting[f] = None
===============================================================================
