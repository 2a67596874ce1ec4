------------------------ MODULE MCComponentLifecycle ------------------------
(* Instances of ComponentLifecycle for TLC.                                 *)
EXTENDS ComponentLifecycle

Default == [app |-> TRUE, home |-> TRUE, status |-> TRUE, history |-> FALSE,
            router |-> FALSE, require |-> TRUE]

\* the default, behind a router without a registry, and Home alone in an IceBox
MCConfigs ==
  {Default,
   [Default EXCEPT !.router = TRUE, !.require = FALSE],
   [Default EXCEPT !.app = FALSE, !.status = FALSE]}
=============================================================================
