------------------------------ MODULE MCServing ------------------------------
(***************************************************************************)
(* A small instance of Serving: a process that serves for ever, one that   *)
(* serves upgrade requests and shuts down, and one whose configuration is  *)
(* refused, on a public socket and the upgrade socket.  One client is      *)
(* Persona, on the upgrade socket, and the other is on the public one.     *)
(***************************************************************************)
EXTENDS Serving

MCBound == <<"ordinary", "upgrade">>

MCServes == [d \in Daemons |-> IF d = "forever" THEN Sockets ELSE {"upgrade"}]

MCSocketOf ==
  [c \in Clients |-> IF c = "persona" THEN "upgrade" ELSE "ordinary"]
=============================================================================
