----------------------------- MODULE RunnerLife ----------------------------
(***************************************************************************)
(* What the reconcile loop promises about each runner: the life of a name. *)
(*                                                                         *)
(* A runner is claimed on GitHub before it has an instance, loses its      *)
(* registration before it loses its instance, and a runner that works is   *)
(* only ever left alone until it has finished.  Reconcile implements this  *)
(* when GitHub answers the deregistrations and nobody removes instances    *)
(* by hand.                                                                *)
(***************************************************************************)
CONSTANT Name
VARIABLE life

Phase == {"absent",     \* neither registered nor running
          "claimed",    \* registered, no instance
          "starting",   \* registered, its instance not connected
          "ready",      \* online and idle
          "working",    \* executing its job
          "leaving",    \* still running, no longer registered
          "finished"}   \* its instance has exited

Move ==
  (* launching, and giving up on it *)
  {<<"absent", "claimed">>, <<"claimed", "starting">>, <<"claimed", "absent">>,
  (* connecting, losing the connection, being given a job *)
   <<"starting", "ready">>, <<"ready", "starting">>, <<"ready", "working">>,
  (* scale-down and job timeout: the registration goes first *)
   <<"starting", "leaving">>, <<"ready", "leaving">>, <<"leaving", "absent">>,
  (* the runner exits *)
   <<"starting", "finished">>, <<"ready", "finished">>, <<"working", "finished">>,
   <<"leaving", "finished">>,
  (* reaping; the registration of a runner that died may outlive it *)
   <<"finished", "absent">>, <<"finished", "claimed">>}

Init == life = [n \in Name |-> "absent"]

Next ==
  /\ life' \in [Name -> Phase]
  /\ \A n \in Name : life'[n] # life[n] => <<life[n], life'[n]>> \in Move

Spec == Init /\ [][Next]_life
===========================================================================
