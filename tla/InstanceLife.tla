---------------------------- MODULE InstanceLife ---------------------------
(***************************************************************************)
(* What a provider promises about each instance (provider.go): a runner is *)
(* started in a place made for it, keeps that place until it has exited or *)
(* was told to, and leaves nothing behind.                                 *)
(***************************************************************************)
CONSTANT Name
VARIABLE phase

Phase == {"absent",    \* nothing of it exists
          "making",    \* Create prepares its place
          "running",   \* the runner runs
          "leaving",   \* it was told to stop, and still runs
          "done"}      \* only its place is left

Move == {<<"absent", "making">>, <<"making", "absent">>, <<"making", "done">>,
         <<"making", "running">>, <<"running", "leaving">>, <<"running", "done">>,
         <<"leaving", "done">>, <<"leaving", "absent">>, <<"done", "absent">>}

Init == phase = [n \in Name |-> "absent"]

Next ==
  /\ phase' \in [Name -> Phase]
  /\ \A n \in Name : phase'[n] # phase[n] => <<phase[n], phase'[n]>> \in Move

Spec == Init /\ [][Next]_phase
============================================================================
