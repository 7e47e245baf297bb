--------------------------- MODULE DurableLimits ---------------------------
(***************************************************************************)
(* What the overrides promise: limits are changed one pool at a time, each *)
(* change leaves a copy of all of them to be saved, what is saved is one   *)
(* of the copies, whole, and a restart puts in force what was saved.       *)
(*                                                                         *)
(* One change at a time leaves one copy at a time, which is what is in     *)
(* force.  Changes whose copies wait together may be saved in any order,   *)
(* and may leave nothing that can be read.                                 *)
(***************************************************************************)
CONSTANTS Pool, Nothing
VARIABLES
  inForce,
  copies,   \* what is still to be saved
  saved     \* {what a restart will read}, or {} if it can read nothing

AtFirst == [p \in Pool |-> Nothing]

Init == inForce = AtFirst /\ copies = {} /\ saved = {AtFirst}

Change ==
  /\ \E p \in Pool : \A q \in Pool \ {p} : inForce'[q] = inForce[q]
  /\ DOMAIN inForce' = Pool
  /\ copies' = copies \cup {inForce'}
  /\ UNCHANGED saved

(* Saved or not, a copy may be done with. *)
Save ==
  /\ saved' = saved \/ \E c \in copies : saved' \in {{c}, {}}
  /\ copies' \subseteq copies
  /\ UNCHANGED inForce

Restart ==
  /\ inForce' \in IF saved = {} THEN {AtFirst} ELSE saved
  /\ copies' = {}
  /\ UNCHANGED saved

Next == Change \/ Save \/ Restart

Spec == Init /\ [][Next]_<<inForce, copies, saved>>
============================================================================
