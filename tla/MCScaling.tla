----------------------------- MODULE MCScaling -----------------------------
(* Bounded inputs for Decision: every combination of queue, live counts, limits  *)
(* and foreign idle runners over three pools that share labels.                  *)
EXTENDS Decision

MCPoolOrder  == <<"gpu", "linux", "arm">>
MCPoolLabels == [gpu   |-> {"linux", "x64", "gpu"},
                 linux |-> {"linux", "x64"},
                 arm   |-> {"linux", "arm"}]
MCJobLabels  == <<{"self-hosted", "linux"}, {"linux", "x64"}, {"gpu"}, {"linux"}, {"windows"}>>
MCJobRepo    == <<"a", "b", "a", "b", "a">>

(* Idle runners of other hosts: on the organisation, and on one repository. *)
SlotKinds == {[labels |-> {"linux", "x64", "self-hosted"}, repo |-> AnyRepo],
              [labels |-> {"linux", "self-hosted", "gpu"}, repo |-> "b"]}
Slots     == {<<>>} \cup {<<s>> : s \in SlotKinds} \cup (SlotKinds \X SlotKinds)

Confs     == {[min |-> lo, max |-> 1] : lo \in 0..1}
Overrides == {[min |-> Unset, max |-> m] : m \in {Unset, 0}} \cup {[min |-> 2, max |-> 2]}

(* live, busy and idle of a pool: starting runners are the rest. *)
States == {s \in [live : 0..2, busy : 0..1, idle : 0..1] : s.busy + s.idle <= s.live}

(* The pools differ in what varies, to keep the product small. *)
ByPool(g, l, a) == [gpu |-> g, linux |-> l, arm |-> a]
NoneLive == [live |-> 0, busy |-> 0, idle |-> 0]
AtMostOne == [min |-> 0, max |-> 1]
Kept == [min |-> Unset, max |-> Unset]

MCInputs ==
  {[queue    |-> Queue(jobs),
    slots    |-> slots,
    state    |-> ByPool(g, l, NoneLive),
    conf     |-> ByPool(AtMostOne, conf, AtMostOne),
    override |-> ByPool(Kept, override, Kept)] :
      jobs \in SUBSET Job, slots \in Slots, conf \in Confs, override \in Overrides,
      g \in {s \in States : s.live <= 1}, l \in States}
===========================================================================
