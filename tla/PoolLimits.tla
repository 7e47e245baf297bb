----------------------------- MODULE PoolLimits -----------------------------
(***************************************************************************)
(* The limits of one pool: what the configuration says, and what a live    *)
(* override of either changes of it.                                       *)
(***************************************************************************)
EXTENDS Integers

Unset == -1                 \* an override field that is not given (a nil pointer)

(* Mutant: crossed limits are left crossed. *)
MEffectiveLimitsCrossed(conf, override) ==
  [min |-> IF override.min = Unset THEN conf.min ELSE override.min,
   max |-> IF override.max = Unset THEN conf.max ELSE override.max]

(* min is lowered to max when the two cross (no error is raised). *)
EffectiveLimits(conf, override) ==
  LET lo == IF override.min = Unset THEN conf.min ELSE override.min
      hi == IF override.max = Unset THEN conf.max ELSE override.max
  IN  [min |-> IF lo > hi THEN hi ELSE lo, max |-> hi]
=============================================================================
