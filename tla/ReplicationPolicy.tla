-------------------------- MODULE ReplicationPolicy --------------------------
(***************************************************************************)
(* Replication requirements (src/model.cpp): the ones a policy form is     *)
(* made with and the ones that take effect.  Requirements are a record     *)
(* [form, minimum, desired, maximum, clusters, regions, failure_domains]:  *)
(* replica counts and the diversity the replica set must have.             *)
(***************************************************************************)
EXTENDS Naturals

CONSTANT CountRange    \* counts are uint32_t: 2^32

ASSUME CountAssumption == CountRange \in Nat /\ CountRange > 4

Form == {"SINGLE", "N_REPLICAS", "REGION_DIVERSE", "CLUSTER_DIVERSE", "POLICY_CUSTOM"}

ReplicationRequirements ==
  [form: Form, minimum: Nat, desired: Nat, maximum: Nat,
   clusters: Nat, regions: Nat, failure_domains: Nat]

AtLeast(n, floor) == IF n < floor THEN floor ELSE n

\* The headroom of the diverse forms is added in uint32_t, where the sum wraps.
make_replication_policy(form, count) ==
  LET one == AtLeast(count, 1)
      two == AtLeast(count, 2)
      Counts(minimum, maximum, clusters, regions) ==
        [form |-> form, minimum |-> minimum, desired |-> minimum, maximum |-> maximum,
         clusters |-> clusters, regions |-> regions, failure_domains |-> 0]
  IN  CASE form = "SINGLE"          -> Counts(1, 1, 0, 0)
        [] form = "CLUSTER_DIVERSE" -> Counts(two, (two + 2) % CountRange, 2, 0)
        [] form = "REGION_DIVERSE"  -> Counts(two, (two + 2) % CountRange, 2, 2)
        [] OTHER                    -> Counts(one, one, 0, 0)

\* What the form itself fixes.
FormRequirements(r) ==
  CASE r.form = "SINGLE" ->
         [form |-> r.form, minimum |-> 1, desired |-> 1, maximum |-> 1,
          clusters |-> 0, regions |-> 0, failure_domains |-> 0]
    [] r.form = "CLUSTER_DIVERSE" -> [r EXCEPT !.clusters = AtLeast(@, 2)]
    [] r.form = "REGION_DIVERSE" ->
         [r EXCEPT !.clusters = AtLeast(@, 2), !.regions = AtLeast(@, 2)]
    [] OTHER -> r

\* Faulty variant: the desired count is not brought down to the maximum.
SettledUnbounded(r) ==
  LET maximum == AtLeast(r.maximum, 1)
      floor == AtLeast(r.minimum, 1)
      minimum == IF floor > maximum THEN maximum ELSE floor
  IN  [r EXCEPT !.maximum = maximum, !.minimum = minimum, !.desired = AtLeast(@, minimum)]

\* The counts, brought in order: 1 <= minimum <= desired <= maximum.
Settled(r) ==
  LET maximum == AtLeast(r.maximum, 1)
      floor == AtLeast(r.minimum, 1)
      minimum == IF floor > maximum THEN maximum ELSE floor
      desired == AtLeast(r.desired, minimum)
  IN  [r EXCEPT !.maximum = maximum, !.minimum = minimum,
                !.desired = IF desired > maximum THEN maximum ELSE desired]

effective_requirements(r) == Settled(FormRequirements(r))
=============================================================================
