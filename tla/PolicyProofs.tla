---------------------------- MODULE PolicyProofs ----------------------------
(***************************************************************************)
(* Proofs about the policy calculators, for every price, count, weight and *)
(* width of integer: requirements settle, prices are exact, a dearer       *)
(* transfer loses, and the choice among any number of candidates is the    *)
(* best by its rank, in which missing evidence never helps.                *)
(***************************************************************************)
EXTENDS Placement, Economics, ReplicationPolicy, WellFoundedInduction, TLAPS

-----------------------------------------------------------------------------
(* Replication requirements *)

\* Every field of a record of requirements.
LEMMA RequirementFields ==
  ASSUME NEW r \in ReplicationRequirements
  PROVE  /\ r.form \in Form
         /\ r.minimum \in Nat /\ r.desired \in Nat /\ r.maximum \in Nat
         /\ r.clusters \in Nat /\ r.regions \in Nat /\ r.failure_domains \in Nat
         /\ r = [form |-> r.form, minimum |-> r.minimum, desired |-> r.desired,
                 maximum |-> r.maximum, clusters |-> r.clusters, regions |-> r.regions,
                 failure_domains |-> r.failure_domains]
BY Zenon DEF ReplicationRequirements

\* Bringing the counts in order: the result, its order, and that it is done once.
LEMMA SettledOrder ==
  ASSUME NEW r \in ReplicationRequirements
  PROVE  /\ Settled(r) \in ReplicationRequirements
         /\ 1 <= Settled(r).minimum
         /\ Settled(r).minimum <= Settled(r).desired
         /\ Settled(r).desired <= Settled(r).maximum
         /\ Settled(r).form = r.form /\ Settled(r).clusters = r.clusters
         /\ Settled(r).regions = r.regions /\ Settled(r).failure_domains = r.failure_domains
<1> DEFINE maximum == AtLeast(r.maximum, 1)
           floor == AtLeast(r.minimum, 1)
           minimum == IF floor > maximum THEN maximum ELSE floor
           wanted == AtLeast(r.desired, minimum)
           desired == IF wanted > maximum THEN maximum ELSE wanted
<1>1. /\ maximum \in Nat /\ minimum \in Nat /\ desired \in Nat
      /\ 1 <= minimum /\ minimum <= desired /\ desired <= maximum
  BY RequirementFields DEF AtLeast
<1>2. Settled(r) = [r EXCEPT !.maximum = maximum, !.minimum = minimum, !.desired = desired]
  BY Zenon DEF Settled
<1> HIDE DEF maximum, floor, minimum, wanted, desired
<1>3. Settled(r) = [form |-> r.form, minimum |-> minimum, desired |-> desired,
                    maximum |-> maximum, clusters |-> r.clusters, regions |-> r.regions,
                    failure_domains |-> r.failure_domains]
  BY <1>2, RequirementFields, ZenonT(30)
<1> QED  BY <1>1, <1>3, RequirementFields DEF ReplicationRequirements

\* Counts that are in order are left as they are.
LEMMA SettledOnce ==
  ASSUME NEW r \in ReplicationRequirements,
         1 <= r.minimum, r.minimum <= r.desired, r.desired <= r.maximum
  PROVE  Settled(r) = r
<1>1. /\ AtLeast(r.maximum, 1) = r.maximum /\ AtLeast(r.minimum, 1) = r.minimum
      /\ AtLeast(r.desired, r.minimum) = r.desired
      /\ ~(r.minimum > r.maximum) /\ ~(r.desired > r.maximum)
  BY RequirementFields DEF AtLeast
<1>2. Settled(r) = [r EXCEPT !.maximum = r.maximum, !.minimum = r.minimum, !.desired = r.desired]
  BY <1>1, Zenon DEF Settled
<1> QED  BY <1>2, RequirementFields, Zenon

\* What a form fixes is itself a record of requirements.
LEMMA FormRequirementsType ==
  ASSUME NEW r \in ReplicationRequirements
  PROVE  /\ FormRequirements(r) \in ReplicationRequirements
         /\ FormRequirements(r).form = r.form
<1>1. AtLeast(r.clusters, 2) \in Nat /\ AtLeast(r.regions, 2) \in Nat
  BY RequirementFields, Zenon DEF AtLeast
<1>2. CASE r.form = "SINGLE"
  BY <1>2, RequirementFields, Zenon DEF FormRequirements, ReplicationRequirements
<1>3. CASE r.form = "CLUSTER_DIVERSE"
  BY <1>1, <1>3, RequirementFields, Zenon DEF FormRequirements, ReplicationRequirements
<1>4. CASE r.form = "REGION_DIVERSE"
  BY <1>1, <1>4, RequirementFields, Zenon DEF FormRequirements, ReplicationRequirements
<1>5. CASE r.form \notin {"SINGLE", "CLUSTER_DIVERSE", "REGION_DIVERSE"}
  BY <1>5, Zenon DEF FormRequirements
<1> QED  BY <1>2, <1>3, <1>4, <1>5, Zenon

\* The requirements that take effect (ReplicationPolicyRecord::effective_requirements) can be
\* satisfied by some number of replicas: 1 <= minimum <= desired <= maximum.
THEOREM EffectiveCountsAreOrdered ==
  ASSUME NEW r \in ReplicationRequirements
  PROVE  LET e == effective_requirements(r)
         IN  /\ e \in ReplicationRequirements
             /\ 1 <= e.minimum /\ e.minimum <= e.desired /\ e.desired <= e.maximum
BY FormRequirementsType, SettledOrder, Zenon DEF effective_requirements

\* A form fixes nothing in requirements that already have what it fixes.
LEMMA FormRequirementsOnce ==
  ASSUME NEW r \in ReplicationRequirements,
         r.form = "SINGLE" => /\ r.minimum = 1 /\ r.desired = 1 /\ r.maximum = 1
                              /\ r.clusters = 0 /\ r.regions = 0 /\ r.failure_domains = 0,
         r.form \in {"CLUSTER_DIVERSE", "REGION_DIVERSE"} => r.clusters >= 2,
         r.form = "REGION_DIVERSE" => r.regions >= 2
  PROVE  FormRequirements(r) = r
<1>1. /\ r.clusters >= 2 => AtLeast(r.clusters, 2) = r.clusters
      /\ r.regions >= 2 => AtLeast(r.regions, 2) = r.regions
  BY RequirementFields DEF AtLeast
<1>2. CASE r.form = "SINGLE"
  BY <1>2, RequirementFields, Zenon DEF FormRequirements
<1>3. CASE r.form = "CLUSTER_DIVERSE"
  BY <1>1, <1>3, RequirementFields, Zenon DEF FormRequirements
<1>4. CASE r.form = "REGION_DIVERSE"
  BY <1>1, <1>4, RequirementFields, Zenon DEF FormRequirements
<1>5. CASE r.form \notin {"SINGLE", "CLUSTER_DIVERSE", "REGION_DIVERSE"}
  BY <1>5, Zenon DEF FormRequirements
<1> QED  BY <1>2, <1>3, <1>4, <1>5, Zenon

\* What a form does fix.
LEMMA FormRequirementsFix ==
  ASSUME NEW r \in ReplicationRequirements
  PROVE  LET f == FormRequirements(r) IN
         /\ r.form = "SINGLE" => /\ f.minimum = 1 /\ f.desired = 1 /\ f.maximum = 1
                                 /\ f.clusters = 0 /\ f.regions = 0 /\ f.failure_domains = 0
         /\ r.form \in {"CLUSTER_DIVERSE", "REGION_DIVERSE"} => f.clusters >= 2
         /\ r.form = "REGION_DIVERSE" => f.regions >= 2
<1>1. AtLeast(r.clusters, 2) >= 2 /\ AtLeast(r.regions, 2) >= 2
  BY RequirementFields DEF AtLeast
<1>2. CASE r.form = "SINGLE"
  <2>1. FormRequirements(r) =
          [form |-> r.form, minimum |-> 1, desired |-> 1, maximum |-> 1,
           clusters |-> 0, regions |-> 0, failure_domains |-> 0]
    BY <1>2, Zenon DEF FormRequirements
  <2> QED  BY <1>2, <2>1
<1>3. CASE r.form = "CLUSTER_DIVERSE"
  <2>1. FormRequirements(r) = [r EXCEPT !.clusters = AtLeast(r.clusters, 2)]
    BY <1>3, Zenon DEF FormRequirements
  <2>2. FormRequirements(r).clusters = AtLeast(r.clusters, 2)
    BY <2>1, RequirementFields, Zenon
  <2> QED  BY <1>1, <1>3, <2>2, Zenon
<1>4. CASE r.form = "REGION_DIVERSE"
  <2>1. FormRequirements(r) = [r EXCEPT !.clusters = AtLeast(r.clusters, 2),
                                        !.regions = AtLeast(r.regions, 2)]
    BY <1>4, Zenon DEF FormRequirements
  <2>2. /\ FormRequirements(r).clusters = AtLeast(r.clusters, 2)
        /\ FormRequirements(r).regions = AtLeast(r.regions, 2)
    BY <2>1, RequirementFields, Zenon
  <2> QED  BY <1>1, <1>4, <2>2, Zenon
<1>5. CASE r.form \notin {"SINGLE", "CLUSTER_DIVERSE", "REGION_DIVERSE"}
  BY <1>5, Zenon
<1> QED  BY <1>2, <1>3, <1>4, <1>5, Zenon

\* Requirements that took effect take effect unchanged: recomputing them when a policy
\* record is read back cannot drift.
THEOREM EffectiveRequirementsAreFinal ==
  ASSUME NEW r \in ReplicationRequirements
  PROVE  effective_requirements(effective_requirements(r)) = effective_requirements(r)
<1> DEFINE f == FormRequirements(r)
           e == Settled(f)
<1>1. f \in ReplicationRequirements /\ f.form = r.form
  BY FormRequirementsType, Zenon
<1>2. /\ e \in ReplicationRequirements /\ e.form = r.form
      /\ 1 <= e.minimum /\ e.minimum <= e.desired /\ e.desired <= e.maximum
      /\ e.clusters = f.clusters /\ e.regions = f.regions
      /\ e.failure_domains = f.failure_domains
  BY <1>1, SettledOrder, Zenon
<1>3. r.form = "SINGLE" => e = f
  <2> SUFFICES ASSUME r.form = "SINGLE" PROVE e = f
    BY Zenon
  <2>1. f.minimum = 1 /\ f.desired = 1 /\ f.maximum = 1
    BY FormRequirementsFix, Zenon
  <2> QED  BY <1>1, <2>1, SettledOnce
<1>4. FormRequirements(e) = e
  <2> HIDE DEF e, f
  <2>1. /\ r.form = "SINGLE" =>
             /\ e.minimum = 1 /\ e.desired = 1 /\ e.maximum = 1
             /\ e.clusters = 0 /\ e.regions = 0 /\ e.failure_domains = 0
        /\ r.form \in {"CLUSTER_DIVERSE", "REGION_DIVERSE"} => e.clusters >= 2
        /\ r.form = "REGION_DIVERSE" => e.regions >= 2
    BY <1>2, <1>3, FormRequirementsFix, Zenon DEF f
  <2> QED  BY <1>2, <2>1, FormRequirementsOnce, Zenon
<1>5. Settled(e) = e
  BY <1>2, SettledOnce, Zenon
<1> QED  BY <1>4, <1>5, Zenon DEF effective_requirements

\* The forms whose maximum is the count and two more, added in uint32_t.
DiverseForm == {"CLUSTER_DIVERSE", "REGION_DIVERSE"}

\* Every policy that make_replication_policy returns is in effect as it stands, as long as the
\* headroom that a diverse form adds to its count does not wrap in uint32_t
\* (src/model.cpp, make_replication_policy).
THEOREM MadePolicyIsEffective ==
  ASSUME NEW form \in Form, NEW count \in Nat, form \in DiverseForm => count + 2 < CountRange
  PROVE  LET p == make_replication_policy(form, count)
         IN  p \in ReplicationRequirements /\ effective_requirements(p) = p
<1> DEFINE p == make_replication_policy(form, count)
<1>0. form \in DiverseForm => (AtLeast(count, 2) + 2) % CountRange = AtLeast(count, 2) + 2
  BY CountAssumption DEF AtLeast
<1>1. /\ AtLeast(count, 1) \in Nat /\ AtLeast(count, 1) >= 1
      /\ AtLeast(count, 2) \in Nat /\ AtLeast(count, 2) >= 2
  BY DEF AtLeast
<1>2. /\ p \in ReplicationRequirements /\ p.form = form
      /\ 1 <= p.minimum /\ p.minimum <= p.desired /\ p.desired <= p.maximum
      /\ form = "SINGLE" => /\ p.minimum = 1 /\ p.desired = 1 /\ p.maximum = 1
                            /\ p.clusters = 0 /\ p.regions = 0 /\ p.failure_domains = 0
      /\ form \in {"CLUSTER_DIVERSE", "REGION_DIVERSE"} => p.clusters >= 2
      /\ form = "REGION_DIVERSE" => p.regions >= 2
  <2>1. CASE form = "SINGLE"
    BY <2>1 DEF make_replication_policy, ReplicationRequirements
  <2>2. CASE form = "CLUSTER_DIVERSE"
    <3> DEFINE two == AtLeast(count, 2)
    <3>1. p = [form |-> form, minimum |-> two, desired |-> two, maximum |-> two + 2,
               clusters |-> 2, regions |-> 0, failure_domains |-> 0]
      BY <1>0, <2>2, Zenon DEF make_replication_policy, DiverseForm
    <3> HIDE DEF p, two
    <3> QED  BY <1>1, <2>2, <3>1 DEF ReplicationRequirements, two
  <2>3. CASE form = "REGION_DIVERSE"
    <3> DEFINE two == AtLeast(count, 2)
    <3>1. p = [form |-> form, minimum |-> two, desired |-> two, maximum |-> two + 2,
               clusters |-> 2, regions |-> 2, failure_domains |-> 0]
      BY <1>0, <2>3, Zenon DEF make_replication_policy, DiverseForm
    <3> HIDE DEF p, two
    <3> QED  BY <1>1, <2>3, <3>1 DEF ReplicationRequirements, two
  <2>4. CASE form \notin {"SINGLE", "CLUSTER_DIVERSE", "REGION_DIVERSE"}
    BY <1>1, <2>4 DEF make_replication_policy, ReplicationRequirements
  <2> QED  BY <2>1, <2>2, <2>3, <2>4, Zenon
<1> HIDE DEF p
<1>3. FormRequirements(p) = p
  BY <1>2, FormRequirementsOnce, Zenon
<1>4. Settled(p) = p
  BY <1>2, SettledOnce, Zenon
<1>5. p \in ReplicationRequirements /\ effective_requirements(p) = p
  BY <1>2, <1>3, <1>4, Zenon DEF effective_requirements
<1> QED  BY <1>5, Zenon DEF p

\* From the two greatest counts on, the headroom wraps to a maximum of zero or one, and what
\* takes effect of a diverse policy is a single replica.
THEOREM WrappedPolicyIsSingle ==
  ASSUME NEW form \in DiverseForm, NEW count \in CountRange - 2 .. CountRange - 1
  PROVE  LET e == effective_requirements(make_replication_policy(form, count))
         IN  e.minimum = 1 /\ e.desired = 1 /\ e.maximum = 1
<1> DEFINE p == make_replication_policy(form, count)
           wrapped == (count + 2) % CountRange
<1>1. /\ count \in Nat /\ count >= 2 /\ AtLeast(count, 2) = count
      /\ wrapped \in {0, 1}
  BY CountAssumption DEF AtLeast
<1>2. p = [form |-> form, minimum |-> count, desired |-> count, maximum |-> wrapped,
           clusters |-> 2, regions |-> p.regions, failure_domains |-> 0]
      /\ p.regions \in {0, 2}
  <2>1. CASE form = "CLUSTER_DIVERSE"
    BY <1>1, <2>1, Zenon DEF make_replication_policy
  <2>2. CASE form = "REGION_DIVERSE"
    BY <1>1, <2>2, Zenon DEF make_replication_policy
  <2> QED  BY <2>1, <2>2, Zenon DEF DiverseForm
<1> HIDE DEF p, wrapped
<1>3. /\ p \in ReplicationRequirements /\ p.form = form
      /\ p.minimum = count /\ p.desired = count /\ p.maximum = wrapped
  BY <1>1, <1>2 DEF ReplicationRequirements, Form, DiverseForm
<1>4. /\ FormRequirements(p).minimum = count /\ FormRequirements(p).desired = count
      /\ FormRequirements(p).maximum = wrapped
  BY <1>3, Zenon DEF FormRequirements, DiverseForm, ReplicationRequirements
<1>5. FormRequirements(p) \in ReplicationRequirements
  BY <1>3, FormRequirementsType, Zenon
<1> DEFINE f == FormRequirements(p)
<1> HIDE DEF f
<1>6. Settled(f).minimum = 1 /\ Settled(f).desired = 1 /\ Settled(f).maximum = 1
  <2>1. /\ f \in ReplicationRequirements /\ f.minimum = count /\ f.desired = count
        /\ f.maximum = wrapped
    BY <1>4, <1>5, Zenon DEF f
  <2> QED  BY <1>1, <2>1 DEF Settled, AtLeast, ReplicationRequirements
<1> QED  BY <1>6, Zenon DEF effective_requirements, f, p

\* The effective requirements ask no less diversity than was asked.
LEMMA EffectiveDiversity ==
  ASSUME NEW r \in ReplicationRequirements, r.form # "SINGLE"
  PROVE  /\ effective_requirements(r).clusters >= r.clusters
         /\ effective_requirements(r).regions >= r.regions
         /\ effective_requirements(r).failure_domains >= r.failure_domains
<1> DEFINE f == FormRequirements(r)
<1>1. r.clusters \in Nat /\ r.regions \in Nat /\ r.failure_domains \in Nat
  BY Zenon DEF ReplicationRequirements
<1>2. /\ f.clusters \in {r.clusters, AtLeast(r.clusters, 2)}
      /\ f.regions \in {r.regions, AtLeast(r.regions, 2)}
      /\ f.failure_domains = r.failure_domains
  <2>1. CASE r.form = "CLUSTER_DIVERSE"
    <3>1. f = [r EXCEPT !.clusters = AtLeast(@, 2)]
      BY <2>1, Zenon DEF FormRequirements
    <3> QED  BY <3>1, Zenon DEF ReplicationRequirements
  <2>2. CASE r.form = "REGION_DIVERSE"
    <3>1. f = [r EXCEPT !.clusters = AtLeast(@, 2), !.regions = AtLeast(@, 2)]
      BY <2>2, Zenon DEF FormRequirements
    <3> QED  BY <3>1, Zenon DEF ReplicationRequirements
  <2>3. CASE r.form \notin {"SINGLE", "CLUSTER_DIVERSE", "REGION_DIVERSE"}
    BY <2>3, Zenon DEF FormRequirements
  <2> QED  BY <2>1, <2>2, <2>3, Zenon
<1>3. f \in ReplicationRequirements
  BY FormRequirementsType, Zenon
<1> HIDE DEF f
<1>4. /\ effective_requirements(r).clusters = f.clusters
      /\ effective_requirements(r).regions = f.regions
      /\ effective_requirements(r).failure_domains = f.failure_domains
  BY <1>3, SettledOrder, Zenon DEF effective_requirements, f
<1>5. /\ f.clusters >= r.clusters /\ f.regions >= r.regions
      /\ f.failure_domains >= r.failure_domains
  BY <1>1, <1>2 DEF AtLeast
<1> QED  BY <1>4, <1>5, Zenon

-----------------------------------------------------------------------------
(* Prices *)

\* Saturation keeps the order of sums and stays in range.
LEMMA SaturationKeepsOrder ==
  ASSUME NEW a \in Int64, NEW b \in Int64, NEW c \in Int64, a <= b
  PROVE  /\ saturating_add(a, c) <= saturating_add(b, c)
         /\ saturating_add(c, a) <= saturating_add(c, b)
         /\ saturating_add(a, c) \in Int64
BY CostAssumption DEF saturating_add, Clamp, Int64, MinInt

\* b is the price a, or a dearer one on the same evidence.
Dearer(a, b) == /\ known(a) /\ b.source = a.source
                /\ a.micro_units <= b.micro_units

\* The fields of a price.
LEMMA PriceFields ==
  ASSUME NEW a \in CostValue
  PROVE  a.source \in CostSource /\ a.micro_units \in Int64
BY Zenon DEF CostValue

\* A total with a dearer component is unknown as before, or dearer on the same evidence.
LEMMA DearerSum ==
  ASSUME NEW a \in CostValue, NEW b \in CostValue, NEW c \in CostValue, Dearer(a, b)
  PROVE  /\ known(cost_sum(a, c)) <=> known(cost_sum(b, c))
         /\ known(cost_sum(a, c)) => Dearer(cost_sum(a, c), cost_sum(b, c))
         /\ known(cost_sum(c, a)) <=> known(cost_sum(c, b))
         /\ known(cost_sum(c, a)) => Dearer(cost_sum(c, a), cost_sum(c, b))
<1>1. /\ a.micro_units \in Int64 /\ b.micro_units \in Int64 /\ c.micro_units \in Int64
      /\ a.source = b.source /\ known(a) /\ known(b) /\ Present(a) /\ Present(b)
      /\ a.micro_units <= b.micro_units
  BY PriceFields, Zenon DEF Dearer, known, Present
<1>2. CASE ~Present(c)
  <2>1. /\ cost_sum(a, c) = a /\ cost_sum(b, c) = b
        /\ cost_sum(c, a) = a /\ cost_sum(c, b) = b
    BY <1>1, <1>2, Zenon DEF cost_sum
  <2> QED  BY <1>1, <2>1, Zenon
<1>3. CASE Present(c) /\ ~known(c)
  <2>1. /\ cost_sum(a, c) = unknown /\ cost_sum(b, c) = unknown
        /\ cost_sum(c, a) = unknown /\ cost_sum(c, b) = unknown
    BY <1>1, <1>3, Zenon DEF cost_sum, cost_add
  <2> QED  BY <2>1 DEF known, unknown
<1>4. CASE Present(c) /\ known(c)
  <2> DEFINE weaker(x, y) == IF source_rank(x.source) <= source_rank(y.source)
                               THEN x.source ELSE y.source
             total(x, y) == Price(weaker(x, y), saturating_add(x.micro_units, y.micro_units))
  <2>1. /\ cost_sum(a, c) = total(a, c) /\ cost_sum(b, c) = total(b, c)
        /\ cost_sum(c, a) = total(c, a) /\ cost_sum(c, b) = total(c, b)
    BY <1>1, <1>4, Zenon DEF cost_sum, cost_add
  <2>2. weaker(a, c) = weaker(b, c) /\ weaker(c, a) = weaker(c, b)
    BY <1>1, Zenon
  <2>3. weaker(a, c) # "UNKNOWN" /\ weaker(c, a) # "UNKNOWN"
    BY <1>1, <1>4, Zenon DEF known
  <2>4. /\ saturating_add(a.micro_units, c.micro_units) <= saturating_add(b.micro_units, c.micro_units)
        /\ saturating_add(c.micro_units, a.micro_units) <= saturating_add(c.micro_units, b.micro_units)
    BY <1>1, SaturationKeepsOrder, Zenon
  <2> HIDE DEF weaker
  <2> QED  BY <2>1, <2>2, <2>3, <2>4 DEF Price, Dearer, known
<1> QED  BY <1>2, <1>3, <1>4, Zenon

\* The scaled price of cost_scale is computed without overflow: where it is known, the
\* product it divides is in the range of the integers.
THEOREM ScaledPriceFits ==
  ASSUME NEW value \in CostValue, NEW numerator \in Nat, NEW denominator \in Nat,
         known(cost_scale(value, numerator, denominator))
  PROVE  value.micro_units * numerator \in Int64
<1>1. value.micro_units \in Int /\ MaxInt \in Nat
  BY PriceFields, CostAssumption DEF Int64, MinInt
<1>2. CASE numerator = 0
  BY <1>1, <1>2, CostAssumption DEF Int64, MinInt
<1>3. CASE numerator # 0
  <2> DEFINE q == MaxInt \div numerator
             m == Magnitude(value.micro_units)
  <2>1. m <= q /\ m \in Nat /\ q \in Nat
    BY <1>1, <1>3 DEF cost_scale, unknown, known, Magnitude
  <2>2. q * numerator <= MaxInt
    BY <1>1, <1>3
  <2> HIDE DEF q
  <2>3. m * numerator <= q * numerator
    BY <2>1
  <2>4. m * numerator <= MaxInt
    BY <1>1, <2>1, <2>2, <2>3
  <2> QED  BY <1>1, <2>4 DEF Magnitude, Int64, MinInt
<1> QED  BY <1>2, <1>3, Zenon

\* A quotient is no larger than what is divided.
LEMMA QuotientFits ==
  ASSUME NEW a \in Int64, NEW b \in Nat \ {0}
  PROVE  Quotient(a, b) \in Int64
<1>1. a \in Int /\ b \in Int /\ b > 0 /\ MaxInt \in Nat
  BY CostAssumption DEF Int64, MinInt
<1>2. ASSUME NEW x \in Nat PROVE x \div b \in Nat /\ x \div b <= x
  BY <1>1
<1>3. CASE a >= 0
  BY <1>1, <1>2, <1>3 DEF Quotient, Int64, MinInt
<1>4. CASE a < 0
  <2>1. -a \in Nat
    BY <1>1, <1>4
  <2>2. (-a) \div b \in Nat /\ (-a) \div b <= -a
    BY <1>2, <2>1, Zenon
  <2> DEFINE q == (-a) \div b
  <2>3. Quotient(a, b) = -q
    BY <1>1, <1>4 DEF Quotient
  <2> HIDE DEF q
  <2>4. q \in Nat /\ q <= -a
    BY <2>2, Zenon DEF q
  <2> QED  BY <1>1, <1>4, <2>3, <2>4 DEF Int64, MinInt
<1> QED  BY <1>1, <1>3, <1>4

\* A price that is known is the exact product, rounded toward zero, and fits.
LEMMA PriceIsExact ==
  ASSUME NEW source \in CostSource, NEW unit \in Int64, NEW size \in SizeValue, size.known,
         known(price_bytes(source, unit, size))
  PROVE  /\ price_bytes(source, unit, size).micro_units = Quotient(unit * size.bytes, Mib)
         /\ price_bytes(source, unit, size).micro_units \in Int64
<1>1. /\ unit \in Int /\ size.bytes \in Nat /\ Mib \in Nat \ {0} /\ MaxInt \in Nat
      /\ source # "UNKNOWN" /\ 0 \in Int64
  BY CostAssumption DEF Int64, MinInt, SizeValue, price_bytes, known, unknown
<1>2. CASE unit = 0
  <2>1. Quotient(0, Mib) = 0
    BY <1>1 DEF Quotient
  <2>2. unit * size.bytes = 0
    BY <1>1, <1>2
  <2> QED  BY <1>1, <1>2, <2>1, <2>2, Zenon DEF price_bytes, Price
<1>3. CASE unit # 0
  <2> DEFINE price == Price(source, unit)
  <2>1. price \in CostValue /\ price.micro_units = unit /\ price.source = source
    BY Zenon DEF Price, CostValue
  <2>2. price_bytes(source, unit, size) = cost_scale(price, size.bytes, Mib)
    BY <1>1, <1>3, Zenon DEF price_bytes
  <2> HIDE DEF price
  <2>3. unit * size.bytes \in Int64
    BY <1>1, <2>1, <2>2, ScaledPriceFits, Zenon
  <2>4. cost_scale(price, size.bytes, Mib).micro_units = Quotient(unit * size.bytes, Mib)
    BY <2>1, <2>2 DEF cost_scale, known, unknown, Price
  <2> QED  BY <1>1, <2>2, <2>3, <2>4, QuotientFits, Zenon
<1> QED  BY <1>2, <1>3, Zenon

-----------------------------------------------------------------------------
(* Transfer or reconstruction *)

\* The inputs of a decision: hard preconditions, and four prices.
EconomicInputs ==
  [destination_healthy: BOOLEAN, source_healthy: BOOLEAN,
   destination_capacity_sufficient: BOOLEAN, reconstruction_available: BOOLEAN,
   maximum_transfer_ticks: Nat, predicted_transfer_ticks: Nat,
   expected_reuse: ReuseValue,
   transfer_cost: CostValue, egress_cost: CostValue,
   reconstruction_cost: CostValue, compute_cost: CostValue]

\* The sum of two prices is a price.
LEMMA SumType ==
  ASSUME NEW a \in CostValue, NEW b \in CostValue
  PROVE  cost_sum(a, b) \in CostValue
<1>1. unknown \in CostValue
  BY CostAssumption DEF unknown, CostValue, CostSource, Int64, MinInt
<1>2. saturating_add(a.micro_units, b.micro_units) \in Int64
  <2>1. a.micro_units \in Int64 /\ b.micro_units \in Int64 /\ a.micro_units <= a.micro_units
    BY PriceFields DEF Int64, MinInt
  <2> QED  BY <2>1, SaturationKeepsOrder, Zenon
<1>3. cost_add(a, b) \in CostValue
  BY <1>1, <1>2, PriceFields, Zenon DEF cost_add, Price, CostValue
<1> QED  BY <1>3, Zenon DEF cost_sum

\* A price that is dearer than one that loses a comparison loses it too.
LEMMA DearerLoses ==
  ASSUME NEW a \in CostValue, NEW b \in CostValue, NEW c \in CostValue,
         Dearer(a, b), known(c), cost_compare(a, c) > 0
  PROVE  cost_compare(b, c) > 0
<1>1. /\ a.micro_units \in Int /\ b.micro_units \in Int /\ c.micro_units \in Int
      /\ a.source = b.source /\ known(a) /\ known(b) /\ a.micro_units <= b.micro_units
  BY PriceFields DEF Dearer, known, Int64, MinInt
<1>2. a.micro_units >= c.micro_units
  BY <1>1 DEF cost_compare
<1>3. CASE b.micro_units > c.micro_units
  BY <1>1, <1>3 DEF cost_compare
<1>4. CASE b.micro_units = c.micro_units
  <2>1. a.micro_units = b.micro_units
    BY <1>1, <1>2, <1>4
  <2> QED  BY <1>1, <1>4, <2>1, Zenon DEF cost_compare
<1> QED  BY <1>1, <1>2, <1>3, <1>4

\* A dearer transfer never turns the choice to reconstruct into the choice to replicate.
LEMMA DearerTotalKeepsChoice ==
  ASSUME NEW i, NEW j,
         transfer_total(i) \in CostValue, transfer_total(j) \in CostValue,
         reconstruction_total(i) \in CostValue,
         reconstruction_total(j) = reconstruction_total(i),
         known(transfer_total(i)) <=> known(transfer_total(j)),
         known(transfer_total(i)) => Dearer(transfer_total(i), transfer_total(j)),
         Cheaper(i) = "RECONSTRUCT"
  PROVE  Cheaper(j) = "RECONSTRUCT"
<1>1. CASE ~known(transfer_total(i))
  BY <1>1, Zenon DEF Cheaper
<1>2. CASE known(transfer_total(i))
  <2>1. /\ known(reconstruction_total(i))
        /\ cost_compare(transfer_total(i), reconstruction_total(i)) > 0
    BY <1>2, Zenon DEF Cheaper
  <2>2. cost_compare(transfer_total(j), reconstruction_total(i)) > 0
    BY <1>2, <2>1, DearerLoses, Zenon
  <2> QED  BY <1>2, <2>1, <2>2, Zenon DEF Cheaper
<1> QED  BY <1>1, <1>2, Zenon

\* decide_action prefers reconstruction no less when the transfer, or its egress, becomes
\* dearer on the same evidence, whatever the prices and also where the totals saturate.
THEOREM DearerTransferIsNeverPreferred ==
  ASSUME NEW i \in EconomicInputs, NEW p \in CostValue,
         NEW field \in {"transfer_cost", "egress_cost"}, Dearer(i[field], p),
         decide_action(i) = "RECONSTRUCT"
  PROVE  decide_action([i EXCEPT ![field] = p]) = "RECONSTRUCT"
<1> DEFINE j == [i EXCEPT ![field] = p]
<1>1. /\ i.transfer_cost \in CostValue /\ i.egress_cost \in CostValue
      /\ i.reconstruction_cost \in CostValue /\ i.compute_cost \in CostValue
  BY Zenon DEF EconomicInputs
<1>2. /\ j.reconstruction_cost = i.reconstruction_cost /\ j.compute_cost = i.compute_cost
      /\ j.destination_healthy = i.destination_healthy /\ j.source_healthy = i.source_healthy
      /\ j.destination_capacity_sufficient = i.destination_capacity_sufficient
      /\ j.reconstruction_available = i.reconstruction_available
      /\ j.maximum_transfer_ticks = i.maximum_transfer_ticks
      /\ j.predicted_transfer_ticks = i.predicted_transfer_ticks
      /\ j.expected_reuse = i.expected_reuse
  BY Zenon DEF EconomicInputs
<1>3. \/ j.transfer_cost = p /\ j.egress_cost = i.egress_cost /\ Dearer(i.transfer_cost, p)
      \/ j.transfer_cost = i.transfer_cost /\ j.egress_cost = p /\ Dearer(i.egress_cost, p)
  BY Zenon DEF EconomicInputs
<1> HIDE DEF j
<1>4. /\ transfer_total(i) \in CostValue /\ transfer_total(j) \in CostValue
      /\ reconstruction_total(i) \in CostValue
      /\ reconstruction_total(j) = reconstruction_total(i)
  BY <1>1, <1>2, <1>3, SumType, Zenon DEF transfer_total, reconstruction_total
<1>5. /\ known(transfer_total(i)) <=> known(transfer_total(j))
      /\ known(transfer_total(i)) => Dearer(transfer_total(i), transfer_total(j))
  BY <1>1, <1>3, DearerSum DEF transfer_total
<1>6. i.reconstruction_available /\ Cheaper(i) = "RECONSTRUCT"
  BY Zenon DEF decide_action
<1>7. Cheaper(j) = "RECONSTRUCT"
  BY <1>4, <1>5, <1>6, DearerTotalKeepsChoice, Zenon
<1>8. decide_action(j) = Cheaper(j)
  BY <1>2, <1>6, Zenon DEF decide_action
<1> QED  BY <1>7, <1>8, Zenon DEF j

-----------------------------------------------------------------------------
(* Ranking *)

\* A scored candidate, as evaluate_placement orders them.
Ranked == [cluster: Nat, score: Int64, diversity: Nat, affinity: Nat]

\* Its fields, of which the order compares integers.
LEMMA RankedFields ==
  ASSUME NEW a \in Ranked
  PROVE  a.cluster \in Int /\ a.score \in Int /\ a.diversity \in Int /\ a.affinity \in Int
BY CostAssumption DEF Ranked, Int64, MinInt

\* The comparator of evaluate_placement is a strict order, total on different clusters: what
\* std::sort requires of it.
THEOREM BeforeIsStrictOrder ==
  ASSUME NEW a \in Ranked, NEW b \in Ranked, NEW c \in Ranked
  PROVE  /\ ~Before(a, a)
         /\ Before(a, b) /\ Before(b, c) => Before(a, c)
         /\ a.cluster # b.cluster => Before(a, b) \/ Before(b, a)
BY RankedFields DEF Before

\* No two candidates are both unbeaten, so the one that is chosen does not depend on the
\* order in which the candidates were listed.
THEOREM ChoiceIsUnique ==
  ASSUME NEW S \in SUBSET Ranked, \A x, y \in S : x.cluster = y.cluster => x = y,
         NEW a \in S, NEW b \in S,
         \A x \in S : ~Before(x, a), \A x \in S : ~Before(x, b)
  PROVE  a = b
<1>1. a \in Ranked /\ b \in Ranked /\ ~Before(a, b) /\ ~Before(b, a)
  BY Zenon
<1>2. a.cluster = b.cluster
  BY <1>1, BeforeIsStrictOrder, Zenon
<1> QED  BY <1>2, Zenon

\* A factor without evidence contributes no more than the same factor with any evidence,
\* whatever the sign and the size of its weight, in a build that tests for overflow.
THEOREM MissingEvidenceScoresWorst ==
  ASSUME NEW weight \in Int64, NEW value \in 0 .. FixedOne
  PROVE  contribution("tests overflow", weight, Unknown)
           <= contribution("tests overflow", weight, Known(value))
<1>1. /\ weight \in Int /\ value \in Int /\ FixedOne \in Int /\ MaxInt \in Nat
      /\ 0 <= value /\ value <= FixedOne
  BY CostAssumption, PlacementAssumption DEF Int64, MinInt
<1> DEFINE worst == IF weight >= 0 THEN 0 ELSE FixedOne
<1>2. /\ normalized_value(weight, Unknown) = worst
      /\ normalized_value(weight, Known(value)) = value
  BY Zenon DEF normalized_value, Unknown, Known
<1>3. weight * worst <= weight * value
  <2>1. CASE weight >= 0
    <3>1. weight * 0 = 0 /\ weight * value >= 0
      BY <1>1, <2>1
    <3> QED  BY <2>1, <3>1, Zenon
  <2>2. CASE weight < 0
    <3>1. weight * FixedOne <= weight * value
      BY <1>1, <2>2
    <3> QED  BY <1>1, <2>2, <3>1
  <2> QED  BY <1>1, <2>1, <2>2
<1>4. /\ weight * worst \in Int /\ weight * value \in Int
  BY <1>1
<1>5. Clamp(weight * worst) <= Clamp(weight * value)
  <2> DEFINE x == weight * worst
             y == weight * value
  <2>1. x \in Int /\ y \in Int /\ x <= y
    BY <1>3, <1>4, Zenon
  <2> HIDE DEF x, y
  <2>2. Clamp(x) <= Clamp(y)
    BY <1>1, <2>1 DEF Clamp, MinInt
  <2> QED  BY <2>2, Zenon DEF x, y
<1>6. /\ contribution("tests overflow", weight, Unknown) = Clamp(weight * worst)
      /\ contribution("tests overflow", weight, Known(value)) = Clamp(weight * value)
  BY <1>2, Zenon DEF contribution, saturating_mul
<1> QED  BY <1>5, <1>6, Zenon

-----------------------------------------------------------------------------
(* Requests *)

\* What the score and the constraints read of a candidate.
CandidateField ==
  {"cluster", "expected_reuse", "transfer_cost", "reconstruction_cost", "storage_cost",
   "compute_cost", "inbound", "predicted_transfer_ticks", "region_affinity", "affinity_score",
   "existing_replica_count", "expected_future_demand", "source_cluster_healthy", "health",
   "utilization", "in_flight_operations", "live", "region", "failure_domain", "tags",
   "already_hosts_current_replica", "storage_classes", "encryption_at_rest", "attestation",
   "compatibility", "integrity_evidence_available", "achievable_durability", "logical_size",
   "used", "total", "evidence"}

Candidate(c) ==
  /\ CandidateField \subseteq DOMAIN c
  /\ c.cluster \in Nat /\ c.expected_reuse \in ReuseValue
  /\ c.transfer_cost \in CostValue /\ c.reconstruction_cost \in CostValue
  /\ c.storage_cost \in CostValue /\ c.compute_cost \in CostValue
  /\ c.inbound \in Nat /\ c.predicted_transfer_ticks \in Nat /\ c.region_affinity \in Nat
  /\ c.affinity_score \in Nat /\ c.existing_replica_count \in Nat
  /\ c.expected_future_demand \in Nat /\ c.utilization \in Nat /\ c.in_flight_operations \in Nat

\* What a request asks of every candidate.
Terms == {"constraints", "weights", "destination_rules", "required_diversity", "state",
          "intent", "now", "members"}

Candidates(s) == /\ \E n \in Nat : DOMAIN s = 1 .. n
                 /\ \A i \in DOMAIN s : Candidate(s[i])

PlacementRequest(request) ==
  /\ Terms \cup {"candidates"} \subseteq DOMAIN request
  /\ RankingFactor \subseteq DOMAIN request.weights
  /\ \A factor \in RankingFactor : request.weights[factor] \in Int64
  /\ request.state.expected_reuse \in ReuseValue
  /\ Candidates(request.candidates)

-----------------------------------------------------------------------------
(* Totals *)

\* Every nonempty set of numbers has a least one.
LEMMA LeastNumber ==
  ASSUME NEW S \in SUBSET Nat, S # {}
  PROVE  Least(S) \in S /\ \A x \in S : Least(S) <= x
<1>1. PICK m \in S : \A x \in S : ~(<<x, m>> \in OpToRel(<, Nat))
  BY WFMin, NatLessThanWellFounded, Zenon
<1>2. \A x \in S : ~(x < m)
  BY <1>1, Zenon DEF OpToRel
<1>3. \A x \in S : m <= x
  BY <1>2
<1> QED  BY <1>3, Zenon DEF Least

\* What holds of 0 and of the successor of every number it holds of holds of every number.
LEMMA ByInduction ==
  ASSUME NEW S, 0 \in S, \A n \in Nat : n \in S => n + 1 \in S
  PROVE  \A n \in Nat : n \in S
<1> DEFINE Rest == {n \in Nat : n \notin S}
<1>1. SUFFICES ASSUME Rest # {} PROVE FALSE
  BY Zenon
<1>2. Least(Rest) \in Rest /\ \A x \in Rest : Least(Rest) <= x
  BY <1>1, LeastNumber, Zenon
<1> DEFINE m == Least(Rest)
<1>3. m \in Nat /\ m # 0
  BY <1>2, Zenon
<1>4. m - 1 \in Nat /\ m - 1 \notin Rest
  <2> HIDE DEF m
  <2>1. \A x \in Rest : m <= x
    BY <1>2, Zenon DEF m
  <2> QED  BY <1>3, <2>1
<1>5. m - 1 \in S
  BY <1>4, Zenon
<1>6. (m - 1) + 1 = m
  BY <1>3
<1> QED  BY <1>2, <1>4, <1>5, <1>6, Zenon

\* The totals up to the n-th contribution.
IsTotal(s, n, t) ==
  t = [i \in 0 .. n |-> IF i = 0 THEN 0 ELSE saturating_add(t[i - 1], s[i])]

\* There are such totals.
LEMMA TotalsExist ==
  ASSUME NEW s, NEW n \in Nat
  PROVE  \E t : IsTotal(s, n, t)
<1> DEFINE S == {m \in Nat : \E t : IsTotal(s, m, t)}
<1>1. 0 \in S
  <2> DEFINE t == [i \in 0 .. 0 |-> 0]
  <2>1. IsTotal(s, 0, t)
    BY DEF IsTotal
  <2> QED  BY <2>1, Zenon
<1>2. ASSUME NEW m \in Nat, m \in S PROVE m + 1 \in S
  <2>1. PICK t : IsTotal(s, m, t)
    BY <1>2, Zenon
  <2> DEFINE u == [i \in 0 .. m + 1 |-> IF i = m + 1 THEN saturating_add(t[m], s[m + 1]) ELSE t[i]]
             v == [i \in 0 .. m + 1 |-> IF i = 0 THEN 0 ELSE saturating_add(u[i - 1], s[i])]
  <2>2. ASSUME NEW i \in 0 .. m + 1 PROVE u[i] = v[i]
    <3>1. CASE i = m + 1
      <4>1. u[i] = saturating_add(t[m], s[m + 1]) /\ m \in 0 .. m + 1 /\ m # m + 1 /\ u[m] = t[m]
        BY <3>1
      <4>2. i # 0 /\ i - 1 = m
        BY <3>1
      <4> QED  BY <3>1, <4>1, <4>2, Zenon
    <3>2. CASE i # m + 1 /\ i # 0
      <4>1. i \in 0 .. m /\ i - 1 \in 0 .. m + 1 /\ i - 1 # m + 1 /\ i - 1 \in 0 .. m
        BY <3>2
      <4>2. t[i] = saturating_add(t[i - 1], s[i])
        BY <2>1, <3>2, <4>1, Zenon DEF IsTotal
      <4>3. u[i] = t[i] /\ u[i - 1] = t[i - 1]
        BY <3>2, <4>1, Zenon
      <4> QED  BY <3>2, <4>2, <4>3, Zenon
    <3>3. CASE i # m + 1 /\ i = 0
      <4>1. 0 \in 0 .. m /\ t[0] = 0
        BY <2>1 DEF IsTotal
      <4> QED  BY <3>3, <4>1, Zenon
    <3> QED  BY <3>1, <3>2, <3>3, Zenon
  <2>3. u = v
    BY <2>2, Zenon
  <2>4. IsTotal(s, m + 1, u)
    BY <2>3, Zenon DEF IsTotal
  <2> QED  BY <2>4
<1> HIDE DEF S
<1>3. n \in S
  BY <1>1, <1>2, ByInduction, Zenon
<1> QED  BY <1>3, Zenon DEF S

\* What RunningTotals computes.
LEMMA RunningTotalsRule ==
  ASSUME NEW s, Len(s) \in Nat
  PROVE  /\ RunningTotals(s)[0] = 0
         /\ \A i \in Nat : i < Len(s) =>
              RunningTotals(s)[i + 1] = saturating_add(RunningTotals(s)[i], s[i + 1])
<1>1. RunningTotals(s) = CHOOSE total : total =
        [i \in 0 .. Len(s) |-> IF i = 0 THEN 0 ELSE saturating_add(total[i - 1], s[i])]
  BY Zenon DEF RunningTotals
<1>2. RunningTotals(s) = CHOOSE total : IsTotal(s, Len(s), total)
  BY <1>1, Zenon DEF IsTotal
<1>3. IsTotal(s, Len(s), RunningTotals(s))
  BY <1>2, TotalsExist, Zenon
<1> DEFINE t == RunningTotals(s)
<1> HIDE DEF t
<1>4. t = [i \in 0 .. Len(s) |-> IF i = 0 THEN 0 ELSE saturating_add(t[i - 1], s[i])]
  BY <1>3, Zenon DEF t, IsTotal
<1>5. t[0] = 0
  BY <1>4
<1>6. ASSUME NEW i \in Nat, i < Len(s) PROVE t[i + 1] = saturating_add(t[i], s[i + 1])
  <2>1. i + 1 \in 0 .. Len(s) /\ i + 1 # 0 /\ (i + 1) - 1 = i
    BY <1>6
  <2> QED  BY <1>4, <2>1, Zenon
<1> QED  BY <1>5, <1>6, Zenon DEF t

\* Smaller contributions have a smaller total, also where the totals saturate.
LEMMA TotalsAreMonotone ==
  ASSUME NEW s, NEW t, NEW n \in Nat, Len(s) = n, Len(t) = n,
         \A i \in 1 .. n : s[i] \in Int64 /\ t[i] \in Int64 /\ s[i] <= t[i]
  PROVE  /\ RunningTotals(s)[n] \in Int64 /\ RunningTotals(t)[n] \in Int64
         /\ RunningTotals(s)[n] <= RunningTotals(t)[n]
<1> DEFINE x == RunningTotals(s)
           y == RunningTotals(t)
           S == {m \in Nat : m <= n => x[m] \in Int64 /\ y[m] \in Int64 /\ x[m] <= y[m]}
<1>1. /\ x[0] = 0 /\ y[0] = 0
      /\ \A i \in Nat : i < n => /\ x[i + 1] = saturating_add(x[i], s[i + 1])
                                 /\ y[i + 1] = saturating_add(y[i], t[i + 1])
  BY RunningTotalsRule, Zenon
<1> HIDE DEF x, y
<1>2. 0 \in S
  BY <1>1, CostAssumption DEF Int64, MinInt
<1>3. ASSUME NEW m \in Nat, m \in S PROVE m + 1 \in S
  <2> SUFFICES ASSUME m + 1 <= n
               PROVE  x[m + 1] \in Int64 /\ y[m + 1] \in Int64 /\ x[m + 1] <= y[m + 1]
    OBVIOUS
  <2>1. /\ x[m] \in Int64 /\ y[m] \in Int64 /\ x[m] <= y[m] /\ m < n /\ m + 1 \in 1 .. n
    BY <1>3
  <2>2. s[m + 1] \in Int64 /\ t[m + 1] \in Int64 /\ s[m + 1] <= t[m + 1]
    BY <2>1, Zenon
  <2>3. /\ x[m + 1] = saturating_add(x[m], s[m + 1])
        /\ y[m + 1] = saturating_add(y[m], t[m + 1])
    BY <1>1, <2>1, Zenon
  <2> DEFINE a == x[m]
             b == y[m]
             c == s[m + 1]
             d == t[m + 1]
  <2>4. a \in Int64 /\ b \in Int64 /\ c \in Int64 /\ d \in Int64 /\ a <= b /\ c <= d
    BY <2>1, <2>2, Zenon
  <2> HIDE DEF a, b, c, d
  <2>5. saturating_add(a, c) \in Int64 /\ saturating_add(b, d) \in Int64
        /\ saturating_add(a, c) <= saturating_add(b, d)
    BY <2>4, CostAssumption DEF saturating_add, Clamp, Int64, MinInt
  <2> QED  BY <2>3, <2>5, Zenon DEF a, b, c, d
<1> HIDE DEF S
<1>4. n \in S
  BY <1>2, <1>3, ByInduction, Zenon
<1> QED  BY <1>4 DEF S, x, y

-----------------------------------------------------------------------------
(* Scores *)

FactorInput == [unknown: BOOLEAN, normalized: 0 .. FixedOne]

\* A quotient is bounded by what its divisor is multiplied with.
LEMMA QuotientBound ==
  ASSUME NEW a \in Nat, NEW d \in Nat \ {0}, NEW f \in Nat, a <= d * f
  PROVE  a \div d \in 0 .. f
<1> DEFINE q == a \div d
<1>1. q \in Nat /\ d * q <= a
  OBVIOUS
<1> HIDE DEF q
<1>2. d * q <= d * f /\ d \in Nat /\ d >= 1 /\ q \in Nat
  BY <1>1
<1>3. ASSUME q > f PROVE FALSE
  <2>1. q >= f + 1
    BY <1>1, <1>3
  <2>2. d * q >= d * (f + 1)
    BY <1>2, <2>1
  <2>3. d * (f + 1) = d * f + d
    BY <1>2
  <2>4. d * f \in Nat /\ d * q \in Nat
    BY <1>2
  <2> QED  BY <1>2, <2>2, <2>3, <2>4
<1> QED  BY <1>1, <1>3 DEF q

\* Every normalized quantity is a share of FixedOne.
LEMMA Shares ==
  /\ FixedOne \in Nat \ {0} /\ 0 \in 0 .. FixedOne /\ FixedOne \in 0 .. FixedOne
  /\ FixedOne \div 2 \in 0 .. FixedOne /\ FixedOne \div 4 \in 0 .. FixedOne
  /\ \A value \in Nat : \A cap \in Nat \ {0} : normalize_u64(value, cap) \in 0 .. FixedOne
  /\ \A cost \in CostValue : normalize_cost(cost) \in 0 .. FixedOne
  /\ \A value \in Nat : CappedAt(value, FixedOne) \in 0 .. FixedOne
  /\ \A value \in Nat : Idle(value) \in 0 .. FixedOne
<1>1. FixedOne \in Nat \ {0} /\ CostCap \in Nat \ {0}
  BY PlacementAssumption, Zenon
<1>2. ASSUME NEW value \in Nat, NEW cap \in Nat \ {0}, value <= cap
      PROVE  (value * FixedOne) \div cap \in 0 .. FixedOne
  <2>1. value * FixedOne \in Nat /\ value * FixedOne <= cap * FixedOne
    BY <1>1, <1>2
  <2> QED  BY <1>1, <2>1, QuotientBound, Zenon
<1>3. ASSUME NEW value \in Nat, NEW cap \in Nat \ {0}
      PROVE  normalize_u64(value, cap) \in 0 .. FixedOne
  BY <1>1, <1>2 DEF normalize_u64
<1>4. ASSUME NEW cost \in CostValue PROVE normalize_cost(cost) \in 0 .. FixedOne
  <2>1. Magnitude(cost.micro_units) \in Nat
    BY PriceFields, CostAssumption DEF Magnitude, Int64, MinInt
  <2> QED  BY <1>1, <1>2, <2>1 DEF normalize_cost
<1>5. ASSUME NEW value \in Nat
      PROVE  CappedAt(value, FixedOne) \in 0 .. FixedOne /\ Idle(value) \in 0 .. FixedOne
  <2>1. CappedAt(value, FixedOne) \in 0 .. FixedOne
    BY <1>1 DEF CappedAt
  <2>2. CappedAt(value, 1000) \in Nat /\ CappedAt(value, 1000) <= 1000
    BY DEF CappedAt
  <2> DEFINE busy == (CappedAt(value, 1000) * FixedOne) \div 1000
  <2>3. busy \in 0 .. FixedOne
    BY <1>2, <2>2
  <2>4. Idle(value) = FixedOne - busy
    BY Zenon DEF Idle
  <2> HIDE DEF busy
  <2> QED  BY <1>1, <2>1, <2>3, <2>4
<1>6. FixedOne \div 2 \in 0 .. FixedOne /\ FixedOne \div 4 \in 0 .. FixedOne
  BY <1>1
<1>7. 0 \in 0 .. FixedOne /\ FixedOne \in 0 .. FixedOne
  BY <1>1
<1> QED  BY <1>1, <1>3, <1>4, <1>5, <1>6, <1>7, Zenon

\* The least of the diversity scores is one of them.
LEMMA DiversityShare ==
  ASSUME NEW c, NEW request
  PROVE  Least({diversity_score(c, request, a) : a \in Attribute}) \in 0 .. FixedOne
<1> DEFINE S == {diversity_score(c, request, a) : a \in Attribute}
<1>1. \A a : diversity_score(c, request, a) \in 0 .. FixedOne
  BY Shares, Zenon DEF diversity_score
<1>2. S \subseteq 0 .. FixedOne /\ S # {}
  BY <1>1, Zenon DEF Attribute
<1>3. S \in SUBSET Nat
  BY <1>2, Shares
<1> HIDE DEF S
<1>4. Least(S) \in S
  BY <1>2, <1>3, LeastNumber, Zenon
<1> QED  BY <1>2, <1>4, Zenon DEF S

\* The inputs of the score: a factor, and a share of FixedOne unless it is unknown.
LEMMA FactorTypes ==
  ASSUME NEW c, Candidate(c), NEW request, request.state.expected_reuse \in ReuseValue
  PROVE  /\ Len(FactorInputs(c, request)) = 16
         /\ \A i \in 1 .. 16 : /\ FactorInputs(c, request)[i][1] \in RankingFactor
                               /\ FactorInputs(c, request)[i][2] \in FactorInput
         /\ FactorInputs(c, request)[11][2].normalized \in 0 .. FixedOne
         /\ FactorInputs(c, request)[8][2].normalized \in 0 .. FixedOne
<1>1. Unknown \in FactorInput /\ \A value \in 0 .. FixedOne : Known(value) \in FactorInput
  BY Shares, Zenon DEF Unknown, Known, FactorInput
<1>2. \A cost \in CostValue : CostFactor(cost) \in FactorInput
  BY <1>1, Shares, Zenon DEF CostFactor
<1>3. \A value \in ReuseValue : ReuseFactor(value) \in FactorInput
  <2>1. ASSUME NEW value \in ReuseValue PROVE expected_value_milli(value) \in Nat
    BY CostAssumption DEF expected_value_milli, ReuseValue, MaxUint
  <2> QED  BY <1>1, <2>1, Shares, PlacementAssumption, Zenon DEF ReuseFactor
<1> DEFINE v1 == IF known(c.expected_reuse) THEN ReuseFactor(c.expected_reuse)
                 ELSE IF known(request.state.expected_reuse)
                   THEN ReuseFactor(request.state.expected_reuse)
                 ELSE Unknown
           v2 == CostFactor(c.transfer_cost)
           v3 == CostFactor(c.reconstruction_cost)
           v4 == Known(normalize_u64(c.inbound, BandwidthCap))
           v5 == Known(normalize_u64(c.predicted_transfer_ticks, DurationCap))
           v6 == CostFactor(c.storage_cost)
           v7 == CostFactor(c.compute_cost)
           v8 == Known(CappedAt(c.region_affinity, FixedOne))
           v9 == Known(CappedAt(c.affinity_score, FixedOne))
           v10 == Known(IF c.existing_replica_count > 0 THEN FixedOne ELSE 0)
           v11 == Known(Least({diversity_score(c, request, a) : a \in Attribute}))
           v12 == Known(CappedAt(c.expected_future_demand, FixedOne))
           v13 == Known(IF c.source_cluster_healthy THEN FixedOne ELSE 0)
           v14 == Known(health_score(c.health))
           v15 == Known(Idle(c.utilization))
           v16 == Known(Idle(c.in_flight_operations))
<1>4. v1 \in FactorInput /\ v2 \in FactorInput /\ v3 \in FactorInput
      /\ v6 \in FactorInput /\ v7 \in FactorInput
  BY <1>1, <1>2, <1>3, Zenon DEF Candidate
<1>5. v4 \in FactorInput /\ v5 \in FactorInput
  BY <1>1, Shares, PlacementAssumption, Zenon DEF Candidate
<1>6. v8 \in FactorInput /\ v9 \in FactorInput /\ v12 \in FactorInput
      /\ v15 \in FactorInput /\ v16 \in FactorInput
  BY <1>1, Shares, Zenon DEF Candidate
<1>7. v10 \in FactorInput /\ v11 \in FactorInput /\ v13 \in FactorInput
  BY <1>1, Shares, DiversityShare, Zenon
<1>8. v14 \in FactorInput
  BY <1>1, Shares, Zenon DEF health_score
<1>9. FactorInputs(c, request) =
        << <<"expected_reuse_value", v1>>, <<"transfer_cost", v2>>, <<"reconstruction_cost", v3>>,
           <<"available_bandwidth", v4>>, <<"predicted_transfer_duration", v5>>,
           <<"storage_cost", v6>>, <<"compute_cost", v7>>, <<"region_affinity", v8>>,
           <<"workload_affinity", v9>>, <<"existing_replica_proximity", v10>>,
           <<"failure_domain_diversity", v11>>, <<"expected_future_demand", v12>>,
           <<"source_health", v13>>, <<"destination_health", v14>>, <<"pressure", v15>>,
           <<"utilization", v16>> >>
  BY Zenon DEF FactorInputs
<1> HIDE DEF v1, v2, v3, v4, v5, v6, v7, v8, v9, v10, v11, v12, v13, v14, v15, v16
<1>10. /\ Len(FactorInputs(c, request)) = 16
       /\ FactorInputs(c, request)[11][2] = v11 /\ FactorInputs(c, request)[8][2] = v8
  BY <1>9
<1>11. \A i \in 1 .. 16 : /\ FactorInputs(c, request)[i][1] \in RankingFactor
                          /\ FactorInputs(c, request)[i][2] \in FactorInput
  BY <1>4, <1>5, <1>6, <1>7, <1>8, <1>9 DEF RankingFactor
<1> QED  BY <1>6, <1>7, <1>10, <1>11, Zenon DEF FactorInput

\* A product is clamped, or wrapped, into the range of the integers; one that fits is kept.
LEMMA ProductFits ==
  ASSUME NEW build \in Build, NEW a \in Int, NEW b \in Int
  PROVE  /\ saturating_mul(build, a, b) \in Int64
         /\ a * b \in Int64 => saturating_mul(build, a, b) = a * b
<1> DEFINE x == a * b
<1>1. x \in Int /\ MaxInt \in Nat
  BY CostAssumption
<1>2. saturating_mul(build, a, b) \in {Clamp(x), Wrap(x)}
  BY Zenon DEF saturating_mul
<1> HIDE DEF x
<1>3. Clamp(x) \in Int64 /\ (x \in Int64 => Clamp(x) = x)
  BY <1>1 DEF Clamp, Int64, MinInt
<1>4. Wrap(x) \in Int64 /\ (x \in Int64 => Wrap(x) = x)
  <2> DEFINE y == x + MaxInt + 1
             w == MaxUint + 1
  <2>1. y \in Int /\ w \in Nat \ {0} /\ w = 2 * MaxInt + 2 /\ Wrap(x) = (y % w) - MaxInt - 1
    BY <1>1 DEF Wrap, MaxUint
  <2>2. x = y - MaxInt - 1
    BY <1>1
  <2> HIDE DEF y, w
  <2>3. y % w \in 0 .. w - 1
    BY <2>1
  <2>4. y \in 0 .. w - 1 => y % w = y
    BY <2>1
  <2>5. Wrap(x) \in Int64
    BY <1>1, <2>1, <2>3 DEF Int64, MinInt
  <2>6. x \in Int64 => y \in 0 .. w - 1
    BY <1>1, <2>1, <2>2 DEF Int64, MinInt
  <2> QED  BY <1>1, <2>1, <2>2, <2>4, <2>5, <2>6, Zenon
<1> QED  BY <1>2, <1>3, <1>4, Zenon DEF x

\* What a factor contributes is an integer.
LEMMA ContributionType ==
  ASSUME NEW build \in Build, NEW weight \in Int64, NEW input \in FactorInput
  PROVE  contribution(build, weight, input) \in Int64
<1>1. weight \in Int
  BY CostAssumption DEF Int64, MinInt
<1>2. normalized_value(weight, input) \in Int
  BY Shares DEF normalized_value, FactorInput
<1> QED  BY <1>1, <1>2, ProductFits, Zenon DEF contribution

\* What the factors contribute to the score of a candidate.
Contributions(build, c, request) ==
  [i \in 1 .. 16 |-> contribution(build, request.weights[FactorInputs(c, request)[i][1]],
                                  FactorInputs(c, request)[i][2])]

Rank == [cluster: Nat, score: Int64, diversity: 0 .. FixedOne, affinity: 0 .. FixedOne]

\* The fields of a rank.
LEMMA RankFields ==
  ASSUME NEW a \in Rank
  PROVE  /\ a.cluster \in Nat /\ a.score \in Int64 /\ a.diversity \in 0 .. FixedOne
         /\ a.affinity \in 0 .. FixedOne /\ a \in Ranked
BY Shares DEF Rank, Ranked

\* They are bounded numbers.
LEMMA RankNumbers ==
  ASSUME NEW a \in Rank
  PROVE  /\ a.score \in Int /\ a.score <= MaxInt
         /\ a.diversity \in Int /\ a.diversity <= FixedOne
         /\ a.affinity \in Int /\ a.affinity <= FixedOne
         /\ a.cluster \in Nat
<1>1. a.score \in Int /\ a.score <= MaxInt
  BY RankFields, CostAssumption DEF Int64, MinInt
<1>2. FixedOne \in Nat
  BY Shares, Zenon
<1> QED  BY <1>1, <1>2, RankFields

\* The score is the total of the contributions.
LEMMA ScoreRule ==
  ASSUME NEW build \in Build, NEW c, Candidate(c), NEW request,
         request.state.expected_reuse \in ReuseValue,
         \A factor \in RankingFactor : request.weights[factor] \in Int64
  PROVE  /\ \A i \in 1 .. 16 : Contributions(build, c, request)[i] \in Int64
         /\ Len(Contributions(build, c, request)) = 16
         /\ score_candidate(build, c, request) =
              [cluster |-> c.cluster, score |-> RunningTotals(Contributions(build, c, request))[16],
               diversity |-> FactorInputs(c, request)[11][2].normalized,
               affinity |-> FactorInputs(c, request)[8][2].normalized]
         /\ score_candidate(build, c, request) \in Rank
<1> DEFINE s == Contributions(build, c, request)
<1>1. \A i \in 1 .. 16 : s[i] \in Int64
  BY FactorTypes, ContributionType, Zenon DEF Contributions
<1>2. Len(s) = 16
  BY DEF Contributions
<1>3. score_candidate(build, c, request) =
        [cluster |-> c.cluster, score |-> RunningTotals(s)[16],
         diversity |-> FactorInputs(c, request)[11][2].normalized,
         affinity |-> FactorInputs(c, request)[8][2].normalized]
  <2>1. Len(FactorInputs(c, request)) = 16
    BY FactorTypes, Zenon
  <2> QED  BY <2>1, Zenon DEF score_candidate, Contributions
<1> HIDE DEF s
<1>4. \A i \in 1 .. 16 : s[i] <= s[i]
  BY <1>1 DEF Int64, MinInt
<1>5. RunningTotals(s)[16] \in Int64
  BY <1>1, <1>2, <1>4, TotalsAreMonotone, Zenon
<1>6. c.cluster \in Nat
  BY Zenon DEF Candidate
<1>7. score_candidate(build, c, request) \in Rank
  BY <1>3, <1>5, <1>6, FactorTypes DEF Rank
<1> QED  BY <1>1, <1>2, <1>3, <1>7, Zenon DEF s

-----------------------------------------------------------------------------
(* The choice *)

\* A bounded quantity is greatest somewhere.
LEMMA Greatest ==
  ASSUME NEW S, S # {}, NEW f, NEW bound \in Int, \A x \in S : f[x] \in Int /\ f[x] <= bound
  PROVE  \E x \in S : \A y \in S : f[y] <= f[x]
<1> DEFINE D == {bound - f[x] : x \in S}
<1>1. D \in SUBSET Nat /\ D # {}
  OBVIOUS
<1>2. Least(D) \in D /\ \A d \in D : Least(D) <= d
  BY <1>1, LeastNumber, Zenon
<1>3. PICK x \in S : Least(D) = bound - f[x]
  BY <1>2, Zenon
<1>4. ASSUME NEW y \in S PROVE f[y] <= f[x]
  <2>1. bound - f[x] <= bound - f[y]
    BY <1>2, <1>3, Zenon
  <2> QED  BY <2>1
<1> QED  BY <1>4, Zenon

\* Among ranked candidates some one is beaten by none.
LEMMA SomeUnbeaten ==
  ASSUME NEW A, A # {}, NEW rank, \A i \in A : rank[i] \in Rank
  PROVE  \E i \in A : \A j \in A : ~Before(rank[j], rank[i])
<1>1. \A i \in A : /\ rank[i].score \in Int /\ rank[i].score <= MaxInt
                   /\ rank[i].diversity \in Int /\ rank[i].diversity <= FixedOne
                   /\ rank[i].affinity \in Int /\ rank[i].affinity <= FixedOne
                   /\ rank[i].cluster \in Nat
  BY RankNumbers, Zenon
<1>2. MaxInt \in Int /\ FixedOne \in Int
  BY Shares, CostAssumption
<1> DEFINE score == [i \in A |-> rank[i].score]
           S1 == {i \in A : \A j \in A : rank[j].score <= rank[i].score}
<1>3. S1 # {} /\ S1 \subseteq A
  <2>1. \A i \in A : score[i] \in Int /\ score[i] <= MaxInt
    BY <1>1, Zenon
  <2>2. \E i \in A : \A j \in A : score[j] <= score[i]
    BY <1>2, <2>1, Greatest, Zenon
  <2> QED  BY <2>2, Zenon
<1> HIDE DEF S1
<1> DEFINE diversity == [i \in S1 |-> rank[i].diversity]
           S2 == {i \in S1 : \A j \in S1 : rank[j].diversity <= rank[i].diversity}
<1>4. S2 # {} /\ S2 \subseteq S1
  <2>1. \A i \in S1 : diversity[i] \in Int /\ diversity[i] <= FixedOne
    BY <1>1, <1>3, Zenon
  <2>2. \E i \in S1 : \A j \in S1 : diversity[j] <= diversity[i]
    BY <1>2, <1>3, <2>1, Greatest, Zenon
  <2> QED  BY <2>2, Zenon
<1> HIDE DEF S2
<1> DEFINE affinity == [i \in S2 |-> rank[i].affinity]
           S3 == {i \in S2 : \A j \in S2 : rank[j].affinity <= rank[i].affinity}
<1>5. S3 # {} /\ S3 \subseteq S2
  <2>1. \A i \in S2 : affinity[i] \in Int /\ affinity[i] <= FixedOne
    BY <1>1, <1>3, <1>4, Zenon
  <2>2. \E i \in S2 : \A j \in S2 : affinity[j] <= affinity[i]
    BY <1>2, <1>4, <2>1, Greatest, Zenon
  <2> QED  BY <2>2, Zenon
<1> HIDE DEF S3
<1> DEFINE back == [i \in S3 |-> 0 - rank[i].cluster]
<1>6. PICK i \in S3 : \A j \in S3 : rank[i].cluster <= rank[j].cluster
  <2>1. \A i \in S3 : back[i] \in Int /\ back[i] <= 0
    BY <1>1, <1>3, <1>4, <1>5
  <2>2. PICK i \in S3 : \A j \in S3 : back[j] <= back[i]
    <3> HIDE DEF back
    <3>1. 0 \in Int /\ S3 # {}
      BY <1>5
    <3> QED  BY <2>1, <3>1, Greatest, Zenon
  <2>3. \A j \in S3 : rank[i].cluster <= rank[j].cluster
    BY <1>1, <1>3, <1>4, <1>5, <2>2
  <2> QED  BY <2>3, Zenon
<1>7. ASSUME NEW j \in A, Before(rank[j], rank[i]) PROVE FALSE
  <2>1. i \in A /\ i \in S1 /\ i \in S2
    BY <1>3, <1>4, <1>5, Zenon
  <2>2. rank[j].score <= rank[i].score
    BY <2>1, Zenon DEF S1
  <2>3. rank[j].score = rank[i].score
    BY <1>1, <1>7, <2>1, <2>2 DEF Before
  <2>4. j \in S1
    BY <2>1, <2>3, Zenon DEF S1
  <2>5. rank[j].diversity <= rank[i].diversity
    BY <2>1, <2>4, Zenon DEF S2
  <2>6. rank[j].diversity = rank[i].diversity
    BY <1>1, <1>7, <2>1, <2>3, <2>5 DEF Before
  <2>7. j \in S2
    BY <2>1, <2>4, <2>6, Zenon DEF S2
  <2>8. rank[j].affinity <= rank[i].affinity
    BY <2>7, Zenon DEF S3
  <2>9. rank[j].affinity = rank[i].affinity
    BY <1>1, <1>7, <2>1, <2>3, <2>6, <2>8 DEF Before
  <2>10. j \in S3
    BY <2>7, <2>9, Zenon DEF S3
  <2>11. rank[i].cluster <= rank[j].cluster
    BY <1>6, <2>10, Zenon
  <2> QED  BY <1>1, <1>7, <2>1, <2>3, <2>6, <2>9, <2>11 DEF Before
<1> QED  BY <1>3, <1>4, <1>5, <1>7, Zenon

\* The candidates of a request that meet its hard constraints, and their ranks.
Accepted(request) == {i \in DOMAIN request.candidates :
                        evaluate_hard_constraints(request.candidates[i], request) = "none"}
RankOf(build, request, i) == score_candidate(build, request.candidates[i], request)
Unbeaten(build, request, i) ==
  /\ i \in Accepted(request)
  /\ \A j \in Accepted(request) : ~Before(RankOf(build, request, j), RankOf(build, request, i))

\* Every candidate has a rank.
LEMMA RankType ==
  ASSUME NEW build \in Build, NEW request, PlacementRequest(request),
         NEW i \in DOMAIN request.candidates
  PROVE  RankOf(build, request, i) \in Rank
<1>1. /\ Candidate(request.candidates[i]) /\ request.state.expected_reuse \in ReuseValue
      /\ \A factor \in RankingFactor : request.weights[factor] \in Int64
  BY Zenon DEF PlacementRequest, Candidates
<1> QED  BY <1>1, ScoreRule, Zenon DEF RankOf

\* The choice is an accepted candidate that none beats, if any is accepted.
LEMMA ChosenIsUnbeaten ==
  ASSUME NEW build \in Build, NEW request, PlacementRequest(request)
  PROVE  LET a == evaluate_placement(build, request)
             s == request.candidates
         IN  /\ a.rejected = {<<s[i].cluster, evaluate_hard_constraints(s[i], request)>> :
                                i \in DOMAIN s \ Accepted(request)}
             /\ DOMAIN a = {"rejected", "decision", "chosen", "score"}
             /\ a = [rejected |-> a.rejected, decision |-> a.decision, chosen |-> a.chosen,
                     score |-> a.score]
             /\ Accepted(request) = {} =>
                  a.decision = "REJECT" /\ a.chosen = NoCluster /\ a.score = 0
             /\ Accepted(request) # {} =>
                  /\ a.decision = request.intent
                  /\ \E i : /\ Unbeaten(build, request, i)
                            /\ a.chosen = RankOf(build, request, i).cluster
                            /\ a.score = RankOf(build, request, i).score
<1> DEFINE s == request.candidates
           rejection == [i \in DOMAIN s |-> evaluate_hard_constraints(s[i], request)]
           accepted == {i \in DOMAIN s : rejection[i] = "none"}
           ranked == [i \in accepted |-> score_candidate(build, s[i], request)]
           front == {i \in accepted : \A j \in accepted : ~Before(ranked[j], ranked[i])}
           best == Least(front)
           choice == IF accepted = {} THEN [cluster |-> NoCluster, score |-> 0] ELSE ranked[best]
           a == evaluate_placement(build, request)
<1>1. a = [rejected |-> {<<s[i].cluster, rejection[i]>> : i \in DOMAIN s \ accepted},
           decision |-> IF accepted = {} THEN "REJECT" ELSE request.intent,
           chosen |-> choice.cluster, score |-> choice.score]
  BY Zenon DEF evaluate_placement
<1>2. accepted = Accepted(request) /\ accepted \subseteq DOMAIN s
  BY Zenon DEF Accepted
<1>3. \A i \in accepted : ranked[i] = RankOf(build, request, i) /\ ranked[i] \in Rank
  BY <1>2, RankType, Zenon DEF RankOf
<1> DEFINE rejected == {<<s[i].cluster, rejection[i]>> : i \in DOMAIN s \ accepted}
<1>4. rejected = {<<s[i].cluster, evaluate_hard_constraints(s[i], request)>> :
                      i \in DOMAIN s \ Accepted(request)}
  BY <1>2, Zenon
<1>5. ASSUME accepted # {}
      PROVE  best \in front
  <2>1. \E i \in accepted : \A j \in accepted : ~Before(ranked[j], ranked[i])
    <3> HIDE DEF accepted, ranked
    <3> QED  BY <1>3, <1>5, SomeUnbeaten, Zenon
  <2>2. DOMAIN s \subseteq Nat
    BY DEF PlacementRequest, Candidates
  <2>3. front # {} /\ front \in SUBSET Nat
    BY <1>2, <2>1, <2>2, Zenon
  <2> HIDE DEF front
  <2> QED  BY <2>3, LeastNumber, Zenon
<1> HIDE DEF a, accepted, ranked, rejected
<1>6. ASSUME accepted # {}
      PROVE  /\ Unbeaten(build, request, best)
             /\ choice = RankOf(build, request, best)
  <2>1. best \in accepted /\ \A j \in accepted : ~Before(ranked[j], ranked[best])
    BY <1>5, <1>6, Zenon
  <2> HIDE DEF best
  <2>2. choice = ranked[best]
    BY <1>6, Zenon DEF best
  <2> QED  BY <1>2, <1>3, <2>1, <2>2, Zenon DEF Unbeaten
<1> HIDE DEF best
<1>7. /\ DOMAIN a = {"rejected", "decision", "chosen", "score"}
      /\ a = [rejected |-> a.rejected, decision |-> a.decision, chosen |-> a.chosen,
              score |-> a.score]
      /\ a.decision = IF accepted = {} THEN "REJECT" ELSE request.intent
      /\ a.chosen = choice.cluster /\ a.score = choice.score /\ a.rejected = rejected
  BY <1>1, Zenon DEF rejected
<1>8. accepted = {} => choice = [cluster |-> NoCluster, score |-> 0]
  BY Zenon
<1> HIDE DEF choice
<1>9. accepted = {} => a.decision = "REJECT" /\ a.chosen = NoCluster /\ a.score = 0
  BY <1>7, <1>8
<1>10. accepted # {} => /\ a.decision = request.intent
                        /\ Unbeaten(build, request, best)
                        /\ a.chosen = RankOf(build, request, best).cluster
                        /\ a.score = RankOf(build, request, best).score
  BY <1>6, <1>7, Zenon
<1> HIDE DEF s
<1> QED  BY <1>2, <1>4, <1>7, <1>9, <1>10, Zenon DEF a, s

\* Two requests that ask the same of every candidate.
SameTerms(q, r) == \A term \in Terms : q[term] = r[term]

\* They accept the same candidates and rank them the same.
LEMMA SameTermsSameRank ==
  ASSUME NEW q, NEW r, SameTerms(q, r), NEW c, NEW build
  PROVE  /\ evaluate_hard_constraints(c, q) = evaluate_hard_constraints(c, r)
         /\ FactorInputs(c, q) = FactorInputs(c, r)
         /\ score_candidate(build, c, q) = score_candidate(build, c, r)
<1>1. /\ q.constraints = r.constraints /\ q.weights = r.weights
      /\ q.destination_rules = r.destination_rules
      /\ q.required_diversity = r.required_diversity /\ q.state = r.state
      /\ q.now = r.now /\ q.members = r.members
  BY Zenon DEF SameTerms, Terms
<1>2. \A a : Values(q, a) = Values(r, a)
  BY <1>1, Zenon DEF Values
<1>3. EligibilityConstraints(c, q) = EligibilityConstraints(c, r)
  BY <1>1 DEF EligibilityConstraints
<1>4. EvidenceConstraints(c, q) = EvidenceConstraints(c, r)
  BY <1>1 DEF EvidenceConstraints
<1>5. SetConstraints(c, q) = SetConstraints(c, r)
  <2>1. BelowFloor(c, q, "cluster") = BelowFloor(c, r, "cluster")
    BY <1>1, <1>2 DEF BelowFloor
  <2>2. BelowFloor(c, q, "region") = BelowFloor(c, r, "region")
    BY <1>1, <1>2 DEF BelowFloor
  <2>3. BelowFloor(c, q, "failure_domain") = BelowFloor(c, r, "failure_domain")
    BY <1>1, <1>2 DEF BelowFloor
  <2>4. AboveCeiling(c, q) = AboveCeiling(c, r)
    BY <1>1, Zenon DEF AboveCeiling
  <2> QED  BY <2>1, <2>2, <2>3, <2>4, Zenon DEF SetConstraints
<1>6. evaluate_hard_constraints(c, q) = evaluate_hard_constraints(c, r)
  BY <1>3, <1>4, <1>5, Zenon DEF evaluate_hard_constraints
<1>7. FactorInputs(c, q) = FactorInputs(c, r)
  <2>1. \A a : diversity_score(c, q, a) = diversity_score(c, r, a)
    BY <1>1, <1>2 DEF diversity_score
  <2>2. {diversity_score(c, q, a) : a \in Attribute} = {diversity_score(c, r, a) : a \in Attribute}
    BY <2>1, Zenon
  <2> QED  BY <1>1, <2>2, ZenonT(30) DEF FactorInputs
<1>8. score_candidate(build, c, q) = score_candidate(build, c, r)
  BY <1>1, <1>7, Zenon DEF score_candidate
<1> QED  BY <1>6, <1>7, <1>8, Zenon

\* Ranks of which neither beats the other are ranks of one cluster with one score.
LEMMA Tied ==
  ASSUME NEW a \in Rank, NEW b \in Rank, ~Before(a, b), ~Before(b, a)
  PROVE  a.cluster = b.cluster /\ a.score = b.score
BY RankNumbers DEF Before

\* Requests that offer the same candidates, on the same terms, are answered alike.
LEMMA SameOffersSameAnswer ==
  ASSUME NEW build \in Build, NEW q, PlacementRequest(q), NEW r, PlacementRequest(r),
         SameTerms(q, r), Range(q.candidates) = Range(r.candidates)
  PROVE  evaluate_placement(build, q) = evaluate_placement(build, r)
<1> DEFINE s == q.candidates
           t == r.candidates
<1>1. ASSUME NEW i \in DOMAIN s
      PROVE  \E j \in DOMAIN t : t[j] = s[i]
  BY Zenon DEF Range
<1>2. ASSUME NEW j \in DOMAIN t
      PROVE  \E i \in DOMAIN s : s[i] = t[j]
  BY Zenon DEF Range
<1>3. \A c : /\ evaluate_hard_constraints(c, q) = evaluate_hard_constraints(c, r)
             /\ score_candidate(build, c, q) = score_candidate(build, c, r)
  BY SameTermsSameRank
<1>4. ASSUME NEW i \in Accepted(q)
      PROVE  \E j \in Accepted(r) : RankOf(build, r, j) = RankOf(build, q, i)
  <2>1. i \in DOMAIN s /\ evaluate_hard_constraints(s[i], q) = "none"
    BY Zenon DEF Accepted
  <2>2. PICK j \in DOMAIN t : t[j] = s[i]
    BY <1>1, <2>1, Zenon
  <2> QED  BY <1>3, <2>1, <2>2, Zenon DEF Accepted, RankOf
<1>5. ASSUME NEW j \in Accepted(r)
      PROVE  \E i \in Accepted(q) : RankOf(build, q, i) = RankOf(build, r, j)
  <2>1. j \in DOMAIN t /\ evaluate_hard_constraints(t[j], r) = "none"
    BY Zenon DEF Accepted
  <2>2. PICK i \in DOMAIN s : s[i] = t[j]
    BY <1>2, <2>1, Zenon
  <2> QED  BY <1>3, <2>1, <2>2, Zenon DEF Accepted, RankOf
<1>6. \A i \in DOMAIN s : i \in Accepted(q) <=> evaluate_hard_constraints(s[i], q) = "none"
  BY Zenon DEF Accepted
<1>7. \A j \in DOMAIN t : j \in Accepted(r) <=> evaluate_hard_constraints(t[j], r) = "none"
  BY Zenon DEF Accepted
<1>8. {<<s[i].cluster, evaluate_hard_constraints(s[i], q)>> : i \in DOMAIN s \ Accepted(q)}
        = {<<t[j].cluster, evaluate_hard_constraints(t[j], r)>> : j \in DOMAIN t \ Accepted(r)}
  <2>1. ASSUME NEW i \in DOMAIN s \ Accepted(q)
        PROVE  \E j \in DOMAIN t \ Accepted(r) :
                 <<s[i].cluster, evaluate_hard_constraints(s[i], q)>>
                   = <<t[j].cluster, evaluate_hard_constraints(t[j], r)>>
    <3>1. PICK j \in DOMAIN t : t[j] = s[i]
      BY <1>1, Zenon
    <3> QED  BY <1>3, <1>6, <1>7, <3>1, Zenon
  <2>2. ASSUME NEW j \in DOMAIN t \ Accepted(r)
        PROVE  \E i \in DOMAIN s \ Accepted(q) :
                 <<t[j].cluster, evaluate_hard_constraints(t[j], r)>>
                   = <<s[i].cluster, evaluate_hard_constraints(s[i], q)>>
    <3>1. PICK i \in DOMAIN s : s[i] = t[j]
      BY <1>2, Zenon
    <3> QED  BY <1>3, <1>6, <1>7, <3>1, Zenon
  <2> QED  BY <2>1, <2>2, ZenonT(30)
<1> DEFINE a == evaluate_placement(build, q)
           b == evaluate_placement(build, r)
<1>9. a.rejected = b.rejected
  <2>1. a.rejected = {<<s[i].cluster, evaluate_hard_constraints(s[i], q)>> :
                        i \in DOMAIN s \ Accepted(q)}
    BY ChosenIsUnbeaten, ZenonT(30)
  <2>2. b.rejected = {<<t[j].cluster, evaluate_hard_constraints(t[j], r)>> :
                        j \in DOMAIN t \ Accepted(r)}
    BY ChosenIsUnbeaten, ZenonT(30)
  <2> HIDE DEF a, b, s, t
  <2> QED  BY <1>8, <2>1, <2>2, Zenon
<1>10. q.intent = r.intent
  BY Zenon DEF SameTerms, Terms
<1>11. CASE Accepted(q) = {}
  <2>1. Accepted(r) = {}
    BY <1>5, <1>11, Zenon
  <2>2. a.decision = b.decision /\ a.chosen = b.chosen /\ a.score = b.score
    BY <1>11, <2>1, ChosenIsUnbeaten, Zenon
  <2> QED  BY <1>9, <2>2, ChosenIsUnbeaten
<1>12. CASE Accepted(q) # {}
  <2>1. Accepted(r) # {}
    BY <1>4, <1>12, Zenon
  <2>2. PICK i : /\ Unbeaten(build, q, i) /\ a.chosen = RankOf(build, q, i).cluster
                 /\ a.score = RankOf(build, q, i).score
    BY <1>12, ChosenIsUnbeaten, Zenon
  <2>3. PICK j : /\ Unbeaten(build, r, j) /\ b.chosen = RankOf(build, r, j).cluster
                 /\ b.score = RankOf(build, r, j).score
    BY <2>1, ChosenIsUnbeaten, Zenon
  <2>4. i \in Accepted(q) /\ j \in Accepted(r) /\ i \in DOMAIN s /\ j \in DOMAIN t
    BY <2>2, <2>3, Zenon DEF Unbeaten, Accepted
  <2>5. RankOf(build, q, i) \in Rank /\ RankOf(build, r, j) \in Rank
    BY <2>4, RankType, Zenon
  <2>6. ~Before(RankOf(build, q, i), RankOf(build, r, j))
    BY <1>4, <2>3, <2>4, Zenon DEF Unbeaten
  <2>7. ~Before(RankOf(build, r, j), RankOf(build, q, i))
    BY <1>5, <2>2, <2>4, Zenon DEF Unbeaten
  <2>8. a.chosen = b.chosen /\ a.score = b.score
    BY <2>2, <2>3, <2>5, <2>6, <2>7, Tied, Zenon
  <2>9. a.decision = b.decision
    BY <1>10, <1>12, <2>1, ChosenIsUnbeaten, Zenon
  <2> QED  BY <1>9, <2>8, <2>9, ChosenIsUnbeaten
<1> QED  BY <1>11, <1>12, Zenon

-----------------------------------------------------------------------------
(* The constraints *)

\* A table is a list of named constraints; none of them is named "none".
Table(s, n) == /\ s \in Seq(Range(s)) /\ Len(s) = n /\ n \in Nat
               /\ \A i \in 1 .. n : s[i][1] # "none"

\* A table passes when it rejects nothing.
Passes(s, n) == \A i \in 1 .. n : ~s[i][2]

\* The three tables of hard constraints.
LEMMA ConstraintTables ==
  ASSUME NEW c, NEW q
  PROVE  /\ Table(EligibilityConstraints(c, q), 13)
         /\ Table(EvidenceConstraints(c, q), 10)
         /\ Table(SetConstraints(c, q), 4)
<1>1. ASSUME NEW s, NEW n \in Nat, DOMAIN s = 1 .. n, s = [i \in 1 .. n |-> s[i]]
      PROVE  s \in Seq(Range(s)) /\ Len(s) = n
  BY <1>1 DEF Range
<1>2. Table(EligibilityConstraints(c, q), 13)
  <2> DEFINE s == EligibilityConstraints(c, q)
  <2>1. DOMAIN s = 1 .. 13 /\ s = [i \in 1 .. 13 |-> s[i]]
    BY DEF EligibilityConstraints
  <2>2. \A i \in 1 .. 13 : s[i][1] # "none"
    BY DEF EligibilityConstraints
  <2> QED  BY <1>1, <2>1, <2>2, Zenon DEF Table
<1>3. Table(EvidenceConstraints(c, q), 10)
  <2> DEFINE s == EvidenceConstraints(c, q)
  <2>1. DOMAIN s = 1 .. 10 /\ s = [i \in 1 .. 10 |-> s[i]]
    BY DEF EvidenceConstraints
  <2>2. \A i \in 1 .. 10 : s[i][1] # "none"
    BY DEF EvidenceConstraints
  <2> QED  BY <1>1, <2>1, <2>2, Zenon DEF Table
<1>4. Table(SetConstraints(c, q), 4)
  <2> DEFINE s == SetConstraints(c, q)
  <2>1. DOMAIN s = 1 .. 4 /\ s = [i \in 1 .. 4 |-> s[i]]
    BY DEF SetConstraints
  <2>2. \A i \in 1 .. 4 : s[i][1] # "none"
    BY DEF SetConstraints
  <2> QED  BY <1>1, <2>1, <2>2, Zenon DEF Table
<1> QED  BY <1>2, <1>3, <1>4, Zenon

\* Two tables in a row are a table, which passes when both pass.
LEMMA JoinedTables ==
  ASSUME NEW s, NEW m, NEW t, NEW n, Table(s, m), Table(t, n)
  PROVE  /\ Table(s \o t, m + n)
         /\ Passes(s \o t, m + n) <=> Passes(s, m) /\ Passes(t, n)
<1>0. s \in Seq(Range(s) \cup Range(t)) /\ t \in Seq(Range(s) \cup Range(t))
  BY DEF Table
<1> DEFINE u == s \o t
<1>1. PICK X : /\ s \in Seq(X) /\ t \in Seq(X) /\ Len(s) = m /\ Len(t) = n
               /\ m \in Nat /\ n \in Nat
  BY <1>0, Zenon DEF Table
<1>2. /\ u \in Seq(X) /\ Len(u) = m + n
      /\ \A i \in 1 .. m : u[i] = s[i]
      /\ \A i \in 1 .. n : u[m + i] = t[i]
  <2>1. /\ u \in Seq(X) /\ Len(u) = Len(s) + Len(t)
        /\ \A i \in 1 .. Len(s) : u[i] = s[i]
        /\ \A i \in 1 .. Len(t) : u[Len(s) + i] = t[i]
    <3>1. s \in Seq(X) /\ t \in Seq(X)
      BY <1>1, Zenon
    <3> QED  BY <3>1
  <2> HIDE DEF u
  <2> QED  BY <1>1, <2>1, Zenon
<1> HIDE DEF u
<1>3. u \in Seq(Range(u))
  BY <1>2 DEF Range
<1>4. \A i \in 1 .. m + n : i \in 1 .. m \/ \E j \in 1 .. n : i = m + j
  <2>1. ASSUME NEW i \in 1 .. m + n, i > m
        PROVE  i - m \in 1 .. n /\ i = m + (i - m)
    BY <1>1, <2>1
  <2> QED  BY <1>1, <2>1
<1>5. (\A i \in 1 .. m : i \in 1 .. m + n) /\ \A j \in 1 .. n : m + j \in 1 .. m + n
  BY <1>1
<1>6. m + n \in Nat
  BY <1>1
<1>7. ASSUME NEW i \in 1 .. m + n
      PROVE  u[i][1] # "none"
  <2>1. CASE i \in 1 .. m
    BY <1>2, <2>1, Zenon DEF Table
  <2>2. ASSUME NEW j \in 1 .. n, i = m + j
        PROVE  u[i][1] # "none"
    <3>1. u[i] = t[j] /\ t[j][1] # "none"
      BY <1>2, <2>2, Zenon DEF Table
    <3> QED  BY <3>1, Zenon
  <2> QED  BY <1>4, <2>1, <2>2, Zenon
<1>8. Passes(u, m + n) <=> Passes(s, m) /\ Passes(t, n)
  <2>1. ASSUME Passes(s, m), Passes(t, n), NEW i \in 1 .. m + n
        PROVE  ~u[i][2]
    <3>1. CASE i \in 1 .. m
      BY <1>2, <2>1, <3>1, Zenon DEF Passes
    <3>2. CASE \E j \in 1 .. n : i = m + j
      BY <1>2, <2>1, <3>2, Zenon DEF Passes
    <3> QED  BY <1>4, <3>1, <3>2, Zenon
  <2>2. ASSUME Passes(u, m + n), NEW i \in 1 .. m
        PROVE  ~s[i][2]
    BY <1>2, <1>5, <2>2, Zenon DEF Passes
  <2>3. ASSUME Passes(u, m + n), NEW i \in 1 .. n
        PROVE  ~t[i][2]
    BY <1>2, <1>5, <2>3, Zenon DEF Passes
  <2> QED  BY <2>1, <2>2, <2>3, Zenon DEF Passes
<1> QED  BY <1>2, <1>3, <1>6, <1>7, <1>8, Zenon DEF Table, u

\* The first entry that a table rejects has a name; there is one unless the table passes.
LEMMA FirstRejection ==
  ASSUME NEW s, NEW n, Table(s, n)
  PROVE  LET failed == {i \in DOMAIN s : s[i][2]}
         IN  (IF failed = {} THEN "none" ELSE s[Least(failed)][1]) = "none" <=> Passes(s, n)
<1> DEFINE failed == {i \in DOMAIN s : s[i][2]}
<1>1. DOMAIN s = 1 .. n /\ n \in Nat /\ \A i \in 1 .. n : s[i][1] # "none"
  BY DEF Table
<1>2. failed = {} <=> Passes(s, n)
  BY <1>1, Zenon DEF Passes
<1>3. failed # {} => Least(failed) \in 1 .. n
  <2>1. failed \in SUBSET Nat /\ failed \subseteq 1 .. n
    BY <1>1
  <2> HIDE DEF failed
  <2> QED  BY <2>1, LeastNumber, Zenon
<1> HIDE DEF failed
<1>4. (IF failed = {} THEN "none" ELSE s[Least(failed)][1]) = "none" <=> Passes(s, n)
  BY <1>1, <1>2, <1>3, Zenon
<1> QED  BY <1>4, Zenon DEF failed

\* A candidate is accepted when it passes all three.
LEMMA AcceptedPasses ==
  ASSUME NEW c, NEW q
  PROVE  evaluate_hard_constraints(c, q) = "none" <=>
           /\ Passes(EligibilityConstraints(c, q), 13)
           /\ Passes(EvidenceConstraints(c, q), 10)
           /\ Passes(SetConstraints(c, q), 4)
<1> DEFINE e == EligibilityConstraints(c, q)
           v == EvidenceConstraints(c, q)
           t == SetConstraints(c, q)
           all == e \o v \o t
           failed == {i \in DOMAIN all : all[i][2]}
<1>1. Table(e, 13) /\ Table(v, 10) /\ Table(t, 4)
  BY ConstraintTables, Zenon
<1>2. (evaluate_hard_constraints(c, q) = "none") <=>
        (IF failed = {} THEN "none" ELSE all[Least(failed)][1]) = "none"
  BY Zenon DEF evaluate_hard_constraints
<1> HIDE DEF e, v, t
<1>3. /\ Table(e \o v, 13 + 10)
      /\ Passes(e \o v, 13 + 10) <=> Passes(e, 13) /\ Passes(v, 10)
  BY <1>1, JoinedTables, Zenon
<1>4. /\ Table(all, (13 + 10) + 4)
      /\ Passes(all, (13 + 10) + 4) <=> Passes(e \o v, 13 + 10) /\ Passes(t, 4)
  BY <1>1, <1>3, JoinedTables
<1> HIDE DEF all
<1>5. (IF failed = {} THEN "none" ELSE all[Least(failed)][1]) = "none"
        <=> Passes(all, (13 + 10) + 4)
  BY <1>4, FirstRejection, Zenon
<1> HIDE DEF failed
<1> QED  BY <1>2, <1>3, <1>4, <1>5, Zenon DEF e, v, t

\* A candidate that is accepted is live and, by default, hosts no replica of the generation.
LEMMA AcceptedIsLegal ==
  ASSUME NEW c, NEW q, evaluate_hard_constraints(c, q) = "none"
  PROVE  c.live /\ (~q.destination_rules.allow_same_cluster => ~c.already_hosts_current_replica)
<1>1. Passes(EligibilityConstraints(c, q), 13)
  BY AcceptedPasses, Zenon
<1>2. /\ EligibilityConstraints(c, q)[3][2] = ~c.live
      /\ EligibilityConstraints(c, q)[11][2]
           = (c.already_hosts_current_replica /\ ~q.destination_rules.allow_same_cluster)
  BY Zenon DEF EligibilityConstraints
<1>3. ~EligibilityConstraints(c, q)[3][2] /\ ~EligibilityConstraints(c, q)[11][2]
  BY <1>1 DEF Passes
<1> QED  BY <1>2, <1>3, Zenon

-----------------------------------------------------------------------------
(* Evidence that is lost *)

\* The evidence of a candidate that a caller may be without.
Evidence == {"transfer_cost", "storage_cost", "expected_reuse"}

\* d is the candidate c without one piece of its evidence, and the request has none either.
Lost(c, d, q) ==
  /\ Candidate(c) /\ Candidate(d)
  /\ \E field \in Evidence :
       /\ \A f \in CandidateField \ {field} : d[f] = c[f]
       /\ ~known(d[field])
       /\ field = "expected_reuse" => ~known(q.state.expected_reuse)

\* A candidate that lost evidence keeps what the constraints read of it, but for a price.
LEMMA KeptFields ==
  ASSUME NEW c, NEW d, NEW q, Lost(c, d, q)
  PROVE  /\ \A f \in CandidateField \ Evidence : d[f] = c[f]
         /\ d.transfer_cost = c.transfer_cost \/ ~known(d.transfer_cost)
         /\ d.storage_cost = c.storage_cost \/ ~known(d.storage_cost)
         /\ \/ d.expected_reuse = c.expected_reuse
            \/ ~known(d.expected_reuse) /\ ~known(q.state.expected_reuse)
BY Zenon DEF Lost, Evidence, CandidateField

\* Who is accepted without it is accepted with it.
LEMMA LostEvidenceRejects ==
  ASSUME NEW c, NEW d, NEW q, Lost(c, d, q), evaluate_hard_constraints(d, q) = "none"
  PROVE  evaluate_hard_constraints(c, q) = "none"
<1>1. /\ d.cluster = c.cluster /\ d.region = c.region /\ d.failure_domain = c.failure_domain
      /\ d.live = c.live /\ d.health = c.health /\ d.tags = c.tags
      /\ d.already_hosts_current_replica = c.already_hosts_current_replica
      /\ d.storage_classes = c.storage_classes /\ d.encryption_at_rest = c.encryption_at_rest
      /\ d.attestation = c.attestation /\ d.compatibility = c.compatibility
      /\ d.integrity_evidence_available = c.integrity_evidence_available
      /\ d.achievable_durability = c.achievable_durability /\ d.logical_size = c.logical_size
      /\ d.used = c.used /\ d.total = c.total /\ d.evidence = c.evidence
  BY KeptFields DEF CandidateField, Evidence
<1>2. /\ Passes(EligibilityConstraints(d, q), 13) /\ Passes(EvidenceConstraints(d, q), 10)
      /\ Passes(SetConstraints(d, q), 4)
  BY AcceptedPasses, Zenon
<1>3. EligibilityConstraints(d, q) = EligibilityConstraints(c, q)
  BY <1>1 DEF EligibilityConstraints
<1>4. EvidenceConstraints(d, q) = EvidenceConstraints(c, q)
  BY <1>1 DEF EvidenceConstraints, has_room_for, free_logical_bytes
<1>5. Passes(SetConstraints(c, q), 4)
  <2>1. /\ BelowFloor(d, q, "cluster") = BelowFloor(c, q, "cluster")
        /\ BelowFloor(d, q, "region") = BelowFloor(c, q, "region")
        /\ BelowFloor(d, q, "failure_domain") = BelowFloor(c, q, "failure_domain")
    BY <1>1, Zenon DEF BelowFloor
  <2>2. AboveCeiling(c, q) => AboveCeiling(d, q)
    BY KeptFields, Zenon DEF AboveCeiling
  <2>3. \A x : Passes(SetConstraints(x, q), 4) <=>
          /\ ~BelowFloor(x, q, "cluster") /\ ~BelowFloor(x, q, "region")
          /\ ~BelowFloor(x, q, "failure_domain") /\ ~AboveCeiling(x, q)
    BY DEF Passes, SetConstraints
  <2> QED  BY <1>2, <2>1, <2>2, <2>3, Zenon
<1> QED  BY <1>2, <1>3, <1>4, <1>5, AcceptedPasses, Zenon

\* Every factor of its score is the same or unknown.
LEMMA LostFactors ==
  ASSUME NEW c, NEW d, NEW q, Lost(c, d, q)
  PROVE  /\ \A i \in 1 .. 16 : /\ FactorInputs(d, q)[i][1] = FactorInputs(c, q)[i][1]
                               /\ \/ FactorInputs(d, q)[i][2] = FactorInputs(c, q)[i][2]
                                  \/ FactorInputs(d, q)[i][2] = Unknown
         /\ FactorInputs(d, q)[11] = FactorInputs(c, q)[11]
         /\ FactorInputs(d, q)[8] = FactorInputs(c, q)[8]
<1> DEFINE reused(x) == IF known(x.expected_reuse) THEN ReuseFactor(x.expected_reuse)
                        ELSE IF known(q.state.expected_reuse)
                          THEN ReuseFactor(q.state.expected_reuse)
                        ELSE Unknown
           spread(x) == {diversity_score(x, q, a) : a \in Attribute}
<1>1. /\ d.cluster = c.cluster /\ d.region = c.region /\ d.failure_domain = c.failure_domain
      /\ d.reconstruction_cost = c.reconstruction_cost /\ d.inbound = c.inbound
      /\ d.predicted_transfer_ticks = c.predicted_transfer_ticks
      /\ d.compute_cost = c.compute_cost /\ d.region_affinity = c.region_affinity
      /\ d.affinity_score = c.affinity_score
      /\ d.existing_replica_count = c.existing_replica_count
      /\ d.expected_future_demand = c.expected_future_demand
      /\ d.source_cluster_healthy = c.source_cluster_healthy /\ d.health = c.health
      /\ d.utilization = c.utilization /\ d.in_flight_operations = c.in_flight_operations
  BY KeptFields DEF CandidateField, Evidence
<1>2. reused(d) = reused(c) \/ reused(d) = Unknown
  BY KeptFields, Zenon
<1>3. CostFactor(d.transfer_cost) = CostFactor(c.transfer_cost)
      \/ CostFactor(d.transfer_cost) = Unknown
  BY KeptFields, Zenon DEF CostFactor
<1>4. CostFactor(d.storage_cost) = CostFactor(c.storage_cost)
      \/ CostFactor(d.storage_cost) = Unknown
  BY KeptFields, Zenon DEF CostFactor
<1>5. spread(d) = spread(c)
  BY <1>1, Zenon DEF diversity_score, Attribute
<1> DEFINE v3 == CostFactor(c.reconstruction_cost)
           v4 == Known(normalize_u64(c.inbound, BandwidthCap))
           v5 == Known(normalize_u64(c.predicted_transfer_ticks, DurationCap))
           v7 == CostFactor(c.compute_cost)
           v8 == Known(CappedAt(c.region_affinity, FixedOne))
           v9 == Known(CappedAt(c.affinity_score, FixedOne))
           v10 == Known(IF c.existing_replica_count > 0 THEN FixedOne ELSE 0)
           v11 == Known(Least(spread(c)))
           v12 == Known(CappedAt(c.expected_future_demand, FixedOne))
           v13 == Known(IF c.source_cluster_healthy THEN FixedOne ELSE 0)
           v14 == Known(health_score(c.health))
           v15 == Known(Idle(c.utilization))
           v16 == Known(Idle(c.in_flight_operations))
           row(reuse_input, transfer_input, storage_input) ==
             << <<"expected_reuse_value", reuse_input>>, <<"transfer_cost", transfer_input>>,
                <<"reconstruction_cost", v3>>, <<"available_bandwidth", v4>>,
                <<"predicted_transfer_duration", v5>>, <<"storage_cost", storage_input>>,
                <<"compute_cost", v7>>, <<"region_affinity", v8>>, <<"workload_affinity", v9>>,
                <<"existing_replica_proximity", v10>>, <<"failure_domain_diversity", v11>>,
                <<"expected_future_demand", v12>>, <<"source_health", v13>>,
                <<"destination_health", v14>>, <<"pressure", v15>>, <<"utilization", v16>> >>
<1>6. FactorInputs(c, q)
        = row(reused(c), CostFactor(c.transfer_cost), CostFactor(c.storage_cost))
  BY Zenon DEF FactorInputs
<1>7. FactorInputs(d, q)
        = row(reused(d), CostFactor(d.transfer_cost), CostFactor(d.storage_cost))
  <2>1. Known(Least(spread(d))) = v11
    BY <1>5, Zenon
  <2>2. /\ CostFactor(d.reconstruction_cost) = v3
        /\ Known(normalize_u64(d.inbound, BandwidthCap)) = v4
        /\ Known(normalize_u64(d.predicted_transfer_ticks, DurationCap)) = v5
        /\ CostFactor(d.compute_cost) = v7 /\ Known(CappedAt(d.region_affinity, FixedOne)) = v8
        /\ Known(CappedAt(d.affinity_score, FixedOne)) = v9
        /\ Known(IF d.existing_replica_count > 0 THEN FixedOne ELSE 0) = v10
        /\ Known(CappedAt(d.expected_future_demand, FixedOne)) = v12
        /\ Known(IF d.source_cluster_healthy THEN FixedOne ELSE 0) = v13
        /\ Known(health_score(d.health)) = v14 /\ Known(Idle(d.utilization)) = v15
        /\ Known(Idle(d.in_flight_operations)) = v16
    BY <1>1, Zenon
  <2> HIDE DEF v3, v4, v5, v7, v8, v9, v10, v11, v12, v13, v14, v15, v16
  <2> QED  BY <2>1, <2>2, ZenonT(30) DEF FactorInputs
<1> HIDE DEF reused, spread, v3, v4, v5, v7, v8, v9, v10, v11, v12, v13, v14, v15, v16
<1> QED  BY <1>2, <1>3, <1>4, <1>6, <1>7

\* Products of a weight are clamped, or they fit.
InRange(build, weight) == build = "tests overflow" \/ Magnitude(weight * FixedOne) <= MaxInt

\* A weight times a share lies between 0 and the weight times the whole.
LEMMA ShareOfWeight ==
  ASSUME NEW w \in Int, NEW one \in Nat, NEW v \in 0 .. one
  PROVE  /\ w * v \in Int /\ w * one \in Int /\ w * 0 = 0
         /\ w >= 0 => 0 <= w * v /\ w * v <= w * one
         /\ w < 0 => w * one <= w * v /\ w * v <= 0
<1>1. w * v \in Int /\ w * one \in Int /\ w * 0 = 0 /\ v \in Int /\ one \in Int
  OBVIOUS
<1>2. one - v \in Nat /\ v \in Nat /\ one = v + (one - v)
  OBVIOUS
<1>3. w * one = w * v + w * (one - v)
  BY <1>1, <1>2
<1>4. ASSUME w >= 0 PROVE w * v >= 0 /\ w * (one - v) >= 0
  BY <1>2, <1>4
<1>5. ASSUME w < 0 PROVE w * v <= 0 /\ w * (one - v) <= 0
  BY <1>2, <1>5
<1>6. w * (one - v) \in Int
  BY <1>2
<1> QED  BY <1>1, <1>3, <1>4, <1>5, <1>6

\* An unknown factor contributes no more than a known one, where products fit or are clamped.
LEMMA UnknownIsWorst ==
  ASSUME NEW build \in Build, NEW weight \in Int64, NEW input \in FactorInput,
         InRange(build, weight)
  PROVE  contribution(build, weight, Unknown) <= contribution(build, weight, input)
<1>0. /\ weight \in Int /\ FixedOne \in Nat /\ MaxInt \in Nat
      /\ input.normalized \in 0 .. FixedOne /\ input.unknown \in BOOLEAN
  BY CostAssumption, PlacementAssumption DEF Int64, MinInt, FactorInput
<1> DEFINE value == input.normalized
           worst == IF weight >= 0 THEN 0 ELSE FixedOne
<1>1. contribution(build, weight, Unknown) = saturating_mul(build, weight, worst)
  BY Zenon DEF contribution, normalized_value, Unknown
<1>2. CASE input.unknown
  <2>1. contribution(build, weight, input) = contribution(build, weight, Unknown)
    BY <1>2, Zenon DEF contribution, normalized_value, Unknown
  <2>2. contribution(build, weight, input) \in Int
    BY ContributionType, CostAssumption DEF Int64, MinInt
  <2> QED  BY <2>1, <2>2
<1>3. CASE ~input.unknown /\ build = "tests overflow"
  <2>1. contribution(build, weight, input) = contribution(build, weight, Known(value))
    BY <1>3, Zenon DEF contribution, normalized_value, Known
  <2> QED  BY <1>0, <1>3, <2>1, MissingEvidenceScoresWorst, Zenon
<1>4. CASE ~input.unknown /\ Magnitude(weight * FixedOne) <= MaxInt
  <2>1. contribution(build, weight, input) = saturating_mul(build, weight, value)
    BY <1>4, Zenon DEF contribution, normalized_value
  <2> DEFINE x == weight * FixedOne
             y == weight * value
             z == weight * worst
  <2>2. /\ x \in Int /\ y \in Int
        /\ weight >= 0 => 0 <= y /\ y <= x
        /\ weight < 0 => x <= y /\ y <= 0
    BY <1>0, ShareOfWeight, Zenon
  <2>3. (weight >= 0 => z = 0) /\ (weight < 0 => z = x)
    BY <1>0
  <2>4. Magnitude(x) <= MaxInt
    BY <1>4, Zenon
  <2> HIDE DEF x, y, z
  <2>5. y \in Int64 /\ z \in Int64 /\ z <= y
    BY <1>0, <2>2, <2>3, <2>4 DEF Magnitude, Int64, MinInt
  <2>6. saturating_mul(build, weight, value) = y /\ saturating_mul(build, weight, worst) = z
    <3>1. value \in Int /\ worst \in Int
      BY <1>0
    <3> HIDE DEF value, worst
    <3> QED  BY <1>0, <2>5, <3>1, ProductFits, Zenon DEF y, z
  <2> QED  BY <1>1, <2>1, <2>5, <2>6, Zenon
<1> QED  BY <1>0, <1>2, <1>3, <1>4, Zenon DEF InRange

\* Its score is no better, and the rest of its rank is the same.
LEMMA LostEvidenceRanksLower ==
  ASSUME NEW build \in Build, NEW c, NEW d, NEW q, Lost(c, d, q), PlacementRequest(q),
         \A factor \in RankingFactor : InRange(build, q.weights[factor])
  PROVE  LET low == score_candidate(build, d, q)
             high == score_candidate(build, c, q)
         IN  /\ low.cluster = high.cluster /\ low.diversity = high.diversity
             /\ low.affinity = high.affinity /\ low.score <= high.score
<1>1. /\ Candidate(c) /\ Candidate(d) /\ q.state.expected_reuse \in ReuseValue
      /\ RankingFactor \subseteq DOMAIN q.weights
      /\ \A factor \in RankingFactor : q.weights[factor] \in Int64
  BY Zenon DEF Lost, PlacementRequest
<1> DEFINE s == Contributions(build, d, q)
           t == Contributions(build, c, q)
<1>2. ASSUME NEW i \in 1 .. 16
      PROVE  s[i] <= t[i]
  <2> DEFINE name == FactorInputs(c, q)[i][1]
             weight == q.weights[name]
             input == FactorInputs(c, q)[i][2]
             lost == FactorInputs(d, q)[i][2]
  <2>1. name \in RankingFactor /\ input \in FactorInput /\ FactorInputs(d, q)[i][1] = name
        /\ (lost = input \/ lost = Unknown)
    BY <1>1, FactorTypes, LostFactors
  <2>2. weight \in Int64
    BY <1>1, <2>1, Zenon
  <2>3. s[i] = contribution(build, weight, lost) /\ t[i] = contribution(build, weight, input)
    BY <2>1, Zenon DEF Contributions
  <2>4. InRange(build, weight)
    BY <2>1, Zenon
  <2> HIDE DEF name, weight, input, lost, s, t
  <2>5. contribution(build, weight, input) \in Int
    BY <2>1, <2>2, ContributionType, CostAssumption DEF Int64, MinInt
  <2>6. contribution(build, weight, Unknown) <= contribution(build, weight, input)
    BY <2>1, <2>2, <2>4, UnknownIsWorst, Zenon
  <2> QED  BY <2>1, <2>3, <2>5, <2>6
<1>3. /\ \A i \in 1 .. 16 : s[i] \in Int64 /\ t[i] \in Int64
      /\ Len(s) = 16 /\ Len(t) = 16
  BY <1>1, ScoreRule, Zenon
<1> HIDE DEF s, t
<1>4. RunningTotals(s)[16] <= RunningTotals(t)[16]
  BY <1>2, <1>3, TotalsAreMonotone, Zenon
<1>5. /\ FactorInputs(d, q)[11] = FactorInputs(c, q)[11]
      /\ FactorInputs(d, q)[8] = FactorInputs(c, q)[8] /\ d.cluster = c.cluster
  BY LostFactors, KeptFields DEF CandidateField, Evidence
<1>6. /\ score_candidate(build, d, q) =
           [cluster |-> d.cluster, score |-> RunningTotals(s)[16],
            diversity |-> FactorInputs(d, q)[11][2].normalized,
            affinity |-> FactorInputs(d, q)[8][2].normalized]
      /\ score_candidate(build, c, q) =
           [cluster |-> c.cluster, score |-> RunningTotals(t)[16],
            diversity |-> FactorInputs(c, q)[11][2].normalized,
            affinity |-> FactorInputs(c, q)[8][2].normalized]
  BY <1>1, ScoreRule, Zenon DEF s, t
<1> QED  BY <1>4, <1>5, <1>6

\* A rank that falls in score alone, and still is not beaten, was not beaten before.
LEMMA FallenRank ==
  ASSUME NEW low \in Rank, NEW high \in Rank, NEW other \in Rank,
         low.cluster = high.cluster, low.diversity = high.diversity,
         low.affinity = high.affinity, low.score <= high.score,
         ~Before(other, low), ~Before(high, other)
  PROVE  other.cluster = high.cluster
BY RankNumbers DEF Before

\* The request q with its i-th candidate less some evidence.
Poorer(q, r, i) ==
  /\ SameTerms(q, r) /\ PlacementRequest(q) /\ PlacementRequest(r)
  /\ i \in DOMAIN q.candidates /\ DOMAIN r.candidates = DOMAIN q.candidates
  /\ \A j \in DOMAIN q.candidates \ {i} : r.candidates[j] = q.candidates[j]
  /\ Lost(q.candidates[i], r.candidates[i], q)

\* It is accepted, and ranked, no better; the others are accepted and ranked as before.
LEMMA PoorerRanks ==
  ASSUME NEW build \in Build, NEW q, NEW r, NEW i, Poorer(q, r, i),
         \A factor \in RankingFactor : InRange(build, q.weights[factor])
  PROVE  /\ Accepted(r) \subseteq Accepted(q)
         /\ \A j \in Accepted(q) \ {i} :
              j \in Accepted(r) /\ RankOf(build, r, j) = RankOf(build, q, j)
         /\ LET low == RankOf(build, r, i)
                high == RankOf(build, q, i)
            IN  /\ low.cluster = high.cluster /\ low.diversity = high.diversity
                /\ low.affinity = high.affinity /\ low.score <= high.score
<1> DEFINE s == q.candidates
           t == r.candidates
<1>1. /\ SameTerms(q, r) /\ PlacementRequest(q) /\ i \in DOMAIN s /\ DOMAIN t = DOMAIN s
      /\ \A j \in DOMAIN s \ {i} : t[j] = s[j]
      /\ Lost(s[i], t[i], q)
  BY Zenon DEF Poorer
<1>2. \A c : /\ evaluate_hard_constraints(c, q) = evaluate_hard_constraints(c, r)
             /\ score_candidate(build, c, q) = score_candidate(build, c, r)
  BY <1>1, SameTermsSameRank
<1> HIDE DEF s, t
<1>3. \A j : /\ j \in Accepted(q) <=> j \in DOMAIN s /\ evaluate_hard_constraints(s[j], q) = "none"
             /\ j \in Accepted(r) <=> j \in DOMAIN t /\ evaluate_hard_constraints(t[j], r) = "none"
  BY Zenon DEF Accepted, s, t
<1>4. evaluate_hard_constraints(t[i], q) = "none" => evaluate_hard_constraints(s[i], q) = "none"
  BY <1>1, LostEvidenceRejects, Zenon
<1>5. Accepted(r) \subseteq Accepted(q)
  <2> SUFFICES ASSUME NEW j \in Accepted(r) PROVE j \in Accepted(q)
    BY Zenon
  <2>1. CASE j = i
    BY <1>1, <1>2, <1>3, <1>4, <2>1, Zenon
  <2>2. CASE j # i
    BY <1>1, <1>2, <1>3, <2>2, Zenon
  <2> QED  BY <2>1, <2>2, Zenon
<1>6. ASSUME NEW j \in Accepted(q) \ {i}
      PROVE  j \in Accepted(r) /\ RankOf(build, r, j) = RankOf(build, q, j)
  <2>1. j \in DOMAIN s \ {i} /\ t[j] = s[j]
    BY <1>1, <1>3, Zenon
  <2> QED  BY <1>1, <1>2, <1>3, <2>1, Zenon DEF RankOf, s, t
<1>7. /\ RankOf(build, q, i) = score_candidate(build, s[i], q)
      /\ RankOf(build, r, i) = score_candidate(build, t[i], q)
  BY <1>2, Zenon DEF RankOf, s, t
<1>8. LET low == score_candidate(build, t[i], q)
          high == score_candidate(build, s[i], q)
      IN  /\ low.cluster = high.cluster /\ low.diversity = high.diversity
          /\ low.affinity = high.affinity /\ low.score <= high.score
  BY <1>1, LostEvidenceRanksLower, Zenon
<1> QED  BY <1>5, <1>6, <1>7, <1>8, Zenon

\* If it is chosen all the same, it was chosen before.
LEMMA PoorerChoice ==
  ASSUME NEW build \in Build, NEW q, NEW r, NEW i, Poorer(q, r, i),
         \A factor \in RankingFactor : InRange(build, q.weights[factor]),
         evaluate_placement(build, r).chosen = r.candidates[i].cluster
  PROVE  evaluate_placement(build, q).chosen = r.candidates[i].cluster
<1> DEFINE cluster == r.candidates[i].cluster
           a == evaluate_placement(build, q)
           b == evaluate_placement(build, r)
<1>1. /\ PlacementRequest(q) /\ PlacementRequest(r) /\ i \in DOMAIN q.candidates
      /\ DOMAIN r.candidates = DOMAIN q.candidates
  BY Zenon DEF Poorer
<1>2. /\ Accepted(r) \subseteq Accepted(q)
      /\ \A j \in Accepted(q) \ {i} :
           j \in Accepted(r) /\ RankOf(build, r, j) = RankOf(build, q, j)
      /\ RankOf(build, r, i).cluster = RankOf(build, q, i).cluster
      /\ RankOf(build, r, i).diversity = RankOf(build, q, i).diversity
      /\ RankOf(build, r, i).affinity = RankOf(build, q, i).affinity
      /\ RankOf(build, r, i).score <= RankOf(build, q, i).score
  BY PoorerRanks
<1>3. RankOf(build, q, i).cluster = cluster
  <2>1. Candidate(r.candidates[i]) /\ PlacementRequest(r)
    BY <1>1, Zenon DEF PlacementRequest, Candidates
  <2>2. RankOf(build, r, i).cluster = cluster
    BY Zenon DEF RankOf, score_candidate
  <2> QED  BY <1>2, <2>2, Zenon
<1>4. b.chosen = cluster
  BY Zenon
<1>5. /\ Accepted(q) = {} => a.chosen = NoCluster
      /\ Accepted(r) = {} => b.chosen = NoCluster
      /\ Accepted(q) # {} => \E u : /\ Unbeaten(build, q, u)
                                    /\ a.chosen = RankOf(build, q, u).cluster
      /\ Accepted(r) # {} => \E w : /\ Unbeaten(build, r, w)
                                    /\ b.chosen = RankOf(build, r, w).cluster
  BY <1>1, ChosenIsUnbeaten, Zenon
<1> HIDE DEF a, b, cluster
<1>6. CASE Accepted(q) = {}
  <2>1. Accepted(r) = {}
    BY <1>2, <1>6, Zenon
  <2> QED  BY <1>4, <1>5, <1>6, <2>1, Zenon DEF a, cluster
<1>7. ASSUME NEW u, Unbeaten(build, q, u), a.chosen = RankOf(build, q, u).cluster, u # i
      PROVE  a.chosen = cluster
  <2>1. u \in Accepted(q) /\ u \in Accepted(r) /\ RankOf(build, r, u) = RankOf(build, q, u)
    BY <1>2, <1>7, Zenon DEF Unbeaten
  <2>2. PICK w : Unbeaten(build, r, w) /\ b.chosen = RankOf(build, r, w).cluster
    BY <1>5, <2>1, Zenon
  <2>3. w \in Accepted(r) /\ w \in Accepted(q)
    BY <1>2, <2>2, Zenon DEF Unbeaten
  <2>4. ~Before(RankOf(build, q, u), RankOf(build, r, w))
    BY <2>1, <2>2, Zenon DEF Unbeaten
  <2>5. ~Before(RankOf(build, q, w), RankOf(build, q, u))
    BY <1>7, <2>3, Zenon DEF Unbeaten
  <2>6. /\ u \in DOMAIN q.candidates /\ w \in DOMAIN q.candidates /\ w \in DOMAIN r.candidates
    BY <2>1, <2>3, Zenon DEF Accepted
  <2>7. /\ RankOf(build, q, u) \in Rank /\ RankOf(build, q, w) \in Rank
        /\ RankOf(build, r, w) \in Rank
    BY <1>1, <2>6, RankType, Zenon
  <2>8. CASE w # i
    <3>1. RankOf(build, r, w) = RankOf(build, q, w)
      BY <1>2, <2>3, <2>8, Zenon
    <3> QED  BY <1>4, <1>7, <2>2, <2>4, <2>5, <2>7, <3>1, Tied, Zenon
  <2>9. CASE w = i
    <3>1. RankOf(build, q, u).cluster = RankOf(build, q, w).cluster
      BY <1>2, <2>4, <2>5, <2>7, <2>9, FallenRank, Zenon
    <3> QED  BY <1>3, <1>7, <2>9, <3>1, Zenon
  <2> QED  BY <2>8, <2>9, Zenon
<1>8. CASE Accepted(q) # {}
  <2>1. PICK u : Unbeaten(build, q, u) /\ a.chosen = RankOf(build, q, u).cluster
    BY <1>5, <1>8, Zenon
  <2> QED  BY <1>3, <1>7, <2>1, Zenon DEF a, cluster
<1> QED  BY <1>6, <1>8, Zenon
=============================================================================
