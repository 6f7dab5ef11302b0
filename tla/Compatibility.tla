---------------------------- MODULE Compatibility ----------------------------
(***************************************************************************)
(* Compatibility gating (src/compatibility.cpp): the attributes a state    *)
(* requires against the attributes a cluster declares.  A descriptor is a  *)
(* function from attribute keys to values.                                 *)
(***************************************************************************)
EXTENDS Integers, FiniteSets, Sequences

CONSTANT MaxAttributes    \* kMaxCompatibilityAttributes

ASSUME CompatibilityAssumption == MaxAttributes \in Nat \ {0}

Wildcard == "*"
NoAttributes == [key \in {} |-> Wildcard]

\* CompatibilityDescriptor::set: a full descriptor takes no further key.
set(attributes, key, value) ==
  IF key \notin DOMAIN attributes /\ Cardinality(DOMAIN attributes) >= MaxAttributes
    THEN attributes
    ELSE [k \in DOMAIN attributes \cup {key} |-> IF k = key THEN value ELSE attributes[k]]

First(classes, default) == IF classes = <<>> THEN default ELSE Head(classes)

\* The attributes of a cluster: three that its capabilities and location
\* imply, then those of its "compat:key=value" tags, which may replace them.
cluster_compatibility_descriptor(cluster) ==
  LET tags == << <<"accelerator", First(cluster.accelerators, "none")>>,
                 <<"storage", First(cluster.storage_classes, "none")>>,
                 <<"platform", cluster.platform>> >> \o cluster.compat_tags
      attributes[n \in 0 .. Len(tags)] ==
        IF n = 0 THEN NoAttributes ELSE set(attributes[n - 1], tags[n][1], tags[n][2])
  IN  attributes[Len(tags)]

\* A generation older than required, or a descriptor that a publication has
\* put in doubt, is not evidence; a missing attribute is no evidence either,
\* unless an attribute that is there already contradicts the requirement.
evaluate_compatibility(required, generation, descriptor, declared, in_doubt) ==
  LET missing == {k \in DOMAIN required : k \notin DOMAIN descriptor}
      differs == {k \in DOMAIN required \ missing :
                    required[k] # Wildcard /\ descriptor[k] # required[k]}
  IN  IF in_doubt \/ declared < generation THEN "REVALIDATION_REQUIRED"
      ELSE IF differs # {} THEN "INCOMPATIBLE"
      ELSE IF missing # {} THEN "UNKNOWN"
      ELSE "COMPATIBLE"
=============================================================================
