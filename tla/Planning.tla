------------------------------ MODULE Planning ------------------------------
(***************************************************************************)
(* The questions a caller of the library may ask, besides the plans over   *)
(* the fabric's own evidence.  A question is asked, answered, changed in   *)
(* one respect and asked again:                                            *)
(*   "evaluate"   Fabric::evaluate_placement, over the caller's candidates *)
(*   "economics"  decide_action                                            *)
(*   "price"      CostPolicy::price_bytes                                  *)
(*   "policy"     ReplicationPolicyRecord::effective_requirements          *)
(***************************************************************************)
EXTENDS Planner, Economics, ReplicationPolicy

CONSTANTS Quotes,      \* prices a caller may quote for a candidate
          Amounts,     \* prices a caller may quote for a component of a path
          Reuses,      \* reuse evidence a caller may have
          Sizes,       \* sizes, in bytes, that are priced
          Demands      \* replica counts a caller may ask for

ASSUME PlanningAssumption == /\ Quotes \cup Amounts \subseteq CostValue
                             /\ \A quoted \in Quotes : quoted.micro_units # MinInt
                             /\ Reuses \subseteq ReuseValue
                             /\ Sizes \cup Demands \subseteq Nat

VARIABLES question, answer
questions == <<question, answer>>

AnswerTo(q) ==
  CASE q.kind = "evaluate"  -> evaluate_placement(q.build, q.request)
    [] q.kind = "economics" -> decide_action(q.inputs)
    [] q.kind = "price"     -> price_bytes(q.source, q.unit, q.size)
    [] q.kind = "policy"    -> effective_requirements(q.requirements)
    [] OTHER                -> "none"

Asks(q) == question = q /\ answer = AnswerTo(q)
AsksAgain(q) == question' = q /\ answer' = AnswerTo(q)

Evaluates == question.kind = "evaluate"

Quoted == {"transfer_cost", "storage_cost"}
quote(i, field, value) ==
  Evaluates /\ AsksAgain([question EXCEPT !.request.candidates[i][field] = value])

reuse(i, value) ==
  Evaluates /\ AsksAgain([question EXCEPT !.request.candidates[i].expected_reuse = value])

Swapped(s, i) == [s EXCEPT ![i] = s[i + 1], ![i + 1] = s[i]]
reorder(i) == Evaluates /\ AsksAgain([question EXCEPT !.request.candidates = Swapped(@, i)])

Component == {"transfer_cost", "egress_cost", "reconstruction_cost", "compute_cost"}
reprice(field, value) ==
  question.kind = "economics" /\ AsksAgain([question EXCEPT !.inputs[field] = value])

resize(size) == question.kind = "price" /\ AsksAgain([question EXCEPT !.size = size])

Diversity == {"clusters", "regions", "failure_domains"}
require(field, count) ==
  question.kind = "policy" /\ AsksAgain([question EXCEPT !.requirements[field] = count])

QuestionStep ==
  \/ \E i \in (IF Evaluates THEN DOMAIN question.request.candidates ELSE {}) :
       \/ \E field \in Quoted, value \in Quotes : quote(i, field, value)
       \/ \E value \in Reuses : reuse(i, value)
       \/ i < Len(question.request.candidates) /\ reorder(i)
  \/ \E field \in Component, value \in Amounts : reprice(field, value)
  \/ \E size \in {Size(bytes) : bytes \in Sizes} \cup {NoSize} : resize(size)
  \/ \E field \in {"minimum", "desired", "maximum"} \cup Diversity, count \in Demands :
       require(field, count)

PlanningNext == \/ PlannedStep /\ UNCHANGED questions
                \/ QuestionStep /\ UNCHANGED vars

-----------------------------------------------------------------------------
\* Every product of a weight and a normalized value fits in 64 bits.
WeightsFit(request) ==
  \A factor \in DOMAIN request.weights :
    Magnitude(request.weights[factor] * FixedOne) <= MaxInt

\* "Missing evidence can never look best": taking a price, or the last evidence of reuse,
\* away from a candidate never makes it the choice.  In a build whose multiplication wraps
\* this is said of weights whose products fit.
MissingEvidenceNeverHelps ==
  [][/\ Evaluates /\ question'.kind = "evaluate"
     /\ question.build = "tests overflow" \/ WeightsFit(question.request)
     => \A i \in DOMAIN question.request.candidates :
          LET before == question.request.candidates[i]
              after == question'.request.candidates[i]
          IN  (/\ before.cluster = after.cluster
               /\ \/ \E field \in Quoted : known(before[field]) /\ ~known(after[field])
                  \/ /\ known(before.expected_reuse) /\ ~known(after.expected_reuse)
                     /\ ~known(question.request.state.expected_reuse)
               /\ answer'.chosen = after.cluster)
              => answer.chosen = after.cluster]_questions

\* The order in which a caller lists the candidates changes neither the choice nor its
\* score, ties included, also where scores saturate or wrap.
ChoiceIgnoresOrder ==
  [][/\ Evaluates /\ question'.kind = "evaluate"
     /\ Range(question'.request.candidates) = Range(question.request.candidates)
     => answer' = answer]_questions

\* A dearer transfer never turns a decision to reconstruct into one to replicate, up to
\* totals that no longer fit in 64 bits.
DearerTransferNeverPreferred ==
  [][/\ question.kind = "economics" /\ question'.kind = "economics"
     /\ \E field \in {"transfer_cost", "egress_cost"} :
          /\ question' = [question EXCEPT !.inputs[field] = question'.inputs[field]]
          /\ known(question.inputs[field])
          /\ question'.inputs[field].source = question.inputs[field].source
          /\ question'.inputs[field].micro_units >= question.inputs[field].micro_units
     => ~(answer = "RECONSTRUCT" /\ answer' = "REPLICATE")]_questions

\* A price that is known is the exact product of the unit price and the size, rounded
\* toward zero; one whose computation would overflow is unknown, never wrong.
KnownPriceIsExact ==
  (question.kind = "price" /\ known(answer) /\ question.size.known) =>
    /\ answer.micro_units = Quotient(question.unit * question.size.bytes, Mib)
    /\ answer.micro_units \in Int64

\* The requirements that take effect are satisfiable counts, are their own effective form,
\* and ask no less diversity of clusters, regions and failure domains than was asked of any
\* form but SINGLE; also where the counts a form was made with wrapped.
RequirementsSettle ==
  question.kind = "policy" =>
    /\ 1 <= answer.minimum /\ answer.minimum <= answer.desired
    /\ answer.desired <= answer.maximum
    /\ effective_requirements(answer) = answer
    /\ question.requirements.form # "SINGLE" =>
         \A field \in Diversity : answer[field] >= question.requirements[field]
=============================================================================
