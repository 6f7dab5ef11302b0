--------------------------- MODULE PlanningProofs ----------------------------
(***************************************************************************)
(* What the planner answers, for every value of the constants: to the      *)
(* questions of a caller, however these are changed and asked again, and   *)
(* to the fabric, which asks with the evidence of its own plane.           *)
(***************************************************************************)
EXTENDS Planning, PolicyProofs, FiniteSetTheorems

-----------------------------------------------------------------------------
(* The questions of a caller *)

PriceQuestion == [kind: {"price"}, source: CostSource, unit: Int64, size: SizeValue]
PolicyQuestion == [kind: {"policy"}, requirements: ReplicationRequirements]
EconomicQuestion == [kind: {"economics"}, inputs: EconomicInputs]
Evaluation(q) == /\ {"kind", "build", "request"} \subseteq DOMAIN q
                 /\ q.build \in Build /\ PlacementRequest(q.request)

\* The question is one a caller can ask, and it has been answered.
QuestionInv == /\ "kind" \in DOMAIN question
               /\ question.kind = "evaluate" => Evaluation(question)
               /\ question.kind = "price" => question \in PriceQuestion
               /\ question.kind = "policy" => question \in PolicyQuestion
               /\ question.kind = "economics" => question \in EconomicQuestion
               /\ answer = AnswerTo(question)

\* The evaluation q with candidates s in the place of its own.
Offering(q, s) ==
  /\ Evaluates /\ question'.kind = "evaluate" /\ "kind" \in DOMAIN question'
  /\ {"build", "request"} \subseteq DOMAIN question' /\ question'.build = q.build
  /\ Terms \cup {"candidates"} \subseteq DOMAIN question'.request
  /\ \A term \in Terms : question'.request[term] = q.request[term]
  /\ question'.request.candidates = s
  /\ answer' = AnswerTo(question')

\* What a step that asks an evaluation again asks.
LEMMA AskedAgain ==
  ASSUME QuestionInv, Evaluates, NEW s,
         AsksAgain([question EXCEPT !.request.candidates = s])
  PROVE  Offering(question, s)
<1>1. Evaluation(question)
  BY Zenon DEF QuestionInv, Evaluates
<1>2. question' = [question EXCEPT !.request = [question.request EXCEPT !.candidates = s]]
  BY <1>1, Zenon DEF AsksAgain
<1>3. /\ question'.kind = question.kind /\ DOMAIN question' = DOMAIN question
      /\ question'.build = question.build
      /\ question'.request = [question.request EXCEPT !.candidates = s]
  BY <1>1, <1>2, Zenon DEF QuestionInv, Evaluation
<1>4. /\ DOMAIN question'.request = DOMAIN question.request
      /\ question'.request.candidates = s
      /\ \A term \in Terms : question'.request[term] = question.request[term]
  BY <1>1, <1>3, Zenon DEF Evaluation, PlacementRequest, Terms
<1> QED  BY <1>1, <1>3, <1>4, Zenon
         DEF Offering, Evaluates, QuestionInv, AsksAgain, Evaluation, PlacementRequest

\* The candidates s with one field of the i-th changed.
Edited(s, i, field, value) == [s EXCEPT ![i] = [s[i] EXCEPT ![field] = value]]

\* A changed field is a field of a candidate, and the others keep theirs.
LEMMA EditedCandidates ==
  ASSUME NEW s, Candidates(s), NEW i \in DOMAIN s, NEW field, NEW value,
         \/ field \in Quoted /\ value \in CostValue
         \/ field = "expected_reuse" /\ value \in ReuseValue
  PROVE  /\ Candidates(Edited(s, i, field, value))
         /\ DOMAIN Edited(s, i, field, value) = DOMAIN s
         /\ \A j \in DOMAIN s \ {i} : Edited(s, i, field, value)[j] = s[j]
         /\ Edited(s, i, field, value)[i][field] = value
         /\ \A f \in DOMAIN s[i] \ {field} : Edited(s, i, field, value)[i][f] = s[i][f]
         /\ DOMAIN Edited(s, i, field, value)[i] = DOMAIN s[i]
<1> DEFINE t == Edited(s, i, field, value)
<1>1. /\ DOMAIN t = DOMAIN s /\ \A j \in DOMAIN s \ {i} : t[j] = s[j]
      /\ t[i] = [s[i] EXCEPT ![field] = value]
  BY Zenon DEF Edited
<1>2. Candidate(s[i]) /\ field \in DOMAIN s[i]
  BY Zenon DEF Candidates, Candidate, CandidateField, Quoted
<1>3. /\ DOMAIN t[i] = DOMAIN s[i] /\ t[i][field] = value
      /\ \A f \in DOMAIN s[i] \ {field} : t[i][f] = s[i][f]
  BY <1>1, <1>2, Zenon
<1> HIDE DEF t
<1>4. Candidate(t[i])
  BY <1>2, <1>3, Zenon DEF Candidate, CandidateField, Quoted
<1>5. Candidates(t)
  BY <1>1, <1>4, Zenon DEF Candidates
<1> QED  BY <1>1, <1>3, <1>5, Zenon DEF t

\* Neighbours that change places are the same candidates.
LEMMA SwappedCandidates ==
  ASSUME NEW s, Candidates(s), NEW i \in DOMAIN s, i + 1 \in DOMAIN s
  PROVE  /\ Candidates(Swapped(s, i)) /\ DOMAIN Swapped(s, i) = DOMAIN s
         /\ Range(Swapped(s, i)) = Range(s)
<1>1. DOMAIN s \subseteq Nat
  BY DEF Candidates
<1>2. /\ DOMAIN Swapped(s, i) = DOMAIN s
      /\ Swapped(s, i)[i] = s[i + 1] /\ Swapped(s, i)[i + 1] = s[i]
      /\ \A j \in DOMAIN s \ {i, i + 1} : Swapped(s, i)[j] = s[j]
  BY <1>1, Zenon DEF Swapped
<1>3. Candidates(Swapped(s, i))
  BY <1>2, Zenon DEF Candidates
<1> QED  BY <1>2, <1>3, Zenon DEF Range

\* What a step asks of an evaluation: it changes a field of one candidate, or the order.
AsksEvaluation ==
  \/ \E i \in DOMAIN question.request.candidates : \E field, value :
       /\ \/ field \in Quoted /\ value \in CostValue
          \/ field = "expected_reuse" /\ value \in ReuseValue
       /\ Offering(question, Edited(question.request.candidates, i, field, value))
  \/ \E i \in DOMAIN question.request.candidates :
       /\ i + 1 \in DOMAIN question.request.candidates
       /\ Offering(question, Swapped(question.request.candidates, i))

\* Every step keeps the question, asks an evaluation again, or asks another kind again.
LEMMA QuestionSteps ==
  ASSUME QuestionInv, [PlanningNext]_<<vars, questions>>
  PROVE  \/ UNCHANGED questions
         \/ Evaluates /\ AsksEvaluation
         \/ \E field \in Component, value \in Amounts : reprice(field, value)
         \/ \E size \in {Size(bytes) : bytes \in Sizes} \cup {NoSize} : resize(size)
         \/ \E field \in {"minimum", "desired", "maximum"} \cup Diversity, count \in Demands :
              require(field, count)
<1> DEFINE s == question.request.candidates
<1>1. ASSUME NEW i \in DOMAIN s, NEW field \in Quoted, NEW value \in Quotes, quote(i, field, value)
      PROVE  Evaluates /\ AsksEvaluation
  <2>1. Evaluates /\ AsksAgain([question EXCEPT !.request.candidates = Edited(s, i, field, value)])
    BY <1>1, Zenon DEF quote, Edited
  <2>2. Offering(question, Edited(s, i, field, value))
    BY <2>1, AskedAgain, Zenon
  <2> QED  BY <1>1, <2>1, <2>2, PlanningAssumption, Zenon DEF AsksEvaluation
<1>2. ASSUME NEW i \in DOMAIN s, NEW value \in Reuses, reuse(i, value)
      PROVE  Evaluates /\ AsksEvaluation
  <2>1. Evaluates
        /\ AsksAgain([question EXCEPT !.request.candidates = Edited(s, i, "expected_reuse", value)])
    BY <1>2, Zenon DEF reuse, Edited
  <2>2. Offering(question, Edited(s, i, "expected_reuse", value))
    BY <2>1, AskedAgain, Zenon
  <2> QED  BY <1>2, <2>1, <2>2, PlanningAssumption, Zenon DEF AsksEvaluation
<1>3. ASSUME NEW i \in DOMAIN s, i < Len(s), reorder(i)
      PROVE  Evaluates /\ AsksEvaluation
  <2>1. Evaluates /\ AsksAgain([question EXCEPT !.request.candidates = Swapped(s, i)])
    BY <1>3, Zenon DEF reorder
  <2>2. Offering(question, Swapped(s, i))
    BY <2>1, AskedAgain, Zenon
  <2>3. i + 1 \in DOMAIN s
    <3>1. PICK n \in Nat : DOMAIN s = 1 .. n
      BY <2>1, Zenon DEF QuestionInv, Evaluates, Evaluation, PlacementRequest, Candidates
    <3> QED  BY <1>3, <3>1
  <2> QED  BY <2>1, <2>2, <2>3, Zenon DEF AsksEvaluation
<1> HIDE DEF s
<1>4. CASE QuestionStep
  <2>1. CASE \E i \in (IF Evaluates THEN DOMAIN s ELSE {}) :
               \/ \E field \in Quoted, value \in Quotes : quote(i, field, value)
               \/ \E value \in Reuses : reuse(i, value)
               \/ i < Len(s) /\ reorder(i)
    BY <1>1, <1>2, <1>3, <2>1, Zenon
  <2> QED  BY <1>4, <2>1, Zenon DEF QuestionStep, s
<1> QED  BY <1>4, Zenon DEF PlanningNext, questions

\* A question that a caller asks again, changed in one respect, is a question.
LEMMA QuestionInvStep ==
  ASSUME QuestionInv, [PlanningNext]_<<vars, questions>>
  PROVE  QuestionInv'
<1>1. CASE UNCHANGED questions
  BY <1>1, Zenon DEF questions, QuestionInv, AnswerTo
<1>2. ASSUME Evaluates, AsksEvaluation PROVE QuestionInv'
  <2>0. Evaluation(question)
    BY <1>2, Zenon DEF QuestionInv, Evaluates
  <2>1. PICK s : Candidates(s) /\ Offering(question, s)
    BY <1>2, <2>0, EditedCandidates, SwappedCandidates, Zenon
    DEF AsksEvaluation, Evaluation, PlacementRequest
  <2>2. PlacementRequest(question'.request)
    BY <2>0, <2>1, Zenon DEF Offering, Evaluation, PlacementRequest, Terms
  <2>3. Evaluation(question')
    BY <2>0, <2>1, <2>2, Zenon DEF Offering, Evaluation
  <2> QED  BY <2>1, <2>3, Zenon DEF Offering, QuestionInv
<1>3. ASSUME NEW field \in Component, NEW value \in Amounts, reprice(field, value)
      PROVE  QuestionInv'
  <2>1. question.kind = "economics" /\ question \in EconomicQuestion /\ value \in CostValue
    BY <1>3, PlanningAssumption, Zenon DEF reprice, QuestionInv
  <2>2. question' = [question EXCEPT !.inputs[field] = value] /\ answer' = AnswerTo(question')
    BY <1>3, Zenon DEF reprice, AsksAgain
  <2>3. [question.inputs EXCEPT ![field] = value] \in EconomicInputs
    BY <2>1, Zenon DEF EconomicQuestion, EconomicInputs, Component
  <2>4. question' \in EconomicQuestion /\ question'.kind = "economics"
    BY <2>1, <2>2, <2>3, Zenon DEF EconomicQuestion
  <2> QED  BY <2>2, <2>4, Zenon DEF QuestionInv, EconomicQuestion
<1>4. ASSUME NEW size \in {Size(bytes) : bytes \in Sizes} \cup {NoSize}, resize(size)
      PROVE  QuestionInv'
  <2>1. question \in PriceQuestion /\ size \in SizeValue
    <3>1. CASE size = NoSize
      BY <1>4, <3>1, Zenon DEF resize, QuestionInv, NoSize, SizeValue
    <3>2. ASSUME NEW bytes \in Sizes, size = Size(bytes) PROVE size \in SizeValue
      BY <3>2, PlanningAssumption, Zenon DEF Size, SizeValue
    <3> QED  BY <1>4, <3>1, <3>2, Zenon DEF resize, QuestionInv
  <2>2. question' = [question EXCEPT !.size = size] /\ answer' = AnswerTo(question')
    BY <1>4, Zenon DEF resize, AsksAgain
  <2>3. question' \in PriceQuestion /\ question'.kind = "price" /\ "kind" \in DOMAIN question'
    BY <2>1, <2>2, Zenon DEF PriceQuestion
  <2> QED  BY <2>2, <2>3, Zenon DEF QuestionInv
<1>5. ASSUME NEW field \in {"minimum", "desired", "maximum"} \cup Diversity, NEW count \in Demands,
             require(field, count)
      PROVE  QuestionInv'
  <2>1. question \in PolicyQuestion /\ count \in Nat
    BY <1>5, PlanningAssumption, Zenon DEF require, QuestionInv
  <2>2. question' = [question EXCEPT !.requirements[field] = count] /\ answer' = AnswerTo(question')
    BY <1>5, Zenon DEF require, AsksAgain
  <2>3. [question.requirements EXCEPT ![field] = count] \in ReplicationRequirements
    BY <2>1, Zenon DEF PolicyQuestion, ReplicationRequirements, Diversity
  <2>4. question' \in PolicyQuestion /\ question'.kind = "policy" /\ "kind" \in DOMAIN question'
    BY <2>1, <2>2, <2>3, Zenon DEF PolicyQuestion
  <2> QED  BY <2>2, <2>4, Zenon DEF QuestionInv
<1> QED  BY <1>1, <1>2, <1>3, <1>4, <1>5, QuestionSteps, Zenon

\* The questions, from one that a caller can ask, whatever the fabric does meanwhile.
QuestionRuns == QuestionInv /\ [][PlanningNext]_<<vars, questions>>

\* Callers ask questions, and every one is answered as it was asked.
THEOREM QuestionsInductive == QuestionRuns => []QuestionInv
<1>1. QuestionInv /\ [PlanningNext]_<<vars, questions>> => QuestionInv'
  BY QuestionInvStep, Zenon
<1> QED  BY <1>1, PTL DEF QuestionRuns

-----------------------------------------------------------------------------
(* Prices, requirements and decisions *)

\* A price that a policy computes is exact, or unknown: it never overflows into a wrong one
\* (src/cost.cpp, cost_scale).
THEOREM KnownPricesAreExact == QuestionRuns => []KnownPriceIsExact
<1>1. QuestionInv => KnownPriceIsExact
  <2> SUFFICES ASSUME QuestionInv, question.kind = "price", known(answer), question.size.known
               PROVE  /\ answer.micro_units = Quotient(question.unit * question.size.bytes, Mib)
                      /\ answer.micro_units \in Int64
    BY Zenon DEF KnownPriceIsExact
  <2>1. question \in PriceQuestion
    BY Zenon DEF QuestionInv
  <2>2. /\ answer = price_bytes(question.source, question.unit, question.size)
        /\ question.source \in CostSource /\ question.unit \in Int64 /\ question.size \in SizeValue
    BY <2>1, Zenon DEF QuestionInv, AnswerTo, PriceQuestion
  <2> QED  BY <2>2, PriceIsExact, Zenon
<1> QED  BY <1>1, QuestionsInductive, PTL

\* The requirements that take effect are satisfiable, final and no less diverse than asked
\* (src/model.cpp, effective_requirements).
THEOREM RequirementsAreSettled == QuestionRuns => []RequirementsSettle
<1>1. QuestionInv => RequirementsSettle
  <2> SUFFICES ASSUME QuestionInv, question.kind = "policy"
               PROVE  /\ 1 <= answer.minimum /\ answer.minimum <= answer.desired
                      /\ answer.desired <= answer.maximum
                      /\ effective_requirements(answer) = answer
                      /\ question.requirements.form # "SINGLE" =>
                           \A field \in Diversity : answer[field] >= question.requirements[field]
    BY Zenon DEF RequirementsSettle
  <2>1. question \in PolicyQuestion
    BY Zenon DEF QuestionInv
  <2>2. /\ answer = effective_requirements(question.requirements)
        /\ question.requirements \in ReplicationRequirements
    BY <2>1, Zenon DEF QuestionInv, AnswerTo, PolicyQuestion
  <2>3. ASSUME question.requirements.form # "SINGLE", NEW field \in Diversity
        PROVE  answer[field] >= question.requirements[field]
    BY <2>2, <2>3, EffectiveDiversity, Zenon DEF Diversity
  <2> QED  BY <2>2, <2>3, EffectiveCountsAreOrdered, EffectiveRequirementsAreFinal, Zenon
<1> QED  BY <1>1, QuestionsInductive, PTL

\* A transfer that becomes dearer on the same evidence never comes to be preferred
\* (src/economics.cpp, decide_action).
THEOREM DearerTransfersStayRefused == QuestionRuns => DearerTransferNeverPreferred
<1>1. ASSUME QuestionInv, QuestionInv', question.kind = "economics",
             question'.kind = "economics",
             NEW field \in {"transfer_cost", "egress_cost"},
             question' = [question EXCEPT !.inputs[field] = question'.inputs[field]],
             known(question.inputs[field]),
             question'.inputs[field].source = question.inputs[field].source,
             question'.inputs[field].micro_units >= question.inputs[field].micro_units,
             answer = "RECONSTRUCT"
      PROVE  answer' # "REPLICATE"
  <2> DEFINE i == question.inputs
             p == question'.inputs[field]
  <2>1. question \in EconomicQuestion /\ question' \in EconomicQuestion
        /\ answer = decide_action(i) /\ answer' = decide_action(question'.inputs)
    BY <1>1, Zenon DEF QuestionInv, AnswerTo
  <2>2. i \in EconomicInputs /\ p \in CostValue /\ i[field] \in CostValue
    BY <2>1, Zenon DEF EconomicQuestion, EconomicInputs
  <2>3. question'.inputs = [i EXCEPT ![field] = p]
    BY <1>1, <2>1, Zenon DEF EconomicQuestion
  <2>4. Dearer(i[field], p)
    BY <1>1, <2>2, PriceFields, Zenon DEF Dearer, Int64, MinInt
  <2> HIDE DEF i, p
  <2>5. decide_action(i) = "RECONSTRUCT"
    BY <1>1, <2>1, Zenon
  <2>6. decide_action([i EXCEPT ![field] = p]) = "RECONSTRUCT"
    BY <2>2, <2>4, <2>5, DearerTransferIsNeverPreferred, Zenon
  <2>7. answer' = "RECONSTRUCT"
    BY <2>1, <2>3, <2>6, Zenon
  <2> QED  BY <2>7, Zenon
<1>2. QuestionInv /\ QuestionInv' /\ [PlanningNext]_<<vars, questions>>
        => [/\ question.kind = "economics" /\ question'.kind = "economics"
            /\ \E field \in {"transfer_cost", "egress_cost"} :
                 /\ question' = [question EXCEPT !.inputs[field] = question'.inputs[field]]
                 /\ known(question.inputs[field])
                 /\ question'.inputs[field].source = question.inputs[field].source
                 /\ question'.inputs[field].micro_units >= question.inputs[field].micro_units
            => ~(answer = "RECONSTRUCT" /\ answer' = "REPLICATE")]_questions
  BY <1>1, Zenon
<1> QED  BY <1>2, QuestionsInductive, PTL DEF QuestionRuns, DearerTransferNeverPreferred

-----------------------------------------------------------------------------
(* The order of the candidates *)

\* What an evaluation that was asked, and one that is asked again, are answered.
LEMMA EvaluationsAnswered ==
  ASSUME QuestionInv, QuestionInv', Evaluates, AsksEvaluation
  PROVE  /\ question.build \in Build /\ question'.build = question.build
         /\ PlacementRequest(question.request) /\ PlacementRequest(question'.request)
         /\ SameTerms(question.request, question'.request)
         /\ answer = evaluate_placement(question.build, question.request)
         /\ answer' = evaluate_placement(question.build, question'.request)
<1>1. PICK s : Offering(question, s)
  BY Zenon DEF AsksEvaluation
<1>2. /\ question.kind = "evaluate" /\ question'.kind = "evaluate"
      /\ question'.build = question.build
      /\ \A term \in Terms : question'.request[term] = question.request[term]
  BY <1>1, Zenon DEF Offering, Evaluates
<1>3. Evaluation(question) /\ Evaluation(question)'
  BY <1>2, Zenon DEF QuestionInv
<1>4. answer = AnswerTo(question) /\ answer' = AnswerTo(question)'
  BY Zenon DEF QuestionInv
<1>5. /\ AnswerTo(question) = evaluate_placement(question.build, question.request)
      /\ AnswerTo(question)' = evaluate_placement(question'.build, question'.request)
  BY <1>2, Zenon DEF AnswerTo
<1> QED  BY <1>2, <1>3, <1>4, <1>5, Zenon DEF Evaluation, SameTerms

\* A step between two evaluations that is not a stutter asks an evaluation again.
LEMMA EvaluationSteps ==
  ASSUME QuestionInv, [PlanningNext]_<<vars, questions>>, Evaluates,
         question' # question \/ answer' # answer
  PROVE  AsksEvaluation
<1>1. question.kind = "evaluate" /\ ~UNCHANGED questions
  BY Zenon DEF Evaluates, questions
<1>2. \A field, value : ~reprice(field, value) /\ ~require(field, value)
  BY <1>1, Zenon DEF reprice, require
<1>3. \A size : ~resize(size)
  BY <1>1, Zenon DEF resize
<1> QED  BY <1>1, <1>2, <1>3, QuestionSteps, Zenon

\* The order of the candidates never matters.
THEOREM ChoicesIgnoreOrder == QuestionRuns => ChoiceIgnoresOrder
<1> DEFINE Permutes == Range(question'.request.candidates) = Range(question.request.candidates)
<1>1. ASSUME QuestionInv, QuestionInv', [PlanningNext]_<<vars, questions>>, Evaluates, Permutes
      PROVE  answer' = answer
  <2>1. SUFFICES ASSUME answer' # answer PROVE FALSE
    BY Zenon
  <2>2. AsksEvaluation
    BY <1>1, <2>1, EvaluationSteps, Zenon
  <2> QED  BY <1>1, <2>1, <2>2, EvaluationsAnswered, SameOffersSameAnswer, Zenon
<1>2. /\ QuestionInv /\ QuestionInv' /\ [PlanningNext]_<<vars, questions>> =>
        [Evaluates /\ question'.kind = "evaluate" /\ Permutes => answer' = answer]_questions
  BY <1>1, Zenon
<1>3. QuestionRuns => []QuestionInv
  BY QuestionsInductive, Zenon
<1> QED  BY <1>2, <1>3, PTL DEF QuestionRuns, ChoiceIgnoresOrder

-----------------------------------------------------------------------------
(* Evidence that is lost *)

\* The part of MissingEvidenceNeverHelps that is about one candidate.
LosesEvidence(i) ==
  LET before == question.request.candidates[i]
      after == question'.request.candidates[i]
  IN  /\ before.cluster = after.cluster
      /\ \/ \E field \in Quoted : known(before[field]) /\ ~known(after[field])
         \/ /\ known(before.expected_reuse) /\ ~known(after.expected_reuse)
            /\ ~known(question.request.state.expected_reuse)

\* A step that takes evidence from the i-th candidate reorders, or takes it and no more.
LEMMA LossSteps ==
  ASSUME QuestionInv, QuestionInv', Evaluates, AsksEvaluation,
         NEW i \in DOMAIN question.request.candidates, LosesEvidence(i)
  PROVE  \/ Range(question'.request.candidates) = Range(question.request.candidates)
         \/ Poorer(question.request, question'.request, i)
<1> DEFINE q == question.request
           r == question'.request
           s == question.request.candidates
<1>1. PlacementRequest(q) /\ PlacementRequest(r) /\ SameTerms(q, r) /\ Candidates(s)
  BY EvaluationsAnswered, Zenon DEF PlacementRequest
<1>2. ASSUME NEW j \in DOMAIN s, j + 1 \in DOMAIN s, Offering(question, Swapped(s, j))
      PROVE  Range(question'.request.candidates) = Range(question.request.candidates)
  BY <1>1, <1>2, SwappedCandidates, Zenon DEF Offering
<1>3. ASSUME NEW j \in DOMAIN s, NEW field, NEW value,
             \/ field \in Quoted /\ value \in CostValue
             \/ field = "expected_reuse" /\ value \in ReuseValue,
             Offering(question, Edited(s, j, field, value))
      PROVE  Poorer(question.request, question'.request, i)
  <2> DEFINE t == Edited(s, j, field, value)
  <2>1. /\ Candidates(t) /\ DOMAIN t = DOMAIN s
        /\ \A k \in DOMAIN s \ {j} : t[k] = s[k]
        /\ t[j][field] = value
        /\ \A f \in DOMAIN s[j] \ {field} : t[j][f] = s[j][f]
    BY <1>1, <1>3, EditedCandidates
  <2>2. r.candidates = t
    BY <1>3, Zenon DEF Offering
  <2> HIDE DEF t
  <2>3. /\ Candidate(s[j]) /\ Candidate(t[j])
        /\ CandidateField \subseteq DOMAIN s[j]
    BY <1>1, <2>1, Zenon DEF Candidates, Candidate
  <2>4. PICK lost \in Evidence :
          /\ known(s[i][lost]) /\ ~known(t[i][lost])
          /\ lost = "expected_reuse" => ~known(q.state.expected_reuse)
    <3>1. CASE \E f \in Quoted : known(s[i][f]) /\ ~known(t[i][f])
      BY <3>1, Zenon DEF Evidence, Quoted
    <3>2. CASE /\ known(s[i].expected_reuse) /\ ~known(t[i].expected_reuse)
               /\ ~known(q.state.expected_reuse)
      BY <3>2, Zenon DEF Evidence
    <3> QED  BY <2>2, <3>1, <3>2, Zenon DEF LosesEvidence
  <2>5. lost \in CandidateField
    BY Zenon DEF Evidence, Quoted, CandidateField
  <2>6. j = i
    BY <2>1, <2>4, Zenon
  <2>7. field = lost
    BY <2>1, <2>3, <2>4, <2>5, <2>6, Zenon
  <2>8. Lost(s[i], t[i], q)
    BY <2>1, <2>3, <2>4, <2>6, <2>7, Zenon DEF Lost
  <2> QED  BY <1>1, <2>1, <2>2, <2>6, <2>8, Zenon DEF Poorer
<1> QED  BY <1>2, <1>3, Zenon DEF AsksEvaluation

\* Missing evidence never makes a candidate the choice.
THEOREM MissingEvidenceIsNeverPreferred == QuestionRuns => MissingEvidenceNeverHelps
<1> DEFINE Exact == question.build = "tests overflow" \/ WeightsFit(question.request)
           Chosen(i) == answer'.chosen = question'.request.candidates[i].cluster
           Was(i) == answer.chosen = question'.request.candidates[i].cluster
<1>1. ASSUME QuestionInv, QuestionInv', [PlanningNext]_<<vars, questions>>, Evaluates, Exact,
             question' # question \/ answer' # answer,
             NEW i \in DOMAIN question.request.candidates, LosesEvidence(i), Chosen(i)
      PROVE  Was(i)
  <2> DEFINE q == question.request
             r == question'.request
             build == question.build
  <2>1. AsksEvaluation
    BY <1>1, EvaluationSteps, Zenon
  <2>2. /\ build \in Build /\ PlacementRequest(q) /\ PlacementRequest(r) /\ SameTerms(q, r)
        /\ answer = evaluate_placement(build, q) /\ answer' = evaluate_placement(build, r)
    BY <1>1, <2>1, EvaluationsAnswered, Zenon
  <2>3. \A factor \in RankingFactor : InRange(build, q.weights[factor])
    BY <1>1, <2>2, Zenon DEF InRange, WeightsFit, PlacementRequest
  <2>4. CASE Range(r.candidates) = Range(q.candidates)
    <3>1. answer' = answer
      BY <2>2, <2>4, SameOffersSameAnswer, Zenon
    <3> QED  BY <1>1, <3>1, Zenon
  <2>5. CASE Poorer(q, r, i)
    <3> HIDE DEF q, r, build
    <3>1. evaluate_placement(build, r).chosen = r.candidates[i].cluster
      BY <1>1, <2>2, Zenon DEF r
    <3>2. evaluate_placement(build, q).chosen = r.candidates[i].cluster
      BY <2>2, <2>3, <2>5, <3>1, PoorerChoice
    <3> QED  BY <2>2, <3>2, Zenon DEF r
  <2> QED  BY <1>1, <2>1, <2>4, <2>5, LossSteps, Zenon
<1>2. ASSUME QuestionInv, QuestionInv', [PlanningNext]_<<vars, questions>>,
             question' # question \/ answer' # answer, Evaluates, Exact
      PROVE  \A i \in DOMAIN question.request.candidates :
               LosesEvidence(i) /\ Chosen(i) => Was(i)
  BY <1>1, <1>2, Zenon
<1>3. QuestionInv /\ QuestionInv' /\ [PlanningNext]_<<vars, questions>> =>
        [/\ Evaluates /\ question'.kind = "evaluate" /\ Exact
         => \A i \in DOMAIN question.request.candidates :
              LET before == question.request.candidates[i]
                  after == question'.request.candidates[i]
              IN  (/\ before.cluster = after.cluster
                   /\ \/ \E field \in Quoted : known(before[field]) /\ ~known(after[field])
                      \/ /\ known(before.expected_reuse) /\ ~known(after.expected_reuse)
                         /\ ~known(question.request.state.expected_reuse)
                   /\ answer'.chosen = after.cluster)
                  => answer.chosen = after.cluster]_questions
  <2>1. questions' # questions => question' # question \/ answer' # answer
    BY Zenon DEF questions
  <2> QED  BY <1>2, <2>1, Zenon DEF LosesEvidence
<1>4. QuestionRuns => []QuestionInv
  BY QuestionsInductive, Zenon
<1> QED  BY <1>3, <1>4, PTL DEF QuestionRuns, MissingEvidenceNeverHelps

-----------------------------------------------------------------------------
(* Plans *)

\* A finite set of numbers can be listed in order.
LEMMA Listed ==
  ASSUME NEW S \in SUBSET Nat, IsFiniteSet(S)
  PROVE  InOrder(S) \in [1 .. Cardinality(S) -> S] /\ Cardinality(S) \in Nat
<1> DEFINE Ordered(T, s) == \A i, j \in DOMAIN s : i < j => s[i] < s[j]
           P == {n \in Nat : \A T \in SUBSET Nat :
                   IsFiniteSet(T) /\ Cardinality(T) = n => \E s \in [1 .. n -> T] : Ordered(T, s)}
<1>1. 0 \in P
  <2> SUFFICES ASSUME NEW T \in SUBSET Nat
               PROVE  \E s \in [1 .. 0 -> T] : Ordered(T, s)
    BY Zenon
  <2> DEFINE s == [i \in 1 .. 0 |-> 0]
  <2>1. s \in [1 .. 0 -> T] /\ Ordered(T, s)
    OBVIOUS
  <2> QED  BY <2>1, Zenon
<1>2. ASSUME NEW n \in Nat, n \in P PROVE n + 1 \in P
  <2> SUFFICES ASSUME NEW T \in SUBSET Nat, IsFiniteSet(T), Cardinality(T) = n + 1
               PROVE  \E s \in [1 .. n + 1 -> T] : Ordered(T, s)
    OBVIOUS
  <2>1. T # {}
    BY FS_EmptySet
  <2> DEFINE m == Least(T)
             U == T \ {m}
  <2>2. m \in T /\ \A x \in T : m <= x
    BY <2>1, LeastNumber, Zenon
  <2>3. IsFiniteSet(U) /\ Cardinality(U) = n
    BY <2>2, FS_RemoveElement
  <2> HIDE DEF m
  <2>4. \A x \in U : m < x
    <3>1. m \in Nat /\ \A x \in T : x \in Nat
      BY <2>2, Zenon
    <3> QED  BY <2>2, <3>1
  <2>5. PICK u \in [1 .. n -> U] : Ordered(U, u)
    BY <1>2, <2>3, Zenon
  <2> DEFINE s == [i \in 1 .. n + 1 |-> IF i = 1 THEN m ELSE u[i - 1]]
  <2>6. \A i \in 2 .. n + 1 : i - 1 \in 1 .. n /\ s[i] = u[i - 1] /\ s[i] \in U
    OBVIOUS
  <2>7. s[1] = m
    OBVIOUS
  <2>8. \A i \in 1 .. n + 1 : i = 1 \/ i \in 2 .. n + 1
    OBVIOUS
  <2>9. s \in [1 .. n + 1 -> T]
    BY <2>2, <2>6, <2>7, <2>8, Zenon
  <2>10. ASSUME NEW i \in 1 .. n + 1, NEW j \in 1 .. n + 1, i < j
         PROVE  s[i] < s[j]
    <3>1. j \in 2 .. n + 1
      BY <2>10
    <3>2. CASE i = 1
      BY <2>4, <2>6, <2>7, <3>1, <3>2, Zenon
    <3>3. CASE i \in 2 .. n + 1
      <4>1. i - 1 \in DOMAIN u /\ j - 1 \in DOMAIN u /\ i - 1 < j - 1
        BY <2>6, <2>10, <3>1, <3>3
      <4> QED  BY <2>5, <2>6, <3>1, <3>3, <4>1, Zenon
    <3> QED  BY <2>8, <3>2, <3>3, Zenon
  <2> QED  BY <2>9, <2>10, Zenon
<1>3. Cardinality(S) \in Nat
  BY FS_CardinalityType, Zenon
<1> HIDE DEF P
<1>4. Cardinality(S) \in P
  BY <1>1, <1>2, <1>3, ByInduction, Zenon
<1>5. \E s \in [1 .. Cardinality(S) -> S] : \A i, j \in DOMAIN s : i < j => s[i] < s[j]
  BY <1>4, Zenon DEF P
<1> QED  BY <1>3, <1>5, Zenon DEF InOrder

\* Every price is a price.
LEMMA PriceType ==
  ASSUME NEW source \in CostSource, NEW unit \in Int64, NEW size \in SizeValue
  PROVE  price_bytes(source, unit, size) \in CostValue
<1>1. 0 \in Int64 /\ unknown \in CostValue
  BY CostAssumption DEF Int64, MinInt, unknown, CostValue, CostSource
<1>2. Price(source, 0) \in CostValue
  BY <1>1, Zenon DEF Price, CostValue
<1>3. CASE source = "UNKNOWN" \/ unit = 0 \/ ~size.known
  BY <1>1, <1>2, <1>3, Zenon DEF price_bytes
<1>4. CASE source # "UNKNOWN" /\ unit # 0 /\ size.known
  <2> DEFINE p == Price(source, unit)
  <2>1. price_bytes(source, unit, size) = cost_scale(p, size.bytes, Mib)
    BY <1>4, Zenon DEF price_bytes
  <2>2. p.source = source
    BY Zenon DEF Price
  <2> HIDE DEF p
  <2>3. \/ cost_scale(p, size.bytes, Mib) = unknown
        \/ cost_scale(p, size.bytes, Mib)
             = [source |-> source, micro_units |-> cost_scale(p, size.bytes, Mib).micro_units]
    BY <2>2, Zenon DEF cost_scale, Price
  <2> DEFINE a == price_bytes(source, unit, size)
  <2>4. a = unknown \/ (a = [source |-> source, micro_units |-> a.micro_units] /\ known(a))
    BY <1>4, <2>1, <2>3 DEF known
  <2>5. known(a) => a.micro_units \in Int64
    BY <1>4, PriceIsExact, Zenon
  <2> HIDE DEF a
  <2>6. a \in CostValue
    BY <1>1, <2>4, <2>5 DEF CostValue
  <2> QED  BY <2>6, Zenon DEF a
<1> QED  BY <1>3, <1>4, Zenon

\* What the planner says of a cluster is what a candidate is.
LEMMA CandidateType ==
  ASSUME TypeOK, NEW k, NEW source, NEW c \in DOMAIN clusters
  PROVE  LET d == build_candidate(k, c, source)
         IN  /\ Candidate(d) /\ d.cluster = c /\ d.live = clusters[c].live_authority
             /\ d.already_hosts_current_replica = already_hosts_current_replica(k, c)
<1> DEFINE size == StateFacts.logical_size
           facts == Facts[c]
           transfer_bytes == IF source # 0 THEN ReplicaSize(source) ELSE size
           PriceOf(unit) == price_bytes(Prices.source, unit, size)
           transfer == price_bytes(Prices.source, Prices.transfer, transfer_bytes)
           ticks == predicted_transfer_ticks(transfer_bytes, facts.inbound)
           d == build_candidate(k, c, source)
           inFlight == {o \in DOMAIN operations :
                          /\ ~OperationIsTerminal(operations[o])
                          /\ replicas[operations[o].destination].cluster = c}
           fresh == [present |-> clusters[c].evidence_present,
                     revalidation_required |-> ~clusters[c].evidence_present,
                     published_at |-> 0]
           compatible == evaluate_compatibility(StateFacts.required, 1,
                           cluster_compatibility_descriptor(facts), 1, FALSE)
           verified == source # 0 /\ replicas[source].integrity = "VERIFIED"
           present == source # 0 /\ ~replicas[source].absent
           rebuilt == IF known(StateFacts.reconstruction_cost)
                        THEN StateFacts.reconstruction_cost
                        ELSE PriceOf(Prices.compute)
<1>1. /\ DOMAIN clusters \subseteq Cluster /\ DOMAIN replicas \subseteq ReplicaId
      /\ DOMAIN operations \subseteq OperationId
  BY Zenon DEF TypeOK, IsMap
<1>2. c \in Nat /\ facts.inbound \in Nat /\ facts.utilization \in Nat
  BY <1>1, PlannerAssumption, Zenon
<1>3. /\ size \in SizeValue /\ transfer_bytes \in SizeValue
      /\ StateFacts.expected_reuse \in ReuseValue /\ StateFacts.reconstruction_cost \in CostValue
  BY PlannerAssumption, Zenon DEF ReplicaSize
<1>4. /\ transfer \in CostValue /\ PriceOf(Prices.storage) \in CostValue
      /\ PriceOf(Prices.compute) \in CostValue
  <2>1. /\ Prices.source \in CostSource /\ Prices.transfer \in Int64
        /\ Prices.storage \in Int64 /\ Prices.compute \in Int64
    BY PlannerAssumption, Zenon
  <2> QED  BY <1>3, <2>1, PriceType, Zenon
<1>5. Cardinality(ReplicasIn(k, c)) \in Nat /\ Cardinality(inFlight) \in Nat
  <2>1. ReplicasIn(k, c) \subseteq ReplicaId /\ inFlight \subseteq OperationId
    BY <1>1, Zenon DEF ReplicasIn
  <2>2. IsFiniteSet(ReplicaId) /\ IsFiniteSet(OperationId)
    BY PlannerAssumption, Zenon
  <2> HIDE DEF inFlight
  <2>3. IsFiniteSet(ReplicasIn(k, c)) /\ IsFiniteSet(inFlight)
    BY <2>1, <2>2, FS_Subset, Zenon
  <2> QED  BY <2>3, FS_CardinalityType, Zenon
<1>6. ticks \in Nat
  <2>1. transfer_bytes.bytes \in Nat
    BY <1>3, Zenon DEF SizeValue
  <2> DEFINE bytes == transfer_bytes.bytes
             inbound == facts.inbound
  <2>2. ASSUME inbound > 0 PROVE ((bytes + inbound - 1) % (MaxUint + 1)) \div inbound \in Nat
    <3>1. bytes \in Nat /\ inbound \in Nat \ {0}
      BY <1>2, <2>1, <2>2
    <3> HIDE DEF bytes, inbound
    <3>2. (bytes + inbound - 1) % (MaxUint + 1) \in Nat
      BY <3>1, CostAssumption DEF MaxUint
    <3> QED  BY <3>1, <3>2
  <2> QED  BY <1>2, <2>2, Zenon DEF predicted_transfer_ticks
<1>7. /\ CandidateField \subseteq DOMAIN d /\ d.cluster = c
      /\ d.live = clusters[c].live_authority
      /\ d.already_hosts_current_replica = already_hosts_current_replica(k, c)
      /\ d.expected_reuse = StateFacts.expected_reuse
      /\ d.transfer_cost = transfer /\ d.storage_cost = PriceOf(Prices.storage)
      /\ d.compute_cost = PriceOf(Prices.compute)
      /\ d.reconstruction_cost = rebuilt
      /\ d.inbound = facts.inbound /\ d.utilization = facts.utilization
      /\ d.predicted_transfer_ticks = ticks
      /\ d.existing_replica_count = Cardinality(ReplicasIn(k, c))
      /\ d.in_flight_operations = Cardinality(inFlight)
      /\ d.region_affinity = 0 /\ d.affinity_score = 0 /\ d.expected_future_demand = 0
  <2>1. d = [cluster |-> c, region |-> facts.region, failure_domain |-> facts.failure_domain,
             tags |-> facts.tags, storage_classes |-> facts.storage_classes,
             encryption_at_rest |-> facts.encryption_at_rest, attestation |-> facts.attestation,
             total |-> facts.total, used |-> facts.used, inbound |-> facts.inbound,
             utilization |-> facts.utilization, live |-> clusters[c].live_authority,
             health |-> HealthOf(c), evidence |-> fresh, logical_size |-> size,
             expected_reuse |-> StateFacts.expected_reuse,
             achievable_durability |-> achievable_durability(StateFacts.durability),
             compatibility |-> compatible, integrity_evidence_available |-> verified,
             transfer_cost |-> transfer,
             storage_cost |-> PriceOf(Prices.storage), compute_cost |-> PriceOf(Prices.compute),
             reconstruction_cost |-> rebuilt,
             predicted_transfer_ticks |-> ticks,
             source_cluster_healthy |-> present,
             existing_replica_count |-> Cardinality(ReplicasIn(k, c)),
             already_hosts_current_replica |-> already_hosts_current_replica(k, c),
             in_flight_operations |-> Cardinality(inFlight),
             affinity_score |-> 0, region_affinity |-> 0, expected_future_demand |-> 0]
    BY Zenon DEF build_candidate
  <2> HIDE DEF d, inFlight, size, facts, PriceOf, transfer_bytes, transfer, ticks,
                fresh, compatible, verified, present, rebuilt
  <2>2. CandidateField \subseteq DOMAIN d
    BY <2>1, SMT DEF CandidateField
  <2>3. /\ d.cluster = c /\ d.live = clusters[c].live_authority
        /\ d.already_hosts_current_replica = already_hosts_current_replica(k, c)
        /\ d.expected_reuse = StateFacts.expected_reuse
    BY <2>1, Zenon
  <2>4. /\ d.transfer_cost = transfer /\ d.storage_cost = PriceOf(Prices.storage)
        /\ d.compute_cost = PriceOf(Prices.compute) /\ d.reconstruction_cost = rebuilt
    BY <2>1, Zenon
  <2>5. /\ d.inbound = facts.inbound /\ d.utilization = facts.utilization
        /\ d.predicted_transfer_ticks = ticks
        /\ d.existing_replica_count = Cardinality(ReplicasIn(k, c))
    BY <2>1, Zenon
  <2>6. /\ d.in_flight_operations = Cardinality(inFlight)
        /\ d.region_affinity = 0 /\ d.affinity_score = 0 /\ d.expected_future_demand = 0
    BY <2>1, Zenon
  <2> QED  BY <2>2, <2>3, <2>4, <2>5, <2>6, Zenon
<1>8. rebuilt \in CostValue
  BY <1>3, <1>4, Zenon
<1> HIDE DEF rebuilt
<1> HIDE DEF d, inFlight, size, facts, PriceOf, transfer_bytes, transfer, ticks
<1>9. Candidate(d)
  BY <1>2, <1>3, <1>4, <1>5, <1>6, <1>7, <1>8 DEF Candidate
<1> QED  BY <1>7, <1>9, Zenon DEF d

\* A plan answers a well-formed request over the clusters that are not retired.
LEMMA PlanRequest ==
  ASSUME TypeOK, NEW k, NEW source
  PROVE  \E request : /\ PlacementRequest(request)
                      /\ plan_into(k, source) = evaluate_placement(TheBuild, request)
                      /\ request.destination_rules = Policy.destination_rules
                      /\ \A i \in DOMAIN request.candidates :
                           \E c \in DOMAIN clusters :
                             /\ clusters[c].lifecycle # "RETIRED"
                             /\ request.candidates[i] = build_candidate(k, c, source)
<1> DEFINE kept == {c \in DOMAIN clusters : clusters[c].lifecycle # "RETIRED"}
           offered == InOrder(kept)
           candidates == [i \in DOMAIN offered |-> build_candidate(k, offered[i], source)]
           request == build_request(k, candidates)
<1>1. kept \in SUBSET Nat /\ IsFiniteSet(kept)
  <2>1. DOMAIN clusters \subseteq Cluster
    BY Zenon DEF TypeOK, IsMap
  <2>2. Cluster \subseteq Nat /\ IsFiniteSet(Cluster)
    BY PlannerAssumption, Zenon
  <2>3. kept \in SUBSET Cluster
    BY <2>1, Zenon
  <2> HIDE DEF kept
  <2> QED  BY <2>2, <2>3, FS_Subset, Zenon
<1>2. offered \in [1 .. Cardinality(kept) -> kept] /\ Cardinality(kept) \in Nat
  <2> HIDE DEF kept
  <2> QED  BY <1>1, Listed, Zenon
<1>3. \A i \in DOMAIN offered : offered[i] \in kept
  BY <1>2, Zenon
<1>4. plan_into(k, source) = evaluate_placement(TheBuild, request)
  BY Zenon DEF plan_into
<1> HIDE DEF offered
<1>5. Candidates(candidates)
  <2>1. DOMAIN candidates = 1 .. Cardinality(kept)
    BY <1>2, Zenon
  <2>2. ASSUME NEW i \in DOMAIN offered
        PROVE  Candidate(build_candidate(k, offered[i], source))
    <3>1. offered[i] \in DOMAIN clusters
      BY <1>3, Zenon
    <3> QED  BY <3>1, CandidateType, Zenon
  <2>3. \A i \in DOMAIN candidates : Candidate(candidates[i])
    BY <2>2, Zenon
  <2> HIDE DEF candidates
  <2> QED  BY <1>2, <2>1, <2>3, Zenon DEF Candidates
<1>6. \A i \in DOMAIN candidates :
        \E c \in DOMAIN clusters : /\ clusters[c].lifecycle # "RETIRED"
                                   /\ candidates[i] = build_candidate(k, c, source)
  BY <1>3, Zenon
<1> HIDE DEF candidates
<1>7. /\ Terms \cup {"candidates"} \subseteq DOMAIN request
      /\ request.weights = Policy.weights /\ request.candidates = candidates
      /\ request.destination_rules = Policy.destination_rules
      /\ request.state.expected_reuse = StateFacts.expected_reuse
  BY Zenon DEF build_request, Terms
<1> HIDE DEF request
<1>8. /\ Policy.weights \in RankingWeights /\ StateFacts.expected_reuse \in ReuseValue
  BY PlannerAssumption, Zenon
<1>9. PlacementRequest(request)
  BY <1>5, <1>7, <1>8, Zenon DEF PlacementRequest, RankingWeights
<1> QED  BY <1>4, <1>6, <1>7, <1>9, Zenon

\* Under destination rules that keep the default, no plan made in a well-typed fabric chooses
\* a destination that is dead or hosts the generation.
THEOREM PlansAreLegal ==
  ASSUME ~Policy.destination_rules.allow_same_cluster
  PROVE  TypeOK => PlanIsLegal
<1> SUFFICES ASSUME TypeOK, NEW k \in DOMAIN states, NEW source \in Sources(k)
             PROVE  plan_into(k, source).chosen \in legal_destinations(k) \cup {NoCluster}
  BY Zenon DEF PlanIsLegal
<1>1. PICK q : /\ PlacementRequest(q)
               /\ plan_into(k, source) = evaluate_placement(TheBuild, q)
               /\ q.destination_rules = Policy.destination_rules
               /\ \A i \in DOMAIN q.candidates :
                    \E c \in DOMAIN clusters :
                      /\ clusters[c].lifecycle # "RETIRED"
                      /\ q.candidates[i] = build_candidate(k, c, source)
  BY PlanRequest, Zenon
<1>2. TheBuild \in Build
  BY PlannerAssumption, Zenon
<1>3. CASE Accepted(q) = {}
  BY <1>1, <1>2, <1>3, ChosenIsUnbeaten
<1>4. CASE Accepted(q) # {}
  <2>1. PICK i : /\ Unbeaten(TheBuild, q, i)
                 /\ plan_into(k, source).chosen = RankOf(TheBuild, q, i).cluster
    BY <1>1, <1>2, <1>4, ChosenIsUnbeaten
  <2>2. i \in DOMAIN q.candidates /\ evaluate_hard_constraints(q.candidates[i], q) = "none"
    BY <2>1, Zenon DEF Unbeaten, Accepted
  <2>3. PICK c \in DOMAIN clusters : /\ clusters[c].lifecycle # "RETIRED"
                                     /\ q.candidates[i] = build_candidate(k, c, source)
    BY <1>1, <2>2, Zenon
  <2> DEFINE d == build_candidate(k, c, source)
  <2>4. /\ d.cluster = c /\ d.live = clusters[c].live_authority
        /\ d.already_hosts_current_replica = already_hosts_current_replica(k, c)
    BY CandidateType
  <2> HIDE DEF d
  <2>5. d.live /\ ~d.already_hosts_current_replica
    BY <1>1, <2>2, <2>3, AcceptedIsLegal, Zenon DEF d
  <2>6. plan_into(k, source).chosen = c
    BY <2>1, <2>3, <2>4, Zenon DEF RankOf, score_candidate, d
  <2>7. ASSUME NEW r \in replicas_of_state(k), replicas[r].cluster = c,
               ~is_terminal(replicas[r]), replicas[r].commit_recorded
        PROVE  FALSE
    <3>1. r \in DOMAIN replicas /\ replicas[r].key = k
      BY Zenon DEF replicas_of_state
    <3>2. r \in ReplicasIn(k, c)
      BY <2>7, <3>1, Zenon DEF ReplicasIn
    <3>3. already_hosts_current_replica(k, c)
      BY <2>7, <3>1, <3>2, Zenon DEF already_hosts_current_replica
    <3> QED  BY <2>4, <2>5, <3>3, Zenon
  <2>8. clusters[c].live_authority
    BY <2>4, <2>5, Zenon
  <2>9. c \in legal_destinations(k)
    BY <2>3, <2>7, <2>8, Zenon DEF legal_destinations
  <2> QED  BY <2>6, <2>9, Zenon
<1> QED  BY <1>3, <1>4, Zenon
=============================================================================
