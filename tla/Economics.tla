------------------------------ MODULE Economics ------------------------------
(***************************************************************************)
(* Whether to transfer a state or to reconstruct it (src/economics.cpp).   *)
(***************************************************************************)
EXTENDS Cost

transfer_total(inputs) == cost_sum(inputs.transfer_cost, inputs.egress_cost)
reconstruction_total(inputs) == cost_sum(inputs.reconstruction_cost, inputs.compute_cost)

\* Faulty variant: the totals are compared by the sign of their difference.
CheaperByDifference(inputs) ==
  LET transfer == transfer_total(inputs)
      reconstruction == reconstruction_total(inputs)
  IN  IF ~known(transfer) THEN IF known(reconstruction) THEN "RECONSTRUCT" ELSE "DEFER"
      ELSE IF /\ known(reconstruction)
              /\ Wrap(transfer.micro_units - reconstruction.micro_units) > 0
        THEN "RECONSTRUCT" ELSE "REPLICATE"

\* Both paths are open: the priced one, or of two priced ones the cheaper; a
\* tie keeps the exact bytes.
Cheaper(inputs) ==
  LET transfer == transfer_total(inputs)
      reconstruction == reconstruction_total(inputs)
  IN  IF ~known(transfer) /\ ~known(reconstruction) THEN "DEFER"
      ELSE IF ~known(transfer) THEN "RECONSTRUCT"
      ELSE IF ~known(reconstruction) THEN "REPLICATE"
      ELSE IF cost_compare(transfer, reconstruction) > 0 THEN "RECONSTRUCT"
      ELSE "REPLICATE"

\* Hard preconditions first, then the price of the paths that are open.
decide_action(inputs) ==
  IF \/ ~inputs.destination_healthy
     \/ ~inputs.source_healthy
     \/ ~inputs.destination_capacity_sufficient
    THEN "REJECT"
  ELSE IF \/ /\ inputs.maximum_transfer_ticks # 0
             /\ inputs.predicted_transfer_ticks > inputs.maximum_transfer_ticks
          \/ ~known(inputs.expected_reuse)
    THEN "DEFER"
  ELSE IF expected_value_milli(inputs.expected_reuse) = 0
    THEN "REJECT"
  ELSE IF inputs.reconstruction_available
    THEN Cheaper(inputs)
  ELSE IF known(transfer_total(inputs))
    THEN "REPLICATE"
  ELSE "DEFER"
=============================================================================
