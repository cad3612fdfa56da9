---------------------------- MODULE MCLastBoolean ----------------------------
(* Model-checking instance of LastBoolean: two entities, so that rows of  *)
(* one entity are interleaved with rows of another and the second entity  *)
(* can first appear after num_groups has grown; two batches, so that      *)
(* state must carry over a batch boundary.                                *)
EXTENDS LastBoolean

MCMaxGroups == 2
MCMaxBatchLen == 2
MCMaxBatches == 2

=============================================================================
