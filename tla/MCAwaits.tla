------------------------------ MODULE MCAwaits ------------------------------
(* TLC instances of the awaits.  Nothing tells manifests apart that have    *)
(* awaited no reference, so the first that runs is always the same, and it  *)
(* gives way to another only after one has; after the last op none follows. *)
EXTENDS Awaits

MCInit == AwaitsInit /\ manifest = "first"
MCNext ==
  /\ AwaitsNext
  /\ manifest' # manifest => /\ begun < MaxBegun /\ NextId \in Ids
                             /\ nextRuntimeRefID[manifest] + nextRuntimeRefID[manifest'] > 0
MCSpec ==
  /\ MCInit /\ [][MCNext]_awaitsVars /\ WF_awaitsVars(Loop) /\ WF_awaitsVars(HostPump)
  /\ \A i \in 1..MaxDepth : WF_awaitsVars(Expire(i))
=============================================================================
