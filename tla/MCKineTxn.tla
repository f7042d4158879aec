------------------------------ MODULE MCKineTxn ------------------------------
(* The transactions TLC tries: every guard shape on a key, and branches of  *)
(* at most three operations that overlap, fail late, or delete intervals.   *)
EXTENDS KineTxn

PutOp(k, v) == [kind |-> "put", key |-> k, value |-> v, lease |-> 0]
DeleteOp(k, end) == [kind |-> "delete", key |-> k, end |-> end]
RangeOp(rev) == [kind |-> "range", revision |-> rev]

Guard(k, target, result, operand) ==
    [key |-> k, target |-> target, result |-> result, operand |-> operand]

MCCompares ==
    {{}} \cup {{Guard(1, "mod_revision", "equal", n)} : n \in 0 .. MaxRev - 2}
         \cup {{Guard(1, "create_revision", "greater", 1), Guard(2, "value", "equal", "e")},
               {Guard(1, "version", "less", 2), Guard(2, "lease", "not_equal", 1)}}

MCBranches ==
    {<<>>, <<PutOp(1, "v")>>, <<DeleteOp(1, 3)>>,
     <<PutOp(1, "v"), DeleteOp(2, AllKeys)>>,
     <<PutOp(2, "e"), DeleteOp(1, 2)>>,
     <<DeleteOp(2, 3), RangeOp(0), DeleteOp(NoKey, AllKeys)>>,
     <<PutOp(1, "e"), DeleteOp(2, 2)>>,
     <<PutOp(2, "v"), RangeOp(0), PutOp(2, "e")>>,
     <<PutOp(2, "v"), RangeOp(1)>>,
     <<PutOp(2, "v"), PutOp(NoKey, "v")>>}

MCFailures ==
    {<<>>, <<PutOp(1, "e"), DeleteOp(2, 3)>>, <<PutOp(2, "v"), DeleteOp(1, 3)>>}

=============================================================================
