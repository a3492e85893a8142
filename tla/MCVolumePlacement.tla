------------------------- MODULE MCVolumePlacement -------------------------
(***************************************************************************)
(* Deep: up to three requirements on one key, two on one side.  Wide: up   *)
(* to two terms on each side over two keys.                                *)
(***************************************************************************)
EXTENDS VolumePlacement

Need(key, op, values) == [key |-> key, op |-> op, values |-> values]

(* The subsets of at most two elements.                                    *)
UpToTwo(S) == {{}} \cup {{a, b} : a \in S, b \in S}

Spelled == {Plain(n) : n \in 0 .. MaxInt64} \cup {Text}

SomeNeeds(key) ==
  {Need(key, op, {}) : op \in {"Exists", "DoesNotExist", "Gt"}}
    \cup {Need(key, "In", vs) : vs \in UpToTwo(Spelled \cup {Padded(1)})}
    \cup {Need(key, "NotIn", vs) : vs \in UpToTwo(Spelled) \ {{}}}
    \cup {Need(key, op, {v}) : op \in {"Gt", "Lt"}, v \in Spelled \cup {Plain(-1), Padded(1)}}

DeepKey == CHOOSE key \in Keys : TRUE

Deep == {<<{l}, {r}>> : l \in UpToTwo(SomeNeeds(DeepKey)),
                    r \in {{}} \cup {{q} : q \in SomeNeeds(DeepKey)}}

FewNeeds ==
  UNION {{Need(key, "In", {Plain(1)}), Need(key, "NotIn", {Plain(1)}), Need(key, "Gt", {Plain(0)}),
          Need(key, "DoesNotExist", {})} : key \in Keys}

FewTerms == {t \in UpToTwo(FewNeeds) : Cardinality({r.key : r \in t}) = Cardinality(t)}

FewAffinities == {None} \cup UpToTwo(FewTerms)

Wide == FewAffinities \X FewAffinities

MCPairs == Deep \cup Wide
=============================================================================
