-------------------------- MODULE VolumePlacement --------------------------
(***************************************************************************)
(* Whether a Copy Job can mount the source claim and the cache claim on    *)
(* one node: volumeNodeAffinitiesCompatible, against what the required     *)
(* affinities of two volumes mean to the Kubernetes scheduler.             *)
(*                                                                         *)
(* A label or field is a key; its value is a number in its usual spelling, *)
(* the same number with a leading zero, or text.  An affinity is the set   *)
(* of its terms and a term the set of its requirements: neither the code   *)
(* nor the scheduler depends on order or repetition.                       *)
(***************************************************************************)
EXTENDS Integers, FiniteSets, FiniteSetsExt

CONSTANTS
  None,      \* no required affinity; also an absent bound, set or label
  MaxInt64,  \* the largest value of an int64
  Keys,      \* labels and fields of a node
  Pairs      \* the pairs of affinities compared

VARIABLES left, right, answer

vars == <<left, right, answer>>

Plain(n) == <<"plain", n>>
Padded(n) == <<"padded", n>>
Text == <<"text", 0>>

(* strconv.ParseInt *)
Parses(value) == value[1] # "text"
Number(value) == value[2]

-----------------------------------------------------------------------------
(* The check of the controller *)

(* selectorConstraint; refused: applySelectorRequirement returned false.   *)
Unconstrained ==
  [existence |-> 0, allowed |-> None, excluded |-> {}, lower |-> None, upper |-> None,
   refused |-> FALSE]

RequireExists(c, wanted) ==
  [c EXCEPT !.existence = wanted, !.refused = @ \/ c.existence = -wanted]

BoundOK(r) == Cardinality(r.values) = 1 /\ \A v \in r.values : Parses(v)
Bound(r) == CHOOSE n \in {Number(v) : v \in r.values} : TRUE
Tighter(op, bound, old) == old = None \/ IF op = "Gt" THEN bound > old ELSE bound < old

applySelectorRequirement(r, c) ==
  LET e == RequireExists(c, IF r.op = "DoesNotExist" THEN -1 ELSE 1)
  IN CASE r.op = "In" ->
            [e EXCEPT !.refused = @ \/ r.values = {},
                      !.allowed = IF @ = None THEN r.values ELSE @ \cap r.values]
       [] r.op = "NotIn" -> [e EXCEPT !.excluded = @ \cup r.values]
       [] r.op \in {"Gt", "Lt"} ->
            IF ~BoundOK(r) THEN [e EXCEPT !.refused = TRUE]
            ELSE [e EXCEPT !.lower = IF r.op = "Gt" /\ Tighter("Gt", Bound(r), @) THEN Bound(r) ELSE @,
                           !.upper = IF r.op = "Lt" /\ Tighter("Lt", Bound(r), @) THEN Bound(r) ELSE @]
       [] r.op \in {"Exists", "DoesNotExist"} -> e
       [] OTHER -> c

withinBounds(c, value) ==
  /\ value \notin c.excluded
  /\ \/ c.lower = None /\ c.upper = None
     \/ /\ Parses(value)
        /\ c.lower = None \/ Number(value) > c.lower
        /\ c.upper = None \/ Number(value) < c.upper

(* Mutant: one number between the bounds is not enough.                    *)
RoomBetweenOffByOne(c) == c.lower # MaxInt64 /\ c.lower + 2 < c.upper

(* A number lies strictly between the bounds and is not the excluded one.  *)
RoomBetween(c) ==
  /\ c.lower # MaxInt64 /\ c.lower + 1 < c.upper
  /\ c.lower + 2 = c.upper => Plain(c.lower + 1) \notin c.excluded

selectorConstraintSatisfiable(c) ==
  IF c.existence < 0 THEN c.allowed = None /\ c.lower = None /\ c.upper = None
  ELSE IF c.allowed # None THEN \E value \in c.allowed : withinBounds(c, value)
  ELSE (c.lower # None /\ c.upper # None) => RoomBetween(c)

nodeSelectorTermsCompatible(l, r) ==
  \A key \in Keys :
    LET c == FoldSet(applySelectorRequirement, Unconstrained, {q \in l \cup r : q.key = key})
    IN ~c.refused /\ selectorConstraintSatisfiable(c)

(* Without a required affinity, one term without requirements; otherwise   *)
(* the terms that have one.                                                *)
requiredVolumeTerms(affinity) ==
  IF affinity = None THEN {{}} ELSE {term \in affinity : term # {}}

volumeNodeAffinitiesCompatible(a, b) ==
  \E l \in requiredVolumeTerms(a), r \in requiredVolumeTerms(b) : nodeSelectorTermsCompatible(l, r)

-----------------------------------------------------------------------------
(* What the scheduler does with a required affinity *)

Matches(node, r) ==
  LET label == node[r.key]
  IN CASE r.op = "In" -> label # None /\ label \in r.values
       [] r.op = "NotIn" -> label = None \/ label \notin r.values
       [] r.op = "Exists" -> label # None
       [] r.op = "DoesNotExist" -> label = None
       [] r.op = "Gt" -> BoundOK(r) /\ label # None /\ Parses(label) /\ Number(label) > Bound(r)
       [] r.op = "Lt" -> BoundOK(r) /\ label # None /\ Parses(label) /\ Number(label) < Bound(r)

Admits(node, affinity) ==
  affinity = None \/ \E term \in affinity : term # {} /\ \A r \in term : Matches(node, r)

(* A label value does not begin with a sign: no label is a negative number. *)
Nodes == [Keys -> {Plain(n) : n \in 0 .. MaxInt64} \cup {Padded(n) : n \in 0 .. MaxInt64}
                    \cup {Text, None}]

-----------------------------------------------------------------------------
Init == answer = "open" /\ \E pair \in Pairs : left = pair[1] /\ right = pair[2]

(* The check before a Copy Job is created.                                 *)
ResolveStorage ==
  /\ answer = "open"
  /\ answer' = IF volumeNodeAffinitiesCompatible(left, right) THEN "compatible" ELSE "refused"
  /\ UNCHANGED <<left, right>>

Spec == Init /\ [][ResolveStorage]_vars

-----------------------------------------------------------------------------
(* The requirements of a term of each volume, where the check reads them.  *)
JointTerms == {l \cup r : l \in requiredVolumeTerms(left), r \in requiredVolumeTerms(right)}

(* Gt or Lt with a bound that no label lies beyond.                        *)
BeyondEveryLabel(t) ==
  \E q \in t : /\ q.op \in {"Gt", "Lt"} /\ BoundOK(q)
               /\ IF q.op = "Gt" THEN Bound(q) >= MaxInt64 ELSE Bound(q) <= 0

(* NotIn and DoesNotExist for one label: the check takes NotIn to require  *)
(* the label, the scheduler does not.                                      *)
AbsenceContested(t) ==
  \E q, x \in t : q.key = x.key /\ q.op = "DoesNotExist" /\ x.op = "NotIn"

(* NotIn names the one number between the bounds in its usual spelling; a  *)
(* label with a leading zero would do.                                     *)
LastNumberExcluded(t) ==
  \E q, p, x \in t :
    /\ q.key = p.key /\ p.key = x.key /\ q.op = "Gt" /\ p.op = "Lt" /\ x.op = "NotIn"
    /\ BoundOK(q) /\ BoundOK(p) /\ Bound(q) + 2 = Bound(p) /\ Plain(Bound(q) + 1) \in x.values

(* The comparison of two volumes (volumeNodeAffinitiesCompatible) agrees   *)
(* with the scheduler but for three named cases.  A compatible pair has a  *)
(* node that both volumes admit, unless a bound lies beyond every label.   *)
(* A refused pair has none, but for nodes that both admit through terms    *)
(* that contest the absence of a label or exclude the last number.         *)
PlacementFollowsScheduler ==
  /\ answer = "compatible" =>
       \/ \E node \in Nodes : Admits(node, left) /\ Admits(node, right)
       \/ \E t \in JointTerms : BeyondEveryLabel(t)
  /\ answer = "refused" =>
       \A node \in Nodes :
         Admits(node, left) /\ Admits(node, right) =>
           \E t \in JointTerms : /\ \A r \in t : Matches(node, r)
                                 /\ AbsenceContested(t) \/ LastNumberExcluded(t)
=============================================================================
