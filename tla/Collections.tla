---------------------------- MODULE Collections ----------------------------
(***************************************************************************)
(* What the crates under shared/ and the contract do with collections of   *)
(* the standard library and of serde_json: filtering a list, and putting   *)
(* the entries of one object over those of another.                        *)
(***************************************************************************)
EXTENDS Naturals, FiniteSets

\* The entries of the first object, and those of the second under other keys.
object ++ other ==
  [key \in DOMAIN object \cup DOMAIN other |->
     IF key \in DOMAIN object THEN object[key] ELSE other[key]]

\* How many places of S are not behind the place i.
Rank(S, i) == Cardinality({j \in S : j <= i})

\* What is at the places S of a list, in the order of the list.
Picked(list, S) ==
  [k \in 1 .. Cardinality(S) |-> list[CHOOSE i \in S : Rank(S, i) = k]]

=============================================================================
