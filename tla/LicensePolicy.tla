---------------------------- MODULE LicensePolicy ----------------------------
(* Patterns over license expressions (internal/corpus/policy.go), as the       *)
(* policy of a bill and the filters of records both apply them.  A pattern     *)
(* says what it hits, and whether it is itself an expression (compound).       *)
EXTENDS FiniteSets

CONSTANT Terms(_)    \* the terms of a license expression, {} of a malformed one

\* path.Match of one of the patterns with one value.
Matches(patterns, value) == \E p \in patterns : value \in p.hits

\* Mutant: only the whole expression is compared.
ExcludedWhole(patterns, license) == Matches(patterns, license)

\* licenseExcluded: a restricted term cannot hide behind a permissive one.
Excluded(patterns, license) ==
    /\ patterns # {}
    /\ \/ Terms(license) = {}
       \/ \E p \in patterns : p.hits \intersect ({license} \union Terms(license)) # {}

\* licenseIncluded: every term is listed, or the whole by a compound pattern.
Included(patterns, license) ==
    /\ Terms(license) # {}
    /\ \/ \E p \in patterns :
             license \in p.hits /\ (p.compound \/ Cardinality(Terms(license)) = 1)
       \/ \A t \in Terms(license) : Matches(patterns, t)
=============================================================================
