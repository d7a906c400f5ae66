------------------------------ MODULE TwoQueue ------------------------------
(***************************************************************************)
(* What the 2Q cache of the SDK promises, without identifiers, maps or     *)
(* locks: a probation queue that evicts in the order of admission, and a   *)
(* protected list ordered by last use into which a block is promoted by a  *)
(* use made after it has left the first Grace places of the probation      *)
(* queue.  Admissions alone never touch a protected block.                 *)
(***************************************************************************)
EXTENDS SequencesExt

CONSTANTS Block, Grace, ProbationCap, ProtectedCap

VARIABLES probation, protected

Trim(s, cap) == IF Len(s) > cap THEN Front(s) ELSE s

Init == probation = <<>> /\ protected = <<>>

Admit(b) ==
    /\ b \notin Range(probation) \cup Range(protected)
    /\ probation' = Trim(<<b>> \o probation, ProbationCap)
    /\ UNCHANGED protected

Touch(b) ==
    /\ b \in Range(protected)
    /\ protected' = <<b>> \o RemoveFirst(protected, b)
    /\ UNCHANGED probation

Promote(b) ==
    /\ \E i \in DOMAIN probation : i > Grace /\ probation[i] = b
    /\ probation' = RemoveFirst(probation, b)
    /\ protected' = Trim(<<b>> \o protected, ProtectedCap)

Drop(b) ==
    /\ b \in Range(probation) \cup Range(protected)
    /\ probation' = RemoveFirst(probation, b)
    /\ protected' = RemoveFirst(protected, b)

Clear == probation' = <<>> /\ protected' = <<>>

Next == Clear \/ \E b \in Block : Admit(b) \/ Touch(b) \/ Promote(b) \/ Drop(b)

Spec == Init /\ [][Next]_<<probation, protected>>
=============================================================================
