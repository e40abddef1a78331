-------------------------- MODULE MCMemberRegistry --------------------------
(* Instances of MemberRegistry for TLC. *)
EXTENDS MemberRegistry, TLC

MCSymmetry ==
  UNION {Permutations(Subjects), Permutations(MemberIDs), Permutations(Emails),
         Permutations(Workers)}
=============================================================================
