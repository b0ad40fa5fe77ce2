-------------------------- MODULE VerifiedArtifact --------------------------
(***************************************************************************)
(* What a download promises its caller about the target path (SPEC 8 and   *)
(* 10): nothing appears there until the whole verified resource does, and  *)
(* once it is there it is never replaced by anything else.  Attempts,      *)
(* crashes, lying holders and staging areas are invisible at this level.   *)
(***************************************************************************)
VARIABLE target

Targets == {"absent", "verified"}

Init == target = "absent"

Promote == target' = "verified"

Next == Promote

Spec == Init /\ [][Next]_target

TypeOK == target \in Targets
=============================================================================
