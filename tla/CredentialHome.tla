---------------------------- MODULE CredentialHome ----------------------------
(***************************************************************************)
(* What moving the account files promises: there is one stored credential, *)
(* in one of two folders.  Using it replaces it by a later one; moving it  *)
(* changes the folder and nothing else.                                    *)
(***************************************************************************)
EXTENDS Naturals

VARIABLES folder, credential

Init == folder = "old" /\ credential \in {0, 1}

Replace == credential' > credential /\ UNCHANGED folder

Relocate ==
  /\ folder' = IF folder = "old" THEN "sub" ELSE "old"
  /\ UNCHANGED credential

Next == Replace \/ Relocate

Spec == Init /\ [][Next]_<<folder, credential>>
=============================================================================
