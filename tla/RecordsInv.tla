------------------------------- MODULE RecordsInv -------------------------------
(***************************************************************************)
(* The inductive invariant of Records.  Until an adopter is erased the     *)
(* last write of a standing adoption is its decision.                      *)
(***************************************************************************)
EXTENDS Records

ApplicantsKnown ==
    \A a \in Applications :
        application[a].status # "ABSENT" => application[a].applicant \in Adopters

LastWriteDecided ==
    (\A u \in Adopters : account[u] # "ERASED") =>
        \A a \in WithStatus("APPROVED") : application[a].updatedAt = decided[a]

IInv == TypeOK /\ ApplicantsKnown /\ LastWriteDecided
=============================================================================
