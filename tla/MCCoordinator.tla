--------------------------- MODULE MCCoordinator ---------------------------
(* Small instances of Coordinator: what the appliance may answer.          *)
EXTENDS Coordinator

MCFields == {"Status", "Door"}

\* An XKM that always identifies itself, and one that may still be booting.
FullIdent == {IdentFields}
BootingIdent == {{}, IdentFields}
PatchyIdent == SUBSET IdentFields

\* A hood that always holds a grade, and one that may answer nothing.
BothGrades == {Grades}
AnyGrades == SUBSET Grades
=============================================================================
