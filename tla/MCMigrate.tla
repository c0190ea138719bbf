----------------------------- MODULE MCMigrate -----------------------------
(* The instance of Migrate that TLC checks.                                *)
EXTENDS Migrate, TLC

CONSTANTS raw, dlq

MCWant == raw :> 2 @@ dlq :> 1

\* 0001 is made of plain CREATE TABLEs; 0002 and 0003 run again without an
\* error.
MCRerunnable == {2, 3}
=============================================================================
