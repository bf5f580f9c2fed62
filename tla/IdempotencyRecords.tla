-------------------------- MODULE IdempotencyRecords --------------------------
(***************************************************************************)
(* Rows of the table api_idempotency_records and the questions             *)
(* PrismaApiIdempotencyRepository asks of one.  A row belongs to the        *)
(* unique triple (scope, operationType, idempotencyKey); the specifications *)
(* that use these operators index rows by that triple.                      *)
(***************************************************************************)

\* No row exists for the triple.
Absent == [state |-> "ABSENT"]

\* The row inserted by the call h whose request hashes to f.
Processing(h, f) == [state |-> "PROCESSING", holder |-> h, fingerprint |-> f]

\* The same row after the operation returned r and the result was stored; who
\* inserted it no longer matters.
Completed(f, r) == [state |-> "COMPLETED", fingerprint |-> f, result |-> r]

\* Every row a table can hold.
Rows(Holders, Prints, Results) ==
  {Absent}
    \cup [state : {"PROCESSING"}, holder : Holders, fingerprint : Prints]
    \cup [state : {"COMPLETED"}, fingerprint : Prints, result : Results]

\* What acquire answers to a call with fingerprint f that finds this row.
AcquireOutcome(row, f) ==
  IF row = Absent THEN "ACQUIRED"
  ELSE IF row.fingerprint # f THEN "FINGERPRINT_MISMATCH"
  ELSE IF row.state = "PROCESSING" THEN "IN_PROGRESS"
  ELSE "COMPLETED"

\* complete and abandon touch only the caller's own row, while it is PROCESSING.
OwnProcessingRow(row, h) ==
  /\ row.state = "PROCESSING"
  /\ row.holder = h
===============================================================================
