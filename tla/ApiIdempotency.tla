---------------------------- MODULE ApiIdempotency ----------------------------
(***************************************************************************)
(* ApiIdempotencyService.execute over PrismaApiIdempotencyRepository: the   *)
(* wrapper every mutating use case of the marketplace runs in.  A request   *)
(* is one HTTP call; its name doubles as the recordId the service draws for *)
(* it.  Every await of execute is a step of its own, so calls interleave    *)
(* between the insert, the lookup, the operation and the completion, and a  *)
(* call may be lost (process killed, database unreachable) at any of them.  *)
(*                                                                          *)
(* The wrapped operation is one transaction here: it either commits or      *)
(* throws with no effect.  Orders, Checkout and Cart model the operations   *)
(* that commit more than one transaction.                                   *)
(***************************************************************************)
EXTENDS IdempotencyRecords

CONSTANTS
  Requests,       \* the HTTP calls
  Keys,           \* (scope, operationType, idempotencyKey) triples
  Fingerprints,   \* digests of request bodies
  None            \* no request

ASSUME NoneAssumption == None \notin Requests

VARIABLES
  record,       \* [Keys -> row]            api_idempotency_records
  pc,           \* [Requests -> step]       where each call stands
  key,          \* [Requests -> Keys]       the key a call carries
  fingerprint,  \* [Requests -> Fingerprints]
  commits,      \* [Keys -> SUBSET Requests] calls whose operation committed
  answer,       \* [Requests -> Requests \cup {None}] whose result a call got
  refusal       \* [Requests -> why a call got no result, or "none"]

vars == <<record, pc, key, fingerprint, commits, answer, refusal>>

Steps == {"idle", "insert", "lookup", "execute", "abandon", "complete",
          "answered", "lost"}

InFlight == {"insert", "lookup", "execute", "abandon", "complete"}

Refusals == {"none", "IDEMPOTENCY_KEY_REUSED", "IDEMPOTENCY_IN_PROGRESS", "ERROR"}

TypeOK ==
  /\ record \in [Keys -> Rows(Requests, Fingerprints, Requests)]
  /\ pc \in [Requests -> Steps]
  /\ key \in [Requests -> Keys]
  /\ fingerprint \in [Requests -> Fingerprints]
  /\ commits \in [Keys -> SUBSET Requests]
  /\ answer \in [Requests -> Requests \cup {None}]
  /\ refusal \in [Requests -> Refusals]

Init ==
  /\ record = [k \in Keys |-> Absent]
  /\ pc = [r \in Requests |-> "idle"]
  /\ key \in [Requests -> Keys]
  /\ fingerprint \in [Requests -> Fingerprints]
  /\ commits = [k \in Keys |-> {}]
  /\ answer = [r \in Requests |-> None]
  /\ refusal = [r \in Requests |-> "none"]

Refuse(r, why) ==
  /\ pc' = [pc EXCEPT ![r] = "answered"]
  /\ refusal' = [refusal EXCEPT ![r] = why]
  /\ UNCHANGED answer

Reply(r, result) ==
  /\ pc' = [pc EXCEPT ![r] = "answered"]
  /\ answer' = [answer EXCEPT ![r] = result]
  /\ UNCHANGED refusal

Goto(r, step) ==
  /\ pc' = [pc EXCEPT ![r] = step]
  /\ UNCHANGED <<answer, refusal>>

-------------------------------------------------------------------------------
(* Faulty variants of the handlers, one per property: each is a bug the code  *)
(* could have, and the property it is named for rejects it.                   *)

\* insert overwrites an existing row instead of meeting the unique constraint
InsertOverwrites(r) ==
  /\ pc[r] = "insert"
  /\ record' = [record EXCEPT ![key[r]] = Processing(r, fingerprint[r])]
  /\ Goto(r, "execute")
  /\ UNCHANGED <<key, fingerprint, commits>>

\* the stored result is replayed without comparing fingerprints
LookupIgnoresFingerprint(r) ==
  /\ pc[r] = "lookup"
  /\ \/ record[key[r]].state = "COMPLETED" /\ Reply(r, record[key[r]].result)
     \/ record[key[r]].state # "COMPLETED" /\ Refuse(r, "ERROR")
  /\ UNCHANGED <<record, key, fingerprint, commits>>

\* a call that finds the key in progress waits for its holder
LookupWaits(r) ==
  /\ pc[r] = "lookup"
  /\ \/ record[key[r]].state = "COMPLETED" /\ Reply(r, record[key[r]].result)
     \/ record[key[r]] = Absent /\ Goto(r, "insert")
  /\ UNCHANGED <<record, key, fingerprint, commits>>

\* a failed operation is reported without giving the key back
ThrowKeepsRow(r) ==
  /\ pc[r] = "execute"
  /\ Refuse(r, "ERROR")
  /\ UNCHANGED <<record, key, fingerprint, commits>>

\* the row of a failed call is marked instead of deleted
AbandonMarks(r) ==
  /\ pc[r] = "abandon"
  /\ record' = [record EXCEPT ![key[r]].state = "FAILED"]
  /\ Refuse(r, "ERROR")
  /\ UNCHANGED <<key, fingerprint, commits>>

\* a completion that fails is treated like an operation that failed
CompletionFailureAbandons(r) ==
  /\ pc[r] = "complete"
  /\ record' = [record EXCEPT ![key[r]] = Absent]
  /\ Refuse(r, "ERROR")
  /\ UNCHANGED <<key, fingerprint, commits>>

-------------------------------------------------------------------------------

\* execute is entered: the record id is drawn and the request is hashed.
Begin(r) ==
  /\ pc[r] = "idle"
  /\ Goto(r, "insert")
  /\ UNCHANGED <<record, key, fingerprint, commits>>

\* acquire, first statement: insert the row, or meet the unique constraint.
Insert(r) ==
  /\ pc[r] = "insert"
  /\ \/ /\ record[key[r]] = Absent
        /\ record' = [record EXCEPT ![key[r]] = Processing(r, fingerprint[r])]
        /\ Goto(r, "execute")
     \/ /\ record[key[r]] # Absent
        /\ Goto(r, "lookup")
        /\ UNCHANGED record
  /\ UNCHANGED <<key, fingerprint, commits>>

\* acquire, second statement: read the row that was in the way.  It may have
\* been abandoned meanwhile, in which case findUniqueOrThrow throws.
Lookup(r) ==
  /\ pc[r] = "lookup"
  /\ LET row == record[key[r]]
         outcome == AcquireOutcome(row, fingerprint[r])
     IN  \/ outcome = "ACQUIRED" /\ Refuse(r, "ERROR")
         \/ outcome = "FINGERPRINT_MISMATCH" /\ Refuse(r, "IDEMPOTENCY_KEY_REUSED")
         \/ outcome = "IN_PROGRESS" /\ Refuse(r, "IDEMPOTENCY_IN_PROGRESS")
         \/ outcome = "COMPLETED" /\ Reply(r, row.result)
  /\ UNCHANGED <<record, key, fingerprint, commits>>

\* execution.execute() commits its transaction and returns.
OperationCommits(r) ==
  /\ pc[r] = "execute"
  /\ commits' = [commits EXCEPT ![key[r]] = @ \cup {r}]
  /\ Goto(r, "complete")
  /\ UNCHANGED <<record, key, fingerprint>>

\* execution.execute() throws: nothing was committed.
OperationThrows(r) ==
  /\ pc[r] = "execute"
  /\ Goto(r, "abandon")
  /\ UNCHANGED <<record, key, fingerprint, commits>>

\* abandon: delete the call's own row while it is PROCESSING, then rethrow.
Abandon(r) ==
  /\ pc[r] = "abandon"
  /\ record' = [k \in Keys |->
                  IF k = key[r] /\ OwnProcessingRow(record[k], r)
                    THEN Absent ELSE record[k]]
  /\ Refuse(r, "ERROR")
  /\ UNCHANGED <<key, fingerprint, commits>>

\* complete: store the protected result in the call's own row and return it.
Complete(r) ==
  /\ pc[r] = "complete"
  /\ OwnProcessingRow(record[key[r]], r)
  /\ record' = [record EXCEPT ![key[r]] = Completed(fingerprint[r], r)]
  /\ Reply(r, r)
  /\ UNCHANGED <<key, fingerprint, commits>>

\* Encryption or complete throws after the operation succeeded: the row is
\* deliberately left in PROCESSING.
CompletionFails(r) ==
  /\ pc[r] = "complete"
  /\ Refuse(r, "ERROR")
  /\ UNCHANGED <<record, key, fingerprint, commits>>

\* The process serving the call dies, or abandon itself cannot reach the
\* database; what was committed stays.
Lose(r) ==
  /\ pc[r] \in InFlight
  /\ Goto(r, "lost")
  /\ UNCHANGED <<record, key, fingerprint, commits>>

Work(r) ==
  \/ Insert(r)
  \/ Lookup(r)
  \/ OperationCommits(r)
  \/ OperationThrows(r)
  \/ Abandon(r)
  \/ Complete(r)
  \/ CompletionFails(r)

Next == \E r \in Requests : Begin(r) \/ Work(r) \/ Lose(r)

Spec == Init /\ [][Next]_vars

\* The event loop resumes every pending promise and the database answers
\* every statement; calls need not arrive and need not be lost.
FairSpec == Spec /\ \A r \in Requests : WF_vars(Work(r))

-------------------------------------------------------------------------------

\* Under one key at most one call ever takes effect, whatever the retries,
\* the interleaving and the lost calls.
AtMostOneEffect ==
  \A k \in Keys : \A r1, r2 \in commits[k] : r1 = r2

\* A row that is stuck in PROCESSING protects an effect that was committed, or
\* belongs to a call that is still running or was lost: a call that reported
\* a failed operation has given its key back.
FailureFreesTheKey ==
  \A k \in Keys :
    record[k].state = "PROCESSING" =>
      \/ pc[record[k].holder] \in InFlight \cup {"lost"}
      \/ commits[k] = {record[k].holder}

\* A result is only ever handed to a caller that sent the same request as the
\* call it comes from, and that call did commit.
ReplayMatchesRequest ==
  \A r \in Requests :
    answer[r] # None =>
      /\ commits[key[r]] = {answer[r]}
      /\ fingerprint[answer[r]] = fingerprint[r]

\* The calls answered so far and the effects taken so far form an AtMostOnce
\* object.
Decided == [k \in Keys |->
              IF commits[k] = {} THEN None ELSE CHOOSE r \in commits[k] : TRUE]

Once == INSTANCE AtMostOnce WITH decided <- Decided

ImplementsAtMostOnce == Once!Spec

\* Every call that enters execute is answered unless it is lost: no call ever
\* waits for another one.
EveryCallAnswered ==
  \A r \in Requests : pc[r] = "insert" ~> pc[r] \in {"answered", "lost"}
===============================================================================
