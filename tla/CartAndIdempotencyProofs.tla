--------------------- MODULE CartAndIdempotencyProofs ---------------------
(***************************************************************************)
(* Proofs about ApiIdempotency, for any number of calls, keys and          *)
(* fingerprints, and about Cart, whose mutations run inside that wrapper,  *)
(* for any number of customers, SKUs and calls. Ownership is the inductive *)
(* invariant of the first: it ties the step a call is at to the row it     *)
(* inserted and to what was committed under its key. CartInv is that of    *)
(* the second: what a call read is the cart while the version stands, and  *)
(* what it plans to save has the right totals and only confirmed units.    *)
(***************************************************************************)
EXTENDS ApiIdempotency, Cart, FiniteSetTheorems, TLAPS

\* A call between its insert and its answer owns the row of its key, and the
\* key's effect is the call's own, once it has committed.
Running(r) ==
  /\ pc[r] \in {"execute", "abandon"} =>
       /\ record[key[r]] = Processing(r, fingerprint[r])
       /\ commits[key[r]] = {}
  /\ pc[r] = "complete" =>
       /\ record[key[r]] = Processing(r, fingerprint[r])
       /\ commits[key[r]] = {r}
  /\ pc[r] # "answered" => answer[r] = None

\* What a row says of the effects committed under its key.
Vouched(k) ==
  /\ record[k] = Absent => commits[k] = {}
  /\ record[k].state = "PROCESSING" =>
       /\ commits[k] \subseteq {record[k].holder}
       /\ key[record[k].holder] = k
       /\ fingerprint[record[k].holder] = record[k].fingerprint
       /\ \/ pc[record[k].holder] \in {"execute", "abandon", "complete", "lost"}
          \/ commits[k] = {record[k].holder}
  /\ record[k].state = "COMPLETED" =>
       /\ commits[k] = {record[k].result}
       /\ fingerprint[record[k].result] = record[k].fingerprint

\* A call that was handed a result was handed the one its key stores.
Answered(r) ==
  answer[r] # None =>
    /\ record[key[r]].state = "COMPLETED"
    /\ record[key[r]].result = answer[r]
    /\ record[key[r]].fingerprint = fingerprint[r]

Ownership ==
  /\ TypeOK
  /\ \A r \in Requests : Running(r)
  /\ \A k \in Keys : Vouched(k)
  /\ \A r \in Requests : Answered(r)

-------------------------------------------------------------------------------

\* The shapes of rows, as the provers need them.
LEMMA RowShapes ==
  ASSUME NEW row \in Rows(Requests, Fingerprints, Requests)
  PROVE  /\ \/ row = Absent
            \/ /\ row.state = "PROCESSING"
               /\ row.holder \in Requests
               /\ row.fingerprint \in Fingerprints
               /\ row = Processing(row.holder, row.fingerprint)
            \/ /\ row.state = "COMPLETED"
               /\ row.fingerprint \in Fingerprints
               /\ row.result \in Requests
         /\ row = Absent <=> row.state = "ABSENT"
         /\ row.state \in {"ABSENT", "PROCESSING", "COMPLETED"}
BY DEF Rows, Absent, Processing

\* The fields of the rows the service writes.
LEMMA RowFields ==
  /\ Absent.state = "ABSENT"
  /\ \A h, f : /\ Processing(h, f) # Absent
               /\ Processing(h, f).state = "PROCESSING"
               /\ Processing(h, f).holder = h
               /\ Processing(h, f).fingerprint = f
  /\ \A f, r : /\ Completed(f, r) # Absent
               /\ Completed(f, r).state = "COMPLETED"
               /\ Completed(f, r).fingerprint = f
               /\ Completed(f, r).result = r
BY DEF Absent, Processing, Completed

\* They are rows of the table.
LEMMA RowsClosed ==
  /\ Absent \in Rows(Requests, Fingerprints, Requests)
  /\ \A h \in Requests, f \in Fingerprints :
       /\ Processing(h, f) \in Rows(Requests, Fingerprints, Requests)
       /\ Completed(f, h) \in Rows(Requests, Fingerprints, Requests)
BY DEF Rows, Absent, Processing, Completed

\* What acquire answers, row by row.
LEMMA Outcomes ==
  ASSUME NEW row \in Rows(Requests, Fingerprints, Requests), NEW f \in Fingerprints
  PROVE  /\ AcquireOutcome(row, f) = "COMPLETED" =>
              row.state = "COMPLETED" /\ row.fingerprint = f
         /\ AcquireOutcome(row, f) = "IN_PROGRESS" =>
              row.state = "PROCESSING" /\ row.fingerprint = f
         /\ AcquireOutcome(row, f) = "ACQUIRED" => row = Absent
BY RowShapes DEF AcquireOutcome

-------------------------------------------------------------------------------

LEMMA OwnershipInit == Init => Ownership
BY NoneAssumption DEF Init, Ownership, TypeOK, Running, Vouched, Answered,
     Rows, Absent, Steps, Refusals

LEMMA OwnershipNext == Ownership /\ [Next]_vars => Ownership'
<1> SUFFICES ASSUME Ownership, [Next]_vars PROVE Ownership'
  OBVIOUS
<1> USE NoneAssumption
<1>0. ASSUME UNCHANGED vars PROVE Ownership'
  BY <1>0 DEF vars, Ownership, TypeOK, Running, Vouched, Answered
<1> SUFFICES ASSUME NEW r \in Requests,
                    Begin(r) \/ Work(r) \/ Lose(r)
             PROVE  Ownership'
  BY <1>0 DEF Next
<1>t. TypeOK
  BY DEF Ownership
<1>s. \A k \in Keys : record[k] \in Rows(Requests, Fingerprints, Requests)
  BY <1>t DEF TypeOK
<1>k. key[r] \in Keys /\ fingerprint[r] \in Fingerprints
  BY <1>t DEF TypeOK
<1>o. /\ \A q \in Requests : Running(q) /\ Answered(q)
      /\ \A k \in Keys : Vouched(k)
  BY DEF Ownership
<1>h. \A k \in Keys :
        /\ record[k].state = "PROCESSING" => record[k].holder \in Requests
        /\ record[k].state = "COMPLETED" => record[k].result \in Requests
        /\ record[k] = Absent <=> record[k].state = "ABSENT"
  BY <1>s, RowShapes
<1> USE RowFields
<1>1. CASE Begin(r)
  <2>1. TypeOK'
    BY <1>1, <1>t DEF Begin, Goto, TypeOK, Steps
  <2>2. ASSUME NEW q \in Requests PROVE Running(q)'
    BY <1>1, <1>t, <1>o, <2>2 DEF Begin, Goto, TypeOK, Running, InFlight
  <2>3. ASSUME NEW k \in Keys PROVE Vouched(k)'
    BY <1>1, <1>t, <1>o, <1>h, <2>3 DEF Begin, Goto, TypeOK, Vouched, InFlight
  <2>4. ASSUME NEW q \in Requests PROVE Answered(q)'
    BY <1>1, <1>o, <2>4 DEF Begin, Goto, Answered
  <2> QED BY <2>1, <2>2, <2>3, <2>4 DEF Ownership
<1>2. CASE Insert(r)
  <2>a. CASE record[key[r]] = Absent
    <3>0. /\ pc[r] = "insert" /\ pc' = [pc EXCEPT ![r] = "execute"]
          /\ commits[key[r]] = {}
          /\ record' = [record EXCEPT ![key[r]] = Processing(r, fingerprint[r])]
          /\ UNCHANGED <<commits, key, fingerprint, answer>>
      BY <1>2, <2>a, <1>k, <1>o DEF Insert, Goto, Vouched
    <3>1. TypeOK'
      BY <1>2, <3>0, <1>t, <1>k, RowsClosed DEF Insert, Goto, TypeOK, Steps
    <3>2. ASSUME NEW q \in Requests PROVE Running(q)'
      BY <3>0, <2>a, <1>t, <1>k, <1>o, <3>2 DEF TypeOK, Running
    <3>3. ASSUME NEW k \in Keys PROVE Vouched(k)'
      BY <3>0, <2>a, <1>t, <1>k, <1>o, <1>h, <3>3 DEF TypeOK, Vouched
    <3>4. ASSUME NEW q \in Requests PROVE Answered(q)'
      BY <3>0, <2>a, <1>t, <1>k, <1>o, <3>4 DEF TypeOK, Answered
    <3> QED BY <3>1, <3>2, <3>3, <3>4 DEF Ownership
  <2>b. CASE record[key[r]] # Absent
    <3>0. /\ pc[r] = "insert" /\ pc' = [pc EXCEPT ![r] = "lookup"]
          /\ UNCHANGED <<record, commits, key, fingerprint, answer, refusal>>
      BY <1>2, <2>b DEF Insert, Goto
    <3> QED
      BY <3>0, <1>t, <1>o, <1>h
      DEF Ownership, TypeOK, Running, Vouched, Answered, Steps
  <2> QED BY <2>a, <2>b
<1>3. CASE Lookup(r)
  <2>0. /\ pc[r] = "lookup" /\ pc' = [pc EXCEPT ![r] = "answered"]
        /\ UNCHANGED <<record, commits, key, fingerprint>>
        /\ \/ UNCHANGED answer
           \/ /\ record[key[r]].state = "COMPLETED"
              /\ record[key[r]].fingerprint = fingerprint[r]
              /\ answer' = [answer EXCEPT ![r] = record[key[r]].result]
    BY <1>3, <1>s, <1>k, Outcomes DEF Lookup, Reply, Refuse
  <2>1. TypeOK'
    BY <1>3, <2>0, <1>t, <1>k, <1>h DEF Lookup, Reply, Refuse, TypeOK, Steps, Refusals
  <2>2. ASSUME NEW q \in Requests PROVE Running(q)'
    BY <2>0, <1>t, <1>o, <2>2 DEF TypeOK, Running
  <2>3. ASSUME NEW k \in Keys PROVE Vouched(k)'
    BY <2>0, <1>t, <1>o, <1>h, <2>3 DEF TypeOK, Vouched
  <2>4. ASSUME NEW q \in Requests PROVE Answered(q)'
    BY <2>0, <1>t, <1>k, <1>o, <2>4 DEF TypeOK, Answered
  <2> QED BY <2>1, <2>2, <2>3, <2>4 DEF Ownership
<1>4. CASE OperationCommits(r)
  <2>0. /\ pc[r] = "execute" /\ pc' = [pc EXCEPT ![r] = "complete"]
        /\ commits[key[r]] = {} /\ commits' = [commits EXCEPT ![key[r]] = {r}]
        /\ record[key[r]] = Processing(r, fingerprint[r])
        /\ UNCHANGED <<record, key, fingerprint, answer, refusal>>
    BY <1>4, <1>t, <1>k, <1>o DEF OperationCommits, Goto, TypeOK, Running
  <2>1. TypeOK'
    BY <2>0, <1>t, <1>k, RowsClosed DEF TypeOK, Steps, Refusals
  <2>2. ASSUME NEW q \in Requests PROVE Running(q)'
    BY <2>0, <1>t, <1>k, <1>o, <2>2 DEF TypeOK, Running
  <2>3. ASSUME NEW k \in Keys PROVE Vouched(k)'
    BY <2>0, <1>t, <1>k, <1>o, <1>h, <2>3 DEF TypeOK, Running, Vouched
  <2>4. ASSUME NEW q \in Requests PROVE Answered(q)'
    BY <2>0, <1>t, <1>k, <1>o, <2>4 DEF TypeOK, Running, Answered
  <2> QED BY <2>1, <2>2, <2>3, <2>4 DEF Ownership
<1>5. CASE OperationThrows(r)
  <2>1. TypeOK'
    BY <1>5, <1>t DEF OperationThrows, Goto, TypeOK, Steps
  <2>2. ASSUME NEW q \in Requests PROVE Running(q)'
    BY <1>5, <1>t, <1>o, <2>2 DEF OperationThrows, Goto, TypeOK, Running, InFlight
  <2>3. ASSUME NEW k \in Keys PROVE Vouched(k)'
    BY <1>5, <1>t, <1>o, <1>h, <2>3 DEF OperationThrows, Goto, TypeOK, Vouched, InFlight
  <2>4. ASSUME NEW q \in Requests PROVE Answered(q)'
    BY <1>5, <1>o, <2>4 DEF OperationThrows, Goto, Answered
  <2> QED BY <2>1, <2>2, <2>3, <2>4 DEF Ownership
<1>6. CASE Abandon(r)
  <2>0. /\ pc[r] = "abandon" /\ pc' = [pc EXCEPT ![r] = "answered"]
        /\ commits[key[r]] = {}
        /\ record[key[r]] = Processing(r, fingerprint[r])
        /\ record' = [record EXCEPT ![key[r]] = Absent]
        /\ refusal' = [refusal EXCEPT ![r] = "ERROR"]
        /\ UNCHANGED <<commits, key, fingerprint, answer>>
    <3>1. record[key[r]] = Processing(r, fingerprint[r]) /\ commits[key[r]] = {}
      BY <1>6, <1>o DEF Abandon, Running
    <3>2. OwnProcessingRow(record[key[r]], r)
      BY <3>1 DEF OwnProcessingRow
    <3>3. record' = [record EXCEPT ![key[r]] = Absent]
      BY <1>6, <3>2, <1>t, <1>k DEF Abandon, TypeOK
    <3> QED BY <1>6, <3>1, <3>3 DEF Abandon, Refuse
  <2>1. TypeOK'
    BY <2>0, <1>t, <1>k, RowsClosed DEF TypeOK, Steps, Refusals
  <2>2. ASSUME NEW q \in Requests PROVE Running(q)'
    BY <2>0, <1>t, <1>k, <1>o, <2>2 DEF TypeOK, Running
  <2>3. ASSUME NEW k \in Keys PROVE Vouched(k)'
    BY <2>0, <1>t, <1>k, <1>o, <1>h, <2>3 DEF TypeOK, Running, Vouched
  <2>4. ASSUME NEW q \in Requests PROVE Answered(q)'
    BY <2>0, <1>t, <1>k, <1>o, <2>4 DEF TypeOK, Running, Answered
  <2> QED BY <2>1, <2>2, <2>3, <2>4 DEF Ownership
<1>7. CASE Complete(r)
  <2>0. /\ pc[r] = "complete" /\ pc' = [pc EXCEPT ![r] = "answered"]
        /\ commits[key[r]] = {r}
        /\ record[key[r]] = Processing(r, fingerprint[r])
        /\ record' = [record EXCEPT ![key[r]] = Completed(fingerprint[r], r)]
        /\ answer' = [answer EXCEPT ![r] = r]
        /\ UNCHANGED <<commits, key, fingerprint, refusal>>
    BY <1>7, <1>t, <1>k, <1>o DEF Complete, Reply, OwnProcessingRow, TypeOK, Running
  <2>1. TypeOK'
    BY <2>0, <1>t, <1>k, RowsClosed DEF TypeOK, Steps, Refusals
  <2>2. ASSUME NEW q \in Requests PROVE Running(q)'
    BY <2>0, <1>t, <1>k, <1>o, <2>2 DEF TypeOK, Running
  <2>3. ASSUME NEW k \in Keys PROVE Vouched(k)'
    BY <2>0, <1>t, <1>k, <1>o, <1>h, <2>3 DEF TypeOK, Running, Vouched
  <2>4. ASSUME NEW q \in Requests PROVE Answered(q)'
    BY <2>0, <1>t, <1>k, <1>o, <2>4 DEF TypeOK, Running, Answered
  <2> QED BY <2>1, <2>2, <2>3, <2>4 DEF Ownership
<1>8. CASE CompletionFails(r)
  <2>0. /\ pc[r] = "complete" /\ pc' = [pc EXCEPT ![r] = "answered"]
        /\ commits[key[r]] = {r}
        /\ record[key[r]] = Processing(r, fingerprint[r])
        /\ refusal' = [refusal EXCEPT ![r] = "ERROR"]
        /\ UNCHANGED <<record, commits, key, fingerprint, answer>>
    BY <1>8, <1>t, <1>k, <1>o DEF CompletionFails, Refuse, TypeOK, Running
  <2>1. TypeOK'
    BY <2>0, <1>t, <1>k, RowsClosed DEF TypeOK, Steps, Refusals
  <2>2. ASSUME NEW q \in Requests PROVE Running(q)'
    BY <2>0, <1>t, <1>k, <1>o, <2>2 DEF TypeOK, Running
  <2>3. ASSUME NEW k \in Keys PROVE Vouched(k)'
    BY <2>0, <1>t, <1>k, <1>o, <1>h, <2>3 DEF TypeOK, Running, Vouched
  <2>4. ASSUME NEW q \in Requests PROVE Answered(q)'
    BY <2>0, <1>t, <1>k, <1>o, <2>4 DEF TypeOK, Running, Answered
  <2> QED BY <2>1, <2>2, <2>3, <2>4 DEF Ownership
<1>9. CASE Lose(r)
  <2>1. TypeOK'
    BY <1>9, <1>t DEF Lose, Goto, TypeOK, Steps
  <2>2. ASSUME NEW q \in Requests PROVE Running(q)'
    BY <1>9, <1>t, <1>o, <2>2 DEF Lose, Goto, TypeOK, Running, InFlight
  <2>3. ASSUME NEW k \in Keys PROVE Vouched(k)'
    BY <1>9, <1>t, <1>o, <1>h, <2>3 DEF Lose, Goto, TypeOK, Vouched, InFlight
  <2>4. ASSUME NEW q \in Requests PROVE Answered(q)'
    BY <1>9, <1>o, <2>4 DEF Lose, Goto, Answered
  <2> QED BY <2>1, <2>2, <2>3, <2>4 DEF Ownership
<1> QED
  BY <1>1, <1>2, <1>3, <1>4, <1>5, <1>6, <1>7, <1>8, <1>9 DEF Work

LEMMA OwnershipInvariant == Spec => []Ownership
BY OwnershipInit, OwnershipNext, PTL DEF Spec

-------------------------------------------------------------------------------

\* The rows, steps and answers of ApiIdempotencyService always have the shapes
\* the schema and execute give them.
THEOREM TypeCorrect == Spec => []TypeOK
<1>1. Ownership => TypeOK
  BY DEF Ownership
<1> QED BY <1>1, OwnershipInvariant, PTL

\* One idempotency key, one effect: for every number of calls and keys.
THEOREM EffectsAreUnique == Spec => []AtMostOneEffect
<1>1. Ownership => AtMostOneEffect
  <2> SUFFICES ASSUME Ownership, NEW k \in Keys PROVE
                 \A r1, r2 \in commits[k] : r1 = r2
    BY DEF AtMostOneEffect
  <2>1. record[k] \in Rows(Requests, Fingerprints, Requests)
    BY DEF Ownership, TypeOK
  <2>2. \/ commits[k] = {}
        \/ commits[k] \subseteq {record[k].holder}
        \/ commits[k] = {record[k].result}
    BY <2>1, RowShapes DEF Ownership, Vouched
  <2> QED BY <2>2
<1> QED BY <1>1, OwnershipInvariant, PTL

\* A call that reported a failed operation left its key free, or the row it
\* left behind protects an effect.
THEOREM FailuresFreeTheirKeys == Spec => []FailureFreesTheKey
<1>1. Ownership => FailureFreesTheKey
  BY DEF Ownership, Vouched, FailureFreesTheKey, InFlight
<1> QED BY <1>1, OwnershipInvariant, PTL

\* Results are replayed only to the request they answer.
THEOREM ReplaysMatch == Spec => []ReplayMatchesRequest
<1>1. Ownership => ReplayMatchesRequest
  BY DEF Ownership, TypeOK, Vouched, Answered, ReplayMatchesRequest
<1> QED BY <1>1, OwnershipInvariant, PTL

-------------------------------------------------------------------------------

\* Decided picks the only call that committed.
LEMMA DecidedUnique ==
  ASSUME NEW k \in Keys, NEW r, commits[k] = {r}
  PROVE  Decided[k] = r
BY DEF Decided

\* Seen from its callers, the table is one at-most-once object per key: every
\* step of execute is a Decide, an Answer, or invisible.
THEOREM ImplementsOnce == Spec => ImplementsAtMostOnce
<1>1. Init => Once!Init
  BY DEF Init, Once!Init, Decided
<1>2. Ownership /\ Ownership' /\ [Next]_vars => [Once!Next]_<<Decided, answer>>
  <2> SUFFICES ASSUME Ownership, Ownership', [Next]_vars
               PROVE  [Once!Next]_<<Decided, answer>>
    OBVIOUS
  <2> USE NoneAssumption
  <2>q. ASSUME UNCHANGED commits PROVE UNCHANGED Decided
    BY <2>q DEF Decided
  <2>0. CASE UNCHANGED vars
    BY <2>0, <2>q DEF vars
  <2>n. ASSUME NEW r \in Requests, Begin(r) \/ Work(r) \/ Lose(r)
        PROVE  [Once!Next]_<<Decided, answer>>
    <3>k. key[r] \in Keys
      BY DEF Ownership, TypeOK
    <3>r. ASSUME UNCHANGED commits, NEW a \in Requests, answer[r] = None,
                 answer' = [answer EXCEPT ![r] = a], commits[key[r]] = {a}
          PROVE  Once!Next
      <4>1. Decided[key[r]] = a
        BY <3>r, <3>k, DecidedUnique
      <4>2. Once!Answer(key[r], r)
        BY <3>r, <4>1, <2>q DEF Once!Answer
      <4> QED BY <4>2, <3>k DEF Once!Next
    <3>1. CASE Lookup(r)
      <4>1. answer[r] = None /\ UNCHANGED commits
        BY <3>1 DEF Lookup, Ownership, Running
      <4>2. CASE UNCHANGED answer
        BY <4>1, <4>2, <2>q
      <4>3. CASE ~UNCHANGED answer
        <5> DEFINE row == record[key[r]]
        <5>1. /\ AcquireOutcome(row, fingerprint[r]) = "COMPLETED"
              /\ answer' = [answer EXCEPT ![r] = row.result]
          BY <3>1, <4>3 DEF Lookup, Reply, Refuse
        <5>2. /\ row \in Rows(Requests, Fingerprints, Requests)
              /\ fingerprint[r] \in Fingerprints
          BY <3>k DEF Ownership, TypeOK
        <5>3. row.state = "COMPLETED" /\ row.result \in Requests
          BY <5>1, <5>2, RowShapes, Outcomes
        <5>4. commits[key[r]] = {row.result}
          BY <3>k, <5>3 DEF Ownership, Vouched
        <5> QED BY <4>1, <5>1, <5>3, <5>4, <3>r
      <4> QED BY <4>2, <4>3
    <3>2. CASE OperationCommits(r)
      <4>1. /\ commits[key[r]] = {}
            /\ commits' = [commits EXCEPT ![key[r]] = {r}]
            /\ UNCHANGED answer
        <5>1. commits[key[r]] = {}
          BY <3>2 DEF OperationCommits, Ownership, Running
        <5> QED BY <3>2, <5>1 DEF OperationCommits, Goto
      <4>2. /\ Decided[key[r]] = None
            /\ Decided' = [Decided EXCEPT ![key[r]] = r]
        <5>1. commits \in [Keys -> SUBSET Requests]
          BY DEF Ownership, TypeOK
        <5>2. commits'[key[r]] = {r}
          BY <4>1, <3>k, <5>1
        <5>3. Decided[key[r]] = None
          BY <4>1, <3>k DEF Decided
        <5>4. Decided'[key[r]] = r
          BY <5>2, <3>k DEF Decided
        <5>5. \A k \in Keys \ {key[r]} : Decided'[k] = Decided[k]
          <6> TAKE k \in Keys \ {key[r]}
          <6>1. commits'[k] = commits[k]
            BY <4>1, <5>1
          <6>2. /\ Decided[k] = IF commits[k] = {} THEN None
                                ELSE CHOOSE q \in commits[k] : TRUE
                /\ Decided'[k] = IF commits'[k] = {} THEN None
                                 ELSE CHOOSE q \in commits'[k] : TRUE
            BY DEF Decided
          <6> QED BY <6>1, <6>2
        <5>6. Decided = [k \in Keys |-> Decided[k]] /\ Decided' = [k \in Keys |-> Decided'[k]]
          BY DEF Decided
        <5> QED BY <5>3, <5>4, <5>5, <5>6
      <4>3. Once!Decide(key[r], r)
        BY <4>1, <4>2 DEF Once!Decide
      <4> QED BY <4>3, <3>k DEF Once!Next
    <3>3. CASE Complete(r)
      <4>1. /\ answer[r] = None
            /\ commits[key[r]] = {r}
            /\ answer' = [answer EXCEPT ![r] = r]
            /\ UNCHANGED commits
        BY <3>3 DEF Complete, Reply, Ownership, Running
      <4> QED BY <4>1, <3>r
    <3>4. CASE ~(Lookup(r) \/ OperationCommits(r) \/ Complete(r))
      BY <2>n, <3>4, <2>q DEF Work, Begin, Lose, Insert, OperationThrows, Abandon,
           CompletionFails, Goto, Refuse
    <3> QED BY <3>1, <3>2, <3>3, <3>4
  <2> QED BY <2>0, <2>n DEF Next
<1> QED BY <1>1, <1>2, OwnershipInvariant, PTL DEF Spec, ImplementsAtMostOnce, Once!Spec

-------------------------------------------------------------------------------
(* Cart: what a call read is still so while the cart has the version it read. *)

\* A call that read the cart, and may still save.
ReadIsFresh(x) ==
  /\ x.seen.version <= carts[x.customer].version
  /\ x.seen.version = carts[x.customer].version => x.seen = carts[x.customer]
  /\ x.seen # NoCart => x.seen.state = "ACTIVE"
  /\ x.seen = NoCart => x.operation.name = "addItem"

\* What module 05 has still to grant before the save.
StillAsked(x, s) == IF x.asks[s] > 0 THEN x.asks[s] ELSE 0

\* A call that knows what to save, as long as it may save it.
PlanIsSound(x) ==
  /\ x.row.version = x.version + 1
  /\ x.version <= carts[x.customer].version
  /\ x.version = carts[x.customer].version =>
       /\ carts[x.customer].state \in {"NONE", "ACTIVE"}
       /\ x.row.totalLines = Cardinality(LinesIn(x.contents))
       /\ x.row.totalItems = ItemsIn(x.contents)
       /\ \A s \in Skus :
            x.contents[s] <= confirmed[x.customer][s] + StillAsked(x, s)

CartInv ==
  /\ CartTypeOK
  /\ TotalsMatchLines
  /\ SnapshotIsTheCart
  /\ LinesWereConfirmed
  /\ \A c \in Customers : carts[c] = NoCart => lines[c] = NoLines
  /\ \A t \in Calls :
       /\ task[t].pc = "lines" => ReadIsFresh(task[t])
       /\ task[t].pc = "stock" => PlanIsSound(task[t])

-------------------------------------------------------------------------------
(* Counting items and lines.                                                  *)

LEMMA LineItemsCount ==
  ASSUME NEW s, NEW q \in Nat
  PROVE  IsFiniteSet(LineItems(s, q)) /\ Cardinality(LineItems(s, q)) = q
<1>1. IsFiniteSet(1..q) /\ Cardinality(1..q) = q
  <2>1. IsFiniteSet(1..q) /\ Cardinality(1..q) = IF 1 > q THEN 0 ELSE q - 1 + 1
    BY FS_Interval
  <2>2. QED
    BY <2>1
<1>2. IsFiniteSet({s}) /\ Cardinality({s}) = 1
  BY FS_Singleton
<1>3. /\ IsFiniteSet({s} \X (1..q))
      /\ Cardinality({s} \X (1..q)) = Cardinality({s}) * Cardinality(1..q)
  BY <1>1, <1>2, FS_Product
<1>4. Cardinality({s} \X (1..q)) = 1 * q
  BY <1>1, <1>2, <1>3, Zenon
<1>5. PICK k : k = Cardinality({s} \X (1..q))
  OBVIOUS
<1>6. k = 1 * q
  BY <1>4, <1>5, Zenon
<1>7. k = q
  BY <1>6
<1>8. QED
  BY <1>3, <1>5, <1>7, Zenon DEF LineItems

LEMMA LineItemsSku ==
  ASSUME NEW s, NEW q, NEW i \in LineItems(s, q)
  PROVE  i[1] = s
  BY DEF LineItems

\* A cart has finitely many items and lines.
LEMMA CartsAreFinite ==
  ASSUME NEW contents \in Contents
  PROVE  /\ IsFiniteSet(Items(contents)) /\ ItemsIn(contents) \in Nat
         /\ IsFiniteSet(LinesIn(contents)) /\ Cardinality(LinesIn(contents)) \in Nat
<1>1. MaxQuantity \in Nat
  BY LimitsAssumption
<1>2. IsFiniteSet(1..MaxQuantity)
  BY <1>1, FS_Interval
<1>3. IsFiniteSet(Skus \X (1..MaxQuantity))
  BY <1>2, CatalogAssumption, FS_Product
<1>4. \A s \in Skus : contents[s] \in 0..MaxQuantity
  BY DEF Contents
<1>5. Items(contents) \subseteq Skus \X (1..MaxQuantity)
  BY <1>1, <1>4 DEF Items, LineItems
<1>6. IsFiniteSet(Items(contents))
  BY <1>3, <1>5, FS_Subset
<1>7. IsFiniteSet(LinesIn(contents))
  <2>1. LinesIn(contents) \subseteq Skus
    BY DEF LinesIn
  <2>2. QED
    BY <2>1, CatalogAssumption, FS_Subset
<1>8. QED
  BY <1>6, <1>7, FS_CardinalityType DEF ItemsIn

\* The items on every line but one.
OtherItems(contents, s) ==
  UNION {LineItems(u, contents[u]) : u \in Skus \ {s}}

LEMMA ItemsSplit ==
  ASSUME NEW contents \in Contents, NEW s \in Skus
  PROVE  /\ Cardinality(OtherItems(contents, s)) \in Nat
         /\ ItemsIn(contents) = Cardinality(OtherItems(contents, s)) + contents[s]
<1>1. PICK q \in Nat : q = contents[s]
  BY LimitsAssumption DEF Contents
<1>2. PICK A, B, I : /\ A = OtherItems(contents, s)
                     /\ B = LineItems(s, q)
                     /\ I = Items(contents)
  OBVIOUS
<1>3. I = A \cup B
  BY <1>1, <1>2 DEF Items, OtherItems
<1>4. A \cap B = {}
  BY <1>2, LineItemsSku DEF OtherItems
<1>5. IsFiniteSet(B) /\ Cardinality(B) = q
  BY <1>2, LineItemsCount, Zenon
<1>6. IsFiniteSet(A)
  BY <1>2, <1>3, CartsAreFinite, FS_Subset
<1>7. Cardinality(A \cup B) = Cardinality(A) + Cardinality(B) - Cardinality(A \cap B)
  BY <1>5, <1>6, FS_Union
<1>8. Cardinality(A \cap B) = 0
  BY <1>4, FS_EmptySet
<1>9. Cardinality(A) \in Nat
  BY <1>6, FS_CardinalityType
<1>10. Cardinality(I) = Cardinality(A) + q
  BY <1>3, <1>5, <1>7, <1>8, <1>9
<1>11. QED
  BY <1>1, <1>2, <1>9, <1>10 DEF ItemsIn

\* One line with another quantity: the items differ by as much.
LEMMA ItemsChange ==
  ASSUME NEW contents \in Contents, NEW s \in Skus, NEW q \in 0..MaxQuantity
  PROVE  /\ [contents EXCEPT ![s] = q] \in Contents
         /\ ItemsIn([contents EXCEPT ![s] = q]) = ItemsIn(contents) + (q - contents[s])
<1>1. PICK next : next = [contents EXCEPT ![s] = q]
  OBVIOUS
<1>2. /\ next \in Contents
      /\ \A u \in Skus : next[u] = IF u = s THEN q ELSE contents[u]
  BY <1>1 DEF Contents
<1>3. OtherItems(next, s) = OtherItems(contents, s)
  BY <1>2 DEF OtherItems
<1>4. PICK a : a = Cardinality(OtherItems(contents, s))
  OBVIOUS
<1>5. a \in Nat /\ ItemsIn(contents) = a + contents[s]
  BY <1>4, ItemsSplit
<1>6. ItemsIn(next) = a + next[s]
  BY <1>2, <1>3, <1>4, ItemsSplit
<1>7. contents[s] \in Nat /\ q \in Nat
  BY LimitsAssumption DEF Contents
<1>8. ItemsIn(next) = ItemsIn(contents) + (q - contents[s])
  BY <1>2, <1>5, <1>6, <1>7
<1>9. QED
  BY <1>1, <1>2, <1>8

LEMMA EmptyCart ==
  /\ NoLines \in Contents
  /\ ItemsIn(NoLines) = 0
  /\ LinesIn(NoLines) = {}
  /\ Cardinality(LinesIn(NoLines)) = 0
<1>1. NoLines \in Contents
  BY LimitsAssumption DEF NoLines, Contents
<1>2. LinesIn(NoLines) = {}
  BY DEF LinesIn, NoLines
<1>3. Items(NoLines) = {}
  BY DEF Items, LineItems, NoLines
<1>4. QED
  BY <1>1, <1>2, <1>3, FS_EmptySet DEF ItemsIn

-------------------------------------------------------------------------------
(* CartInv is kept by every step.                                             *)

CartTasks == {Idle} \cup ReadTasks \cup SaveTasks

\* What a call may hold.
Sensible(x) ==
  /\ x \in CartTasks
  /\ x.pc = "lines" => ReadIsFresh(x)
  /\ x.pc = "stock" => PlanIsSound(x)

LEMMA CartTaskShapes ==
  ASSUME NEW x \in CartTasks
  PROVE  /\ x = Idle <=> x.pc = "idle"
         /\ x.pc = "lines" <=> x \in ReadTasks
         /\ x.pc = "stock" <=> x \in SaveTasks
  BY DEF CartTasks, Idle, ReadTasks, SaveTasks

LEMMA CartTables ==
  ASSUME CartInv
  PROVE  /\ task \in [Calls -> CartTasks]
         /\ carts \in [Customers -> {NoCart} \cup CartRows]
         /\ lines \in [Customers -> Contents]
         /\ \A c \in Customers :
              /\ carts[c].version \in Nat
              /\ carts[c] = NoCart <=> carts[c].version = 0
              /\ carts[c] = NoCart <=> carts[c].state = "NONE"
         /\ \A t \in Calls : Sensible(task[t])
<1>1. /\ task \in [Calls -> CartTasks]
      /\ carts \in [Customers -> {NoCart} \cup CartRows]
      /\ lines \in [Customers -> Contents]
  BY DEF CartInv, CartTypeOK, CartTasks
<1>2. ASSUME NEW c \in Customers
      PROVE  /\ carts[c].version \in Nat
             /\ carts[c] = NoCart <=> carts[c].version = 0
             /\ carts[c] = NoCart <=> carts[c].state = "NONE"
  BY <1>1 DEF NoCart, CartRows
<1>3. \A t \in Calls : Sensible(task[t])
  BY <1>1 DEF CartInv, Sensible
<1>4. QED
  BY <1>1, <1>2, <1>3

\* An answer that module 05 keeps is one of its answers.
LEMMA KeptAnswers ==
  ASSUME CartInv, NEW s \in Skus, NEW correlation, NEW units \in Nat,
         NEW result \in {"RESERVED", "DENIED"},
         \/ KeepAnswer(s, correlation, units, result)
         \/ UNCHANGED answers
  PROVE  answers' \in [Skus \X Correlations -> Answers]
<1>1. answers \in [Skus \X Correlations -> Answers]
  BY DEF CartInv, CartTypeOK
<1>2. Completed(units, result) \in Answers
  BY DEF Completed, Answers, Rows
<1> QED
  BY <1>1, <1>2 DEF KeepAnswer

\* A step that leaves carts and confirmations alone and lets one call go on.
LEMMA CartGoesOn ==
  ASSUME CartInv, NEW t \in Calls, NEW x, Sensible(x),
         task' = [task EXCEPT ![t] = x],
         UNCHANGED <<carts, lines, snapshots, confirmed>>,
         onHand' \in [Skus -> 0..MaxUnits], reserved' \in [Skus -> 0..MaxUnits],
         answers' \in [Skus \X Correlations -> Answers]
  PROVE  CartInv'
<1>1. /\ \A u \in Calls : Sensible(task'[u])
      /\ task' \in [Calls -> CartTasks]
  BY CartTables DEF Sensible
<1>2. CartTypeOK'
  BY <1>1 DEF CartInv, CartTypeOK, CartTasks
<1>3. /\ TotalsMatchLines'
      /\ SnapshotIsTheCart'
      /\ LinesWereConfirmed'
      /\ \A c \in Customers : carts'[c] = NoCart => lines'[c] = NoLines
  BY DEF CartInv, TotalsMatchLines, SnapshotIsTheCart, LinesWereConfirmed
<1>4. ASSUME NEW u \in Calls, task'[u].pc = "lines"
      PROVE  ReadIsFresh(task[u])'
  BY <1>1, <1>4 DEF Sensible, ReadIsFresh
<1>5. ASSUME NEW u \in Calls, task'[u].pc = "stock"
      PROVE  PlanIsSound(task[u])'
  BY <1>1, <1>5 DEF Sensible, PlanIsSound, StillAsked
<1>6. QED
  BY <1>2, <1>3, <1>4, <1>5 DEF CartInv

\* Module 05's counters are left alone or move as its abstract specification says.
LEMMA StockKeepsType ==
  ASSUME CartInv, NEW s \in Skus, NEW quantity \in Nat,
         \/ M05!Reserve(s, quantity)
         \/ M05!Release(s, quantity)
         \/ M05!Move(s, quantity) /\ quantity <= MaxUnits
         \/ UNCHANGED <<onHand, reserved>>
  PROVE  onHand' \in [Skus -> 0..MaxUnits] /\ reserved' \in [Skus -> 0..MaxUnits]
<1>1. /\ onHand \in [Skus -> 0..MaxUnits] /\ reserved \in [Skus -> 0..MaxUnits]
      /\ MaxUnits \in Nat
  BY LimitsAssumption DEF CartInv, CartTypeOK
<1>2. onHand[s] \in 0..MaxUnits /\ reserved[s] \in 0..MaxUnits
  BY <1>1
<1>3. CASE M05!Reserve(s, quantity)
  <2>1. reserved[s] + quantity \in 0..MaxUnits
    BY <1>1, <1>2, <1>3 DEF M05!Reserve
  <2>2. QED
    BY <1>1, <1>3, <2>1 DEF M05!Reserve
<1>4. CASE M05!Release(s, quantity)
  <2>1. reserved[s] - quantity \in 0..MaxUnits
    BY <1>1, <1>2, <1>4 DEF M05!Release
  <2>2. QED
    BY <1>1, <1>4, <2>1 DEF M05!Release
<1>5. CASE M05!Move(s, quantity) /\ quantity <= MaxUnits
  BY <1>1, <1>5 DEF M05!Move
<1>6. QED
  BY <1>1, <1>3, <1>4, <1>5

LEMMA CartFinishes ==
  ASSUME CartInv, NEW t \in Calls, Finish(t),
         UNCHANGED <<carts, lines, snapshots, onHand, reserved, answers, confirmed>>
  PROVE  CartInv'
<1>1. Sensible(Idle)
  BY DEF Sensible, CartTasks, Idle
<1>2. QED
  BY <1>1, CartGoesOn DEF Finish, CartInv, CartTypeOK

LEMMA ReadCartKeeps ==
  ASSUME CartInv, NEW t \in Calls, NEW c \in Customers, NEW operation \in Operations,
         ReadCart(t, c, operation)
  PROVE  CartInv'
<1>1. PICK x : x = [pc |-> "lines", customer |-> c, operation |-> operation,
                    seen |-> carts[c]]
  OBVIOUS
<1>2. x \in ReadTasks
  BY <1>1, CartTables DEF ReadTasks
<1>3. ReadIsFresh(x)
  BY <1>1, CartTables DEF ReadIsFresh, ReadCart, Mutable
<1>4. Sensible(x)
  BY <1>1, <1>2, <1>3 DEF Sensible, CartTasks
<1>5. QED
  BY <1>1, <1>4, CartGoesOn DEF ReadCart, CartInv, CartTypeOK

\* What a call that is about to read the lines finds, if its cart is fresh.
LEMMA LinesReadAreFresh ==
  ASSUME CartInv, NEW t \in Calls, task[t].pc = "lines"
  PROVE  /\ task[t] \in ReadTasks
         /\ task[t].customer \in Customers
         /\ task[t].seen \in {NoCart} \cup CartRows
         /\ LinesRead(t) \in Contents
         /\ task[t].seen.version <= carts[task[t].customer].version
         /\ task[t].seen.version = carts[task[t].customer].version =>
              /\ task[t].seen = carts[task[t].customer]
              /\ carts[task[t].customer].state \in {"NONE", "ACTIVE"}
              /\ LinesRead(t) = lines[task[t].customer]
<1>1. task[t] \in ReadTasks /\ ReadIsFresh(task[t])
  BY CartTables, CartTaskShapes DEF Sensible
<1>2. PICK c \in Customers, seen \in {NoCart} \cup CartRows :
        c = task[t].customer /\ seen = task[t].seen
  BY <1>1 DEF ReadTasks
<1>3. LinesRead(t) \in Contents
  BY <1>2, CartTables, EmptyCart DEF LinesRead
<1>4. /\ seen.version <= carts[c].version
      /\ seen.version = carts[c].version => seen = carts[c]
      /\ seen # NoCart => seen.state = "ACTIVE"
  BY <1>1, <1>2 DEF ReadIsFresh
<1>5. ASSUME seen = carts[c]
      PROVE  carts[c].state \in {"NONE", "ACTIVE"} /\ LinesRead(t) = lines[c]
  <2>1. CASE seen = NoCart
    <3>1. carts[c] = NoCart
      BY <1>5, <2>1
    <3>2. lines[c] = NoLines
      BY <3>1 DEF CartInv
    <3>3. LinesRead(t) = NoLines
      BY <1>2, <2>1 DEF LinesRead
    <3>4. NoCart.state = "NONE"
      BY DEF NoCart
    <3>5. QED
      BY <3>1, <3>2, <3>3, <3>4
  <2>2. CASE seen # NoCart
    BY <1>2, <1>4, <1>5, <2>2 DEF LinesRead
  <2>3. QED
    BY <2>1, <2>2
<1>6. QED
  BY <1>1, <1>2, <1>3, <1>4, <1>5

\* A plan is sound if row and contents agree whenever the cart is as it was read.
LEMMA PlanKeeps ==
  ASSUME CartInv, NEW t \in Calls, task[t].pc = "lines",
         NEW row \in PlannedRows, NEW contents \in Contents, NEW asks \in [Skus -> Int],
         NEW correlation \in Supplied,
         Plan(t, row, contents, asks, correlation),
         row.version = task[t].seen.version + 1,
         task[t].seen = carts[task[t].customer] /\ LinesRead(t) = lines[task[t].customer] =>
           /\ row.totalLines = Cardinality(LinesIn(contents))
           /\ row.totalItems = ItemsIn(contents)
           /\ \A s \in Skus :
                contents[s] <= lines[task[t].customer][s]
                                 + (IF asks[s] > 0 THEN asks[s] ELSE 0),
         UNCHANGED <<carts, lines, snapshots, onHand, reserved, answers, confirmed>>
  PROVE  CartInv'
<1>1. PICK c \in Customers, seen \in {NoCart} \cup CartRows :
        c = task[t].customer /\ seen = task[t].seen
  BY LinesReadAreFresh
<1>2. PICK x : x = [pc |-> "stock", customer |-> c, version |-> seen.version,
                    correlation |-> correlation, asks |-> asks, row |-> row, contents |-> contents]
  OBVIOUS
<1>3. seen.version \in Nat
  BY <1>1 DEF NoCart, CartRows
<1>4. x \in SaveTasks
  BY <1>2, <1>3 DEF SaveTasks
<1>5. PlanIsSound(x)
  <2>1. x.row.version = x.version + 1 /\ x.version <= carts[c].version
    BY <1>1, <1>2, LinesReadAreFresh
  <2>2. ASSUME x.version = carts[c].version
        PROVE  /\ carts[c].state \in {"NONE", "ACTIVE"}
               /\ x.row.totalLines = Cardinality(LinesIn(x.contents))
               /\ x.row.totalItems = ItemsIn(x.contents)
               /\ \A s \in Skus :
                    x.contents[s] <= confirmed[c][s] + StillAsked(x, s)
    <3>1. /\ carts[c].state \in {"NONE", "ACTIVE"}
          /\ seen = carts[c]
          /\ LinesRead(t) = lines[c]
      BY <1>1, <1>2, <2>2, LinesReadAreFresh
    <3>2. /\ row.totalLines = Cardinality(LinesIn(contents))
          /\ row.totalItems = ItemsIn(contents)
          /\ \A s \in Skus : contents[s] <= lines[c][s] + (IF asks[s] > 0 THEN asks[s] ELSE 0)
      BY <1>1, <3>1
    <3>3. ASSUME NEW s \in Skus
          PROVE  x.contents[s] <= confirmed[c][s] + StillAsked(x, s)
      <4>1. PICK k \in Int : k = StillAsked(x, s)
        BY <1>2 DEF StillAsked
      <4>2. contents[s] <= lines[c][s] + k
        BY <1>2, <3>2, <4>1 DEF StillAsked
      <4>3. lines[c][s] <= confirmed[c][s]
        BY DEF CartInv, LinesWereConfirmed
      <4>4. contents[s] \in Int /\ lines[c][s] \in Int /\ confirmed[c][s] \in Int
        BY LimitsAssumption, CartTables DEF Contents, CartInv, CartTypeOK
      <4>5. QED
        BY <1>2, <4>1, <4>2, <4>3, <4>4
    <3>4. QED
      BY <1>2, <3>1, <3>2, <3>3
  <2>3. x.customer = c
    BY <1>2
  <2>4. QED
    BY <2>1, <2>2, <2>3 DEF PlanIsSound
<1>6. Sensible(x)
  BY <1>2, <1>4, <1>5 DEF Sensible, CartTasks
<1>7. task' = [task EXCEPT ![t] = x]
  BY <1>1, <1>2 DEF Plan
<1>8. QED
  BY <1>6, <1>7, CartGoesOn DEF CartInv, CartTypeOK

\* One line is planned to change.
LEMMA PlanLineKeeps ==
  ASSUME CartInv, NEW t \in Calls, task[t].pc = "lines", NEW s \in Skus,
         NEW quantity \in 0..MaxQuantity, NEW delta,
         delta = quantity - LinesRead(t)[s],
         task[t].seen = NoCart => quantity > 0,
         NEW correlation \in Supplied,
         PlanLine(t, s, quantity, delta, correlation),
         UNCHANGED <<carts, lines, snapshots, onHand, reserved, answers, confirmed>>
  PROVE  CartInv'
<1>1. PICK c \in Customers, seen \in {NoCart} \cup CartRows, now \in Contents :
        c = task[t].customer /\ seen = task[t].seen /\ now = LinesRead(t)
  BY LinesReadAreFresh
<1>2. now[s] \in Nat /\ quantity \in Nat /\ delta \in Int /\ delta = quantity - now[s]
  BY <1>1, LimitsAssumption DEF Contents
<1>3. PICK contents : contents = [now EXCEPT ![s] = quantity]
  OBVIOUS
<1>4. /\ contents \in Contents
      /\ ItemsIn(contents) = ItemsIn(now) + delta
      /\ \A u \in Skus : contents[u] = IF u = s THEN quantity ELSE now[u]
  <2>1. contents \in Contents /\ ItemsIn(contents) = ItemsIn(now) + (quantity - now[s])
    BY <1>3, ItemsChange
  <2>2. \A u \in Skus : contents[u] = IF u = s THEN quantity ELSE now[u]
    BY <1>3 DEF Contents
  <2>3. QED
    BY <1>2, <2>1, <2>2
<1>5. PICK asks : asks = [NoLines EXCEPT ![s] = delta]
  OBVIOUS
<1>6. /\ asks \in [Skus -> Int]
      /\ \A u \in Skus : asks[u] = IF u = s THEN delta ELSE 0
  BY <1>2, <1>5 DEF NoLines
<1>7. PICK count : count = IF now[s] = 0 \/ quantity = 0 THEN Cardinality(LinesIn(contents))
                           ELSE seen.totalLines
  OBVIOUS
<1>8. PICK row : row = IF seen = NoCart THEN Created(quantity) ELSE Advanced(seen, delta, count)
  OBVIOUS
<1>9. Plan(t, row, contents, asks, correlation)
  BY <1>1, <1>3, <1>5, <1>7, <1>8 DEF PlanLine
<1>10. seen # NoCart => seen \in CartRows
  OBVIOUS
<1>11. count \in Nat
  BY <1>4, <1>7, CartsAreFinite DEF CartRows, NoCart
<1>12. row \in PlannedRows /\ row.version = seen.version + 1
  <2>1. CASE seen = NoCart
    BY <1>2, <1>8, <2>1 DEF Created, PlannedRows, NoCart
  <2>2. CASE seen # NoCart
    <3>1. seen \in CartRows /\ row = Advanced(seen, delta, count)
      BY <1>8, <2>2
    <3>2. seen.totalItems + delta \in Int /\ seen.version + 1 \in Nat \ {0}
      BY <1>2, <3>1 DEF CartRows
    <3>3. QED
      BY <1>11, <3>1, <3>2 DEF Advanced, CartRows, PlannedRows
  <2>3. QED
    BY <2>1, <2>2
<1>13. ASSUME seen = carts[c], now = lines[c]
       PROVE  /\ row.totalLines = Cardinality(LinesIn(contents))
              /\ row.totalItems = ItemsIn(contents)
              /\ \A u \in Skus :
                   contents[u] <= lines[c][u] + (IF asks[u] > 0 THEN asks[u] ELSE 0)
  <2>1. seen.totalLines = Cardinality(LinesIn(now)) /\ seen.totalItems = ItemsIn(now)
    BY <1>13 DEF CartInv, TotalsMatchLines
  <2>2. \A u \in Skus : contents[u] <= now[u] + (IF asks[u] > 0 THEN asks[u] ELSE 0)
    <3>1. \A u \in Skus : now[u] \in Nat
      BY LimitsAssumption DEF Contents
    <3>2. QED
      BY <1>2, <1>4, <1>6, <3>1
  <2>3. CASE seen = NoCart
    <3>1. now = NoLines
      BY <1>13, <2>3 DEF CartInv
    <3>2. quantity > 0 /\ ItemsIn(contents) = quantity
      BY <1>1, <1>2, <1>4, <2>3, <3>1, EmptyCart DEF NoLines
    <3>3. LinesIn(contents) = {s}
      BY <1>4, <3>1, <3>2 DEF LinesIn, NoLines
    <3>4. Cardinality(LinesIn(contents)) = 1
      BY <3>3, FS_Singleton
    <3>5. row.totalLines = 1 /\ row.totalItems = quantity
      BY <1>8, <2>3 DEF Created
    <3>6. QED
      BY <1>13, <2>2, <3>2, <3>4, <3>5
  <2>4. CASE seen # NoCart
    <3>1. row.totalLines = count /\ row.totalItems = seen.totalItems + delta
      BY <1>8, <1>10, <2>4 DEF Advanced, CartRows
    <3>2. row.totalItems = ItemsIn(contents)
      BY <1>4, <2>1, <3>1
    <3>3. count = Cardinality(LinesIn(contents))
      <4>1. CASE now[s] = 0 \/ quantity = 0
        BY <1>7, <4>1
      <4>2. CASE now[s] # 0 /\ quantity # 0
        <5>1. LinesIn(contents) = LinesIn(now)
          BY <1>2, <1>4, <4>2 DEF LinesIn
        <5>2. QED
          BY <1>7, <2>1, <4>2, <5>1
      <4>3. QED
        BY <4>1, <4>2
    <3>4. QED
      BY <1>13, <2>2, <3>1, <3>2, <3>3
  <2>5. QED
    BY <2>3, <2>4
<1>14. QED
  BY <1>1, <1>4, <1>6, <1>9, <1>12, <1>13, PlanKeeps

\* The row of an emptied cart, and of one that ends.
LEMMA EmptiedRow ==
  ASSUME NEW r \in CartRows, NEW v \in Nat \ {0}
  PROVE  /\ [r EXCEPT !.totalLines = 0, !.totalItems = 0, !.version = v] \in CartRows
         /\ [r EXCEPT !.totalLines = 0, !.totalItems = 0, !.version = v].version = v
  BY DEF CartRows

LEMMA EndedRow ==
  ASSUME NEW r \in CartRows, NEW v \in Nat \ {0},
         NEW state \in {"CHECKED_OUT", "AUTO_EXPIRED"}
  PROVE  /\ [r EXCEPT !.state = state, !.version = v] \in CartRows
         /\ [r EXCEPT !.state = state, !.version = v].version = v
  BY DEF CartRows

LEMMA CartRowsArePlannable == CartRows \subseteq PlannedRows
  BY DEF CartRows, PlannedRows

LEMMA ReadLinesKeeps ==
  ASSUME CartInv, NEW t \in Calls, ReadLines(t)
  PROVE  CartInv'
<1>1. task[t].pc = "lines" /\ UNCHANGED <<carts, lines, snapshots, onHand, reserved, answers, confirmed>>
  BY DEF ReadLines
<1>2. task[t] \in ReadTasks /\ ReadIsFresh(task[t])
  BY <1>1, CartTables, CartTaskShapes DEF Sensible
<1>3. PICK c \in Customers, seen \in {NoCart} \cup CartRows, now \in Contents,
          operation \in Operations :
        /\ c = task[t].customer /\ seen = task[t].seen /\ now = LinesRead(t)
        /\ operation = task[t].operation
  BY <1>1, <1>2, LinesReadAreFresh DEF ReadTasks
<1>4. MaxQuantity \in Nat /\ \A s \in Skus : now[s] \in 0..MaxQuantity
  BY LimitsAssumption DEF Contents
<1>5. seen = NoCart => operation.name = "addItem"
  BY <1>2, <1>3 DEF ReadIsFresh
<1>6. CASE AddItem(t)
  <2>1. PICK s \in Skus, n \in 1..MaxQuantity, correlation \in Supplied :
          s = operation.sku /\ n = operation.quantity /\ correlation = operation.correlation
    BY <1>3, <1>6 DEF AddItem, Operations
  <2>2. now[s] + n <= MaxQuantity /\ PlanLine(t, s, now[s] + n, n, correlation)
    BY <1>3, <1>6, <2>1 DEF AddItem
  <2>3. PICK q : q = now[s] + n
    OBVIOUS
  <2>4. q \in 0..MaxQuantity /\ n = q - now[s] /\ q > 0
    BY <1>4, <2>1, <2>2, <2>3
  <2>5. PlanLine(t, s, q, n, correlation)
    BY <2>2, <2>3
  <2>6. QED
    BY <1>1, <1>3, <2>4, <2>5, PlanLineKeeps
<1>7. CASE UpdateItemQuantity(t)
  <2>1. PICK s \in Skus, q \in 1..MaxQuantity, correlation \in Supplied :
          s = operation.sku /\ q = operation.quantity /\ correlation = operation.correlation
    BY <1>3, <1>7 DEF UpdateItemQuantity, Operations
  <2>2. PlanLine(t, s, q, q - now[s], correlation)
    BY <1>3, <1>7, <2>1 DEF UpdateItemQuantity
  <2>3. q \in 0..MaxQuantity /\ q > 0
    BY <1>4
  <2>4. QED
    BY <1>1, <1>3, <2>2, <2>3, PlanLineKeeps
<1>8. CASE RemoveItem(t)
  <2>1. PICK s \in Skus : s = operation.sku
    BY <1>3, <1>8 DEF RemoveItem, Operations
  <2>2. PlanLine(t, s, 0, -now[s], NoCorrelation)
    BY <1>3, <1>8, <2>1 DEF RemoveItem
  <2>3. 0 \in 0..MaxQuantity /\ -now[s] = 0 - now[s] /\ NoCorrelation \in Supplied
    BY <1>4 DEF Supplied
  <2>4. seen # NoCart
    BY <1>3, <1>5, <1>8 DEF RemoveItem
  <2>5. QED
    BY <1>1, <1>3, <2>2, <2>3, <2>4, PlanLineKeeps
<1>9. CASE ReleaseAll(t)
  <2>1. seen \in CartRows
    BY <1>3, <1>5, <1>9 DEF ReleaseAll
  <2>2. PICK release : release = [s \in Skus |-> -now[s]]
    OBVIOUS
  <2>3. release \in [Skus -> Int] /\ \A s \in Skus : ~(release[s] > 0)
    BY <1>4, <2>2
  <2>4. PICK row, contents :
          /\ Plan(t, row, contents, release, NoCorrelation)
          /\ \/ /\ row = [seen EXCEPT !.totalLines = 0, !.totalItems = 0, !.version = @ + 1]
                /\ contents = NoLines
             \/ /\ \E state \in {"CHECKED_OUT", "AUTO_EXPIRED"} :
                     row = [seen EXCEPT !.state = state, !.version = @ + 1]
                /\ contents = now
    BY <1>3, <1>9, <2>2 DEF ReleaseAll
  <2>5. row \in PlannedRows /\ row.version = seen.version + 1 /\ contents \in Contents
    <3>1. PICK v \in Nat \ {0} : v = seen.version + 1
      BY <2>1 DEF CartRows
    <3>2. ASSUME row = [seen EXCEPT !.totalLines = 0, !.totalItems = 0, !.version = @ + 1]
          PROVE  row \in PlannedRows /\ row.version = seen.version + 1
      BY <2>1, <3>1, <3>2, EmptiedRow, CartRowsArePlannable
    <3>3. ASSUME NEW state \in {"CHECKED_OUT", "AUTO_EXPIRED"},
                 row = [seen EXCEPT !.state = state, !.version = @ + 1]
          PROVE  row \in PlannedRows /\ row.version = seen.version + 1
      BY <2>1, <3>1, <3>3, EndedRow, CartRowsArePlannable
    <3>4. QED
      BY <2>4, <3>2, <3>3, EmptyCart
  <2>6. ASSUME seen = carts[c], now = lines[c]
        PROVE  /\ row.totalLines = Cardinality(LinesIn(contents))
               /\ row.totalItems = ItemsIn(contents)
               /\ \A s \in Skus :
                    contents[s] <= lines[c][s] + (IF release[s] > 0 THEN release[s] ELSE 0)
    <3>1. seen.totalLines = Cardinality(LinesIn(now)) /\ seen.totalItems = ItemsIn(now)
      BY <2>6 DEF CartInv, TotalsMatchLines
    <3>2. row.totalLines = Cardinality(LinesIn(contents)) /\ row.totalItems = ItemsIn(contents)
      BY <2>1, <2>4, <3>1, EmptyCart DEF CartRows
    <3>3. \A s \in Skus : contents[s] <= now[s]
      BY <1>4, <2>4 DEF NoLines
    <3>4. \A s \in Skus : contents[s] <= now[s] + (IF release[s] > 0 THEN release[s] ELSE 0)
      BY <1>4, <2>3, <3>3
    <3>5. QED
      BY <2>6, <3>2, <3>4
  <2>7. NoCorrelation \in Supplied
    BY DEF Supplied
  <2>8. QED
    BY <1>1, <1>3, <2>3, <2>4, <2>5, <2>6, <2>7, PlanKeeps
<1>10. QED
  BY <1>6, <1>7, <1>8, <1>9 DEF ReadLines

\* What module 05 confirmed is not asked for again.
LEMMA ReserveKeeps ==
  ASSUME CartInv, NEW t \in Calls, NEW s \in Skus, Reserve(t, s)
  PROVE  CartInv'
<1>1. task[t] \in SaveTasks /\ PlanIsSound(task[t])
  BY CartTables, CartTaskShapes DEF Reserve, Sensible
<1>2. PICK c \in Customers, asks \in [Skus -> Int] :
        c = task[t].customer /\ asks = task[t].asks
  BY <1>1 DEF SaveTasks
<1>3. asks[s] \in Nat /\ asks[s] > 0
  BY <1>2 DEF Reserve
<1>4. /\ M05!Reserve(s, asks[s]) \/ UNCHANGED <<onHand, reserved>>
      /\ \/ KeepAnswer(s, task[t].correlation, asks[s], "RESERVED")
         \/ UNCHANGED answers
      /\ confirmed' = [confirmed EXCEPT ![c][s] = @ + asks[s]]
      /\ task' = [task EXCEPT ![t].asks[s] = 0]
      /\ UNCHANGED <<carts, lines, snapshots>>
  BY <1>2 DEF Reserve
<1>5. confirmed \in [Customers -> [Skus -> Nat]]
  BY DEF CartInv, CartTypeOK
<1>6. /\ confirmed' \in [Customers -> [Skus -> Nat]]
      /\ confirmed'[c][s] = confirmed[c][s] + asks[s]
      /\ \A d \in Customers, u \in Skus : confirmed[d][u] <= confirmed'[d][u]
  <2>1. confirmed[c][s] + asks[s] \in Nat
    BY <1>3, <1>5
  <2>2. \A d \in Customers, u \in Skus :
          confirmed'[d][u] = IF d = c /\ u = s THEN confirmed[c][s] + asks[s] ELSE confirmed[d][u]
    BY <1>4, <1>5
  <2>3. confirmed' \in [Customers -> [Skus -> Nat]]
    BY <1>4, <1>5, <2>1
  <2>4. QED
    BY <1>3, <1>5, <2>2, <2>3
<1>7. PICK left : left = [asks EXCEPT ![s] = 0]
  OBVIOUS
<1>8. left \in [Skus -> Int] /\ \A u \in Skus : left[u] = IF u = s THEN 0 ELSE asks[u]
  BY <1>2, <1>7
<1>9. PICK x : x = [task[t] EXCEPT !.asks = left]
  OBVIOUS
<1>10. /\ x \in SaveTasks /\ x.pc = "stock"
       /\ x.customer = c /\ x.asks = left
       /\ x.version = task[t].version /\ x.row = task[t].row
       /\ x.contents = task[t].contents
  BY <1>1, <1>2, <1>8, <1>9 DEF SaveTasks
<1>11. /\ task' \in [Calls -> CartTasks]
       /\ \A u \in Calls : task'[u] = IF u = t THEN x ELSE task[u]
  <2>1. task' = [task EXCEPT ![t] = x]
    BY <1>2, <1>4, <1>7, <1>9
  <2>2. x \in CartTasks
    BY <1>10 DEF CartTasks
  <2>3. QED
    BY <2>1, <2>2, CartTables
<1>12. CartTypeOK'
  <2>1. onHand' \in [Skus -> 0..MaxUnits] /\ reserved' \in [Skus -> 0..MaxUnits]
    BY <1>3, <1>4, StockKeepsType
  <2>2. answers' \in [Skus \X Correlations -> Answers]
    BY <1>3, <1>4, KeptAnswers
  <2>3. QED
    BY <1>4, <1>6, <1>11, <2>1, <2>2 DEF CartInv, CartTypeOK, CartTasks
<1>13. /\ TotalsMatchLines'
       /\ SnapshotIsTheCart'
       /\ \A d \in Customers : carts'[d] = NoCart => lines'[d] = NoLines
  BY <1>4 DEF CartInv, TotalsMatchLines, SnapshotIsTheCart
<1>14. LinesWereConfirmed'
  <2>1. ASSUME NEW d \in Customers, NEW u \in Skus
        PROVE  lines[d][u] <= confirmed'[d][u]
    <3>1. lines[d][u] <= confirmed[d][u] /\ confirmed[d][u] <= confirmed'[d][u]
      BY <1>6 DEF CartInv, LinesWereConfirmed
    <3>2. lines[d][u] \in Int /\ confirmed[d][u] \in Int /\ confirmed'[d][u] \in Int
      BY <1>5, <1>6, LimitsAssumption, CartTables DEF Contents
    <3>3. QED
      BY <3>1, <3>2
  <2>2. QED
    BY <1>4, <2>1 DEF LinesWereConfirmed
<1>15. ASSUME NEW u \in Calls, task'[u].pc = "lines"
       PROVE  ReadIsFresh(task[u])'
  <2>1. task'[u] = task[u]
    BY <1>10, <1>11, <1>15
  <2>2. QED
    BY <1>4, <1>15, <2>1 DEF CartInv, ReadIsFresh
<1>16. ASSUME NEW u \in Calls, task'[u].pc = "stock"
       PROVE  PlanIsSound(task[u])'
  <2>1. PICK y : y = task[u]
    OBVIOUS
  <2>2. PICK z : z = task'[u]
    OBVIOUS
  <2>3. y \in SaveTasks /\ PlanIsSound(y)
    <3>1. y.pc = "stock"
      BY <1>1, <1>10, <1>11, <1>16, <2>1, <2>2 DEF SaveTasks
    <3>2. QED
      BY <2>1, <3>1, CartTables, CartTaskShapes DEF Sensible
  <2>4. /\ z.customer = y.customer /\ z.version = y.version /\ z.row = y.row
        /\ z.contents = y.contents
        /\ z.asks = IF u = t THEN left ELSE y.asks
    BY <1>2, <1>10, <1>11, <2>1, <2>2
  <2>5. ASSUME z.version = carts[z.customer].version, NEW p \in Skus
        PROVE  z.contents[p] <= confirmed'[z.customer][p] + StillAsked(z, p)
    <3>1. PICK d \in Customers : d = y.customer
      BY <2>3 DEF SaveTasks
    <3>2. y.contents[p] <= confirmed[d][p] + StillAsked(y, p)
      BY <2>3, <2>4, <2>5, <3>1 DEF PlanIsSound
    <3>3. y.asks \in [Skus -> Int] /\ y.contents \in Contents
      BY <2>3 DEF SaveTasks
    <3>4. /\ y.contents[p] \in Int /\ confirmed[d][p] \in Int /\ confirmed'[d][p] \in Int
          /\ confirmed[d][p] <= confirmed'[d][p]
      BY <1>5, <1>6, <3>3, LimitsAssumption DEF Contents
    <3>5. CASE u = t /\ p = s
      <4>1. d = c /\ y.asks = asks /\ StillAsked(y, p) = asks[s] /\ StillAsked(z, p) = 0
        BY <1>2, <1>3, <1>8, <2>1, <2>4, <3>1, <3>5 DEF StillAsked
      <4>2. confirmed'[d][p] = confirmed[d][p] + asks[s]
        BY <1>6, <3>5, <4>1
      <4>3. z.contents[p] <= confirmed'[d][p] + 0
        BY <2>4, <3>2, <3>4, <4>1, <4>2
      <4>4. QED
        BY <2>4, <3>1, <4>1, <4>3
    <3>6. CASE ~(u = t /\ p = s)
      <4>1. PICK k \in Int : k = StillAsked(y, p)
        BY <3>3 DEF StillAsked
      <4>2. StillAsked(z, p) = k
        BY <1>2, <1>8, <2>1, <2>4, <3>6, <4>1 DEF StillAsked
      <4>3. z.contents[p] <= confirmed'[d][p] + k
        BY <2>4, <3>2, <3>4, <4>1
      <4>4. QED
        BY <2>4, <3>1, <4>2, <4>3
    <3>7. QED
      BY <3>5, <3>6
  <2>6. QED
    BY <1>4, <2>2, <2>3, <2>4, <2>5 DEF PlanIsSound, StillAsked
<1>17. QED
  BY <1>12, <1>13, <1>14, <1>15, <1>16 DEF CartInv

\* A call that was denied ends; what module 05 keeps of it may be new.
LEMMA DenialKeeps ==
  ASSUME CartInv, NEW t \in Calls, NEW s \in Skus, ReserveDenied(t, s)
  PROVE  CartInv'
<1>1. task[t] \in SaveTasks
  BY CartTables, CartTaskShapes DEF ReserveDenied
<1>2. PICK n \in Nat : n = task[t].asks[s]
  BY <1>1 DEF SaveTasks, ReserveDenied
<1>3. answers' \in [Skus \X Correlations -> Answers]
  BY <1>2, KeptAnswers DEF ReserveDenied
<1>4. Sensible(Idle)
  BY DEF Sensible, CartTasks, Idle
<1> QED
  BY <1>3, <1>4, CartGoesOn DEF ReserveDenied, Finish, CartInv, CartTypeOK

LEMMA ReleaseKeeps ==
  ASSUME CartInv, NEW t \in Calls, NEW s \in Skus, Release(t, s)
  PROVE  CartInv'
<1>1. task[t] \in SaveTasks /\ PlanIsSound(task[t])
  BY CartTables, CartTaskShapes DEF Release, Sensible
<1>2. PICK asks \in [Skus -> Int] : asks = task[t].asks
  BY <1>1 DEF SaveTasks
<1>3. -asks[s] \in Nat
  BY <1>2 DEF Release
<1>4. onHand' \in [Skus -> 0..MaxUnits] /\ reserved' \in [Skus -> 0..MaxUnits]
  BY <1>2, <1>3, StockKeepsType DEF Release
<1>5. PICK left : left = [asks EXCEPT ![s] = 0]
  OBVIOUS
<1>6. left \in [Skus -> Int] /\ \A u \in Skus : left[u] = IF u = s THEN 0 ELSE asks[u]
  BY <1>2, <1>5
<1>7. PICK x : x = [task[t] EXCEPT !.asks = left]
  OBVIOUS
<1>8. /\ x \in SaveTasks /\ x.pc = "stock"
      /\ x.customer = task[t].customer /\ x.asks = left
      /\ x.version = task[t].version /\ x.row = task[t].row
      /\ x.contents = task[t].contents
  BY <1>1, <1>6, <1>7 DEF SaveTasks
<1>9. \A u \in Skus : StillAsked(x, u) = StillAsked(task[t], u)
  <2>1. ~(asks[s] > 0)
    BY <1>2 DEF Release
  <2>2. QED
    BY <1>2, <1>6, <1>8, <2>1 DEF StillAsked
<1>10. PlanIsSound(x)
  BY <1>1, <1>8, <1>9 DEF PlanIsSound
<1>11. Sensible(x)
  BY <1>8, <1>10 DEF Sensible, CartTasks
<1>12. task' = [task EXCEPT ![t] = x]
  BY <1>2, <1>5, <1>7 DEF Release
<1>13. QED
  BY <1>4, <1>11, <1>12, CartGoesOn DEF Release, CartInv, CartTypeOK

\* A save makes what it planned the cart, and outdates what others read.
LEMMA SaveKeeps ==
  ASSUME CartInv, NEW t \in Calls, Save(t), Savable(t)
  PROVE  /\ CartInv'
         /\ \A c \in Customers : carts'[c] # carts[c] \/ lines'[c] # lines[c] =>
              carts[c].state \in {"NONE", "ACTIVE"}
<1>1. task[t] \in SaveTasks /\ PlanIsSound(task[t])
  BY CartTables, CartTaskShapes DEF Save, Sensible
<1>2. PICK x \in SaveTasks : x = task[t]
  BY <1>1
<1>3. PICK c \in Customers, row \in PlannedRows, contents \in Contents :
        c = x.customer /\ row = x.row /\ contents = x.contents
  BY DEF SaveTasks
<1>4. /\ x.asks = NoLines
      /\ carts' = [carts EXCEPT ![c] = row]
      /\ lines' = [lines EXCEPT ![c] = contents]
      /\ snapshots' = IF row.state = "CHECKED_OUT"
                      THEN [snapshots EXCEPT ![c] = snapshots[c] \cup {contents}]
                      ELSE snapshots
      /\ task' = [task EXCEPT ![t] = Idle]
      /\ UNCHANGED <<onHand, reserved, answers, confirmed>>
      /\ carts[c].version = x.version
  <2>1. x.asks = NoLines
    BY <1>2 DEF Save
  <2>2. /\ carts' = [carts EXCEPT ![c] = row]
        /\ lines' = [lines EXCEPT ![c] = contents]
        /\ snapshots' = IF row.state = "CHECKED_OUT"
                        THEN [snapshots EXCEPT ![c] = snapshots[c] \cup {contents}]
                        ELSE snapshots
    BY <1>2, <1>3 DEF Save
  <2>3. QED
    BY <1>2, <1>3, <2>1, <2>2 DEF Save, Savable, Finish
<1>5. /\ carts[c].state \in {"NONE", "ACTIVE"}
      /\ row.version = carts[c].version + 1
      /\ row.totalLines = Cardinality(LinesIn(contents))
      /\ row.totalItems = ItemsIn(contents)
      /\ \A s \in Skus : contents[s] <= confirmed[c][s] + StillAsked(x, s)
  BY <1>1, <1>2, <1>3, <1>4 DEF PlanIsSound
<1>6. row \in CartRows /\ row # NoCart
  <2>1. row.totalItems \in Nat
    BY <1>5, CartsAreFinite
  <2>2. row \in CartRows
    BY <2>1 DEF PlannedRows, CartRows
  <2>3. QED
    BY <2>2 DEF CartRows, NoCart
<1>7. /\ \A d \in Customers : carts'[d] = IF d = c THEN row ELSE carts[d]
      /\ \A d \in Customers : lines'[d] = IF d = c THEN contents ELSE lines[d]
      /\ carts' \in [Customers -> {NoCart} \cup CartRows]
      /\ lines' \in [Customers -> Contents]
  BY <1>4, <1>6, CartTables
<1>8. /\ task' \in [Calls -> CartTasks]
      /\ \A u \in Calls : task'[u] = IF u = t THEN Idle ELSE task[u]
  BY <1>4, CartTables DEF CartTasks
<1>9. CartTypeOK'
  <2>1. snapshots' \in [Customers -> SUBSET Contents]
    BY <1>4 DEF CartInv, CartTypeOK
  <2>2. QED
    BY <1>4, <1>7, <1>8, <2>1 DEF CartInv, CartTypeOK, CartTasks
<1>10. TotalsMatchLines'
  BY <1>5, <1>7 DEF CartInv, TotalsMatchLines
<1>11. SnapshotIsTheCart'
  <2>1. snapshots[c] = {}
    BY <1>5 DEF CartInv, SnapshotIsTheCart
  <2>2. \A d \in Customers :
          snapshots'[d] = IF d = c /\ row.state = "CHECKED_OUT" THEN {contents}
                          ELSE snapshots[d]
    BY <1>4, <2>1 DEF CartInv, CartTypeOK
  <2>3. QED
    BY <1>7, <2>1, <2>2 DEF CartInv, SnapshotIsTheCart
<1>12. LinesWereConfirmed'
  <2>1. ASSUME NEW s \in Skus PROVE contents[s] <= confirmed[c][s]
    <3>1. StillAsked(x, s) = 0
      BY <1>4 DEF StillAsked, NoLines
    <3>2. confirmed[c][s] \in Nat
      BY DEF CartInv, CartTypeOK
    <3>3. QED
      BY <1>5, <3>1, <3>2
  <2>2. QED
    BY <1>4, <1>7, <2>1 DEF CartInv, LinesWereConfirmed
<1>13. \A d \in Customers : carts'[d] = NoCart => lines'[d] = NoLines
  BY <1>6, <1>7 DEF CartInv
<1>14. \A d \in Customers :
         /\ carts[d].version \in Nat /\ carts'[d].version \in Nat
         /\ d = c => carts[d].version < carts'[d].version
         /\ d # c => carts'[d] = carts[d]
  BY <1>5, <1>6, <1>7, CartTables
<1>15. ASSUME NEW u \in Calls, task'[u].pc = "lines"
       PROVE  ReadIsFresh(task[u])'
  <2>1. PICK y : y = task[u]
    OBVIOUS
  <2>2. task'[u] = y /\ y \in ReadTasks /\ ReadIsFresh(y)
    BY <1>8, <1>15, <2>1, CartTables, CartTaskShapes DEF Idle, Sensible
  <2>3. PICK d \in Customers, v \in Nat : d = y.customer /\ v = y.seen.version
    BY <2>2 DEF ReadTasks, NoCart, CartRows
  <2>4. /\ v <= carts'[d].version
        /\ v = carts'[d].version => y.seen = carts'[d]
    <3>1. v <= carts[d].version /\ (v = carts[d].version => y.seen = carts[d])
      BY <2>2, <2>3 DEF ReadIsFresh
    <3>2. CASE d = c
      BY <1>14, <3>1, <3>2
    <3>3. CASE d # c
      BY <1>14, <3>1, <3>3
    <3>4. QED
      BY <3>2, <3>3
  <2>5. QED
    BY <2>2, <2>3, <2>4 DEF ReadIsFresh
<1>16. ASSUME NEW u \in Calls, task'[u].pc = "stock"
       PROVE  PlanIsSound(task[u])'
  <2>1. PICK y : y = task[u]
    OBVIOUS
  <2>2. task'[u] = y /\ y \in SaveTasks /\ PlanIsSound(y)
    BY <1>8, <1>16, <2>1, CartTables, CartTaskShapes DEF Idle, Sensible
  <2>3. PICK d \in Customers, v \in Nat : d = y.customer /\ v = y.version
    BY <2>2 DEF SaveTasks
  <2>4. v <= carts[d].version
    BY <2>2, <2>3 DEF PlanIsSound
  <2>5. CASE d = c
    <3>1. v < carts'[d].version
      BY <1>14, <2>4, <2>5
    <3>2. QED
      BY <1>14, <2>2, <2>3, <3>1 DEF PlanIsSound
  <2>6. CASE d # c
    BY <1>4, <1>14, <2>2, <2>3, <2>6 DEF PlanIsSound, StillAsked
  <2>7. QED
    BY <2>5, <2>6
<1>17. CartInv'
  BY <1>9, <1>10, <1>11, <1>12, <1>13, <1>15, <1>16 DEF CartInv
<1>18. QED
  BY <1>5, <1>7, <1>17

\* What others do with the stock leaves the carts alone.
LEMMA StockMovesKeep ==
  ASSUME CartInv, NEW s \in Skus, NEW units \in 0..MaxUnits, NEW correlation \in Supplied,
         MoveStock(s, units) \/ ReservedElsewhere(s, correlation, units)
  PROVE  CartInv'
<1>1. onHand' \in [Skus -> 0..MaxUnits] /\ reserved' \in [Skus -> 0..MaxUnits]
  BY StockKeepsType, LimitsAssumption DEF MoveStock, ReservedElsewhere
<1>2. units \in Nat
  BY LimitsAssumption
<1>3. answers' \in [Skus \X Correlations -> Answers]
  BY <1>2, KeptAnswers DEF MoveStock, ReservedElsewhere
<1>4. CartTypeOK'
  BY <1>1, <1>3 DEF MoveStock, ReservedElsewhere, CartInv, CartTypeOK
<1>5. QED
  BY <1>4 DEF MoveStock, ReservedElsewhere, CartInv, TotalsMatchLines, SnapshotIsTheCart,
    LinesWereConfirmed,
              ReadIsFresh, PlanIsSound, StillAsked

\* Every step keeps CartInv, and changes only carts that are new or ACTIVE.
LEMMA CartInvNext ==
  ASSUME CartInv, [CartNext]_cartVars
  PROVE  /\ CartInv'
         /\ \A c \in Customers : carts'[c] # carts[c] \/ lines'[c] # lines[c] =>
              carts[c].state \in {"NONE", "ACTIVE"}
<1>1. CASE UNCHANGED cartVars
  BY <1>1 DEF cartVars, CartInv, CartTypeOK, TotalsMatchLines, SnapshotIsTheCart,
              LinesWereConfirmed, ReadIsFresh, PlanIsSound, StillAsked
<1>2. ASSUME NEW s \in Skus, NEW units \in 0..MaxUnits, NEW correlation \in Supplied,
             MoveStock(s, units) \/ ReservedElsewhere(s, correlation, units)
      PROVE  CartInv' /\ UNCHANGED <<carts, lines>>
  BY <1>2, StockMovesKeep DEF MoveStock, ReservedElsewhere
<1>3. ASSUME NEW t \in Calls, NEW c \in Customers, NEW operation \in Operations,
             ReadCart(t, c, operation)
      PROVE  CartInv' /\ UNCHANGED <<carts, lines>>
  BY <1>3, ReadCartKeeps DEF ReadCart
<1>4. ASSUME NEW t \in Calls, ReadLines(t)
      PROVE  CartInv' /\ UNCHANGED <<carts, lines>>
  BY <1>4, ReadLinesKeeps DEF ReadLines
<1>5. ASSUME NEW t \in Calls, NEW s \in Skus,
             Reserve(t, s) \/ ReserveDenied(t, s) \/ Release(t, s)
      PROVE  CartInv' /\ UNCHANGED <<carts, lines>>
  BY <1>5, ReserveKeeps, DenialKeeps, ReleaseKeeps DEF Reserve, ReserveDenied, Release
<1>6. ASSUME NEW t \in Calls, Drop(t)
      PROVE  CartInv' /\ UNCHANGED <<carts, lines>>
  BY <1>6, CartFinishes DEF Drop
<1>7. ASSUME NEW t \in Calls, Save(t), ~Savable(t)
      PROVE  CartInv' /\ UNCHANGED <<carts, lines>>
  BY <1>7, CartFinishes DEF Save
<1>8. NoCorrelation \in Supplied
  BY DEF Supplied
<1>9. QED
  BY <1>1, <1>2, <1>3, <1>4, <1>5, <1>6, <1>7, <1>8, SaveKeeps DEF CartNext

LEMMA CartInvInit ==
  ASSUME CartInit
  PROVE  CartInv
<1>1. /\ \A c \in Customers : carts[c] = NoCart /\ lines[c] = NoLines /\ snapshots[c] = {}
      /\ \A t \in Calls : task[t] = Idle
      /\ MaxUnits \in Nat
  BY LimitsAssumption DEF CartInit
<1>2. CartTypeOK
  <2>1. lines \in [Customers -> Contents] /\ snapshots \in [Customers -> SUBSET Contents]
    BY EmptyCart DEF CartInit
  <2>2. onHand \in [Skus -> 0..MaxUnits] /\ reserved \in [Skus -> 0..MaxUnits]
    BY <1>1 DEF CartInit, M05!Init
  <2>3. confirmed \in [Customers -> [Skus -> Nat]]
    BY DEF CartInit, NoLines
  <2>4. carts \in [Customers -> {NoCart} \cup CartRows] /\ task \in [Calls -> {Idle}]
    BY DEF CartInit
  <2>5. answers \in [Skus \X Correlations -> Answers]
    BY DEF CartInit, Answers, Rows
  <2>6. QED
    BY <2>1, <2>2, <2>3, <2>4, <2>5 DEF CartTypeOK
<1>3. TotalsMatchLines
  BY <1>1, EmptyCart DEF TotalsMatchLines, NoCart
<1>4. SnapshotIsTheCart
  BY <1>1 DEF SnapshotIsTheCart, NoCart
<1>5. LinesWereConfirmed
  BY <1>1 DEF CartInit, LinesWereConfirmed, NoLines
<1>6. QED
  BY <1>1, <1>2, <1>3, <1>4, <1>5 DEF CartInv, Idle

LEMMA CartInvariant == CartSpec => []CartInv
<1>1. CartInit => CartInv
  BY CartInvInit
<1>2. CartInv /\ [CartNext]_cartVars => CartInv'
  BY CartInvNext
<1>3. QED
  BY <1>1, <1>2, PTL DEF CartSpec

\* Carts, lines, stock and what calls hold keep their shapes for any number of
\* customers, SKUs and calls and any limits: CartTypeOK.
THEOREM CartTypeCorrect == CartSpec => []CartTypeOK
<1>1. CartInv => CartTypeOK
  BY DEF CartInv
<1>2. QED
  BY <1>1, CartInvariant, PTL

\* However many calls read one cart and race to save it, the totals it carries
\* along are those of its lines: TotalsMatchLines.
THEOREM TotalsAreRight == CartSpec => []TotalsMatchLines
<1>1. CartInv => TotalsMatchLines
  BY DEF CartInv
<1>2. QED
  BY <1>1, CartInvariant, PTL

\* A cart is handed to module 08 at most once, and stays what was handed over:
\* SnapshotIsTheCart.
THEOREM SnapshotsAreTheCarts == CartSpec => []SnapshotIsTheCart
<1>1. CartInv => SnapshotIsTheCart
  BY DEF CartInv
<1>2. QED
  BY <1>1, CartInvariant, PTL

\* Whatever module 05 denies, fails, answers again or confirms to calls that lose
\* their race, nothing is in a cart that it did not confirm to a call of the
\* customer, for any correlation ids they share: LinesWereConfirmed.
THEOREM CartsHoldConfirmedUnits == CartSpec => []LinesWereConfirmed
<1>1. CartInv => LinesWereConfirmed
  BY DEF CartInv
<1>2. QED
  BY <1>1, CartInvariant, PTL

\* No call, whenever it read the cart, changes one that was handed over or
\* expired: EndedCartsStay.
THEOREM EndedCartsAreFinal == CartSpec => EndedCartsStay
<1>1. CartInv /\ [CartNext]_cartVars =>
        [\A c \in Customers :
           carts[c].state \in {"CHECKED_OUT", "AUTO_EXPIRED"} =>
             carts'[c] = carts[c] /\ lines'[c] = lines[c]]_cartVars
  BY CartInvNext
<1>2. QED
  BY <1>1, CartInvariant, PTL DEF CartSpec, EndedCartsStay

\* Module 05 is used only as it promises to behave: seen from the stock alone,
\* carts and movements are the abstract Stock, which StockPool implements.  What
\* is shown of Stock therefore holds under every use module 07 makes of it.
THEOREM CartsUseStock == CartSpec => M05!Spec
<1>1. CartInit => M05!Init
  BY DEF CartInit
<1>2. ASSUME CartInv, [CartNext]_cartVars
      PROVE  [M05!Next]_<<onHand, reserved>>
  <2>1. /\ onHand \in [Skus -> 0..MaxUnits] /\ reserved \in [Skus -> 0..MaxUnits]
        /\ MaxUnits \in Nat
    BY <1>2, LimitsAssumption DEF CartInv, CartTypeOK
  <2>2. ASSUME NEW t \in Calls, NEW s \in Skus, Reserve(t, s), ~UNCHANGED <<onHand, reserved>>
        PROVE  M05!Next
    <3>1. PICK n \in Int : n = task[t].asks[s]
      BY <1>2, <2>2, CartTables, CartTaskShapes DEF Reserve, SaveTasks
    <3>2. M05!Reserve(s, n) /\ n > 0
      BY <2>2, <3>1 DEF Reserve
    <3>3. n \in 0..MaxUnits
      BY <2>1, <3>1, <3>2 DEF M05!Reserve
    <3>4. QED
      BY <3>2, <3>3 DEF M05!Next
  <2>3. ASSUME NEW t \in Calls, NEW s \in Skus, Release(t, s), ~UNCHANGED <<onHand, reserved>>
        PROVE  M05!Next
    <3>1. PICK n \in Int : n = -task[t].asks[s]
      BY <1>2, <2>3, CartTables, CartTaskShapes DEF Release, SaveTasks
    <3>2. M05!Release(s, n)
      BY <2>3, <3>1 DEF Release
    <3>3. n > 0
      BY <1>2, <2>3, <3>1, CartTables, CartTaskShapes DEF Release, SaveTasks
    <3>4. n \in 0..MaxUnits
      BY <2>1, <3>2, <3>3 DEF M05!Release
    <3>5. QED
      BY <3>2, <3>4 DEF M05!Next
  <2>4. ASSUME NEW s \in Skus, NEW units \in 0..MaxUnits, NEW correlation,
               MoveStock(s, units) \/ ReservedElsewhere(s, correlation, units)
        PROVE  M05!Next
    BY <2>4 DEF MoveStock, ReservedElsewhere, M05!Next
  <2>5. CASE UNCHANGED <<onHand, reserved>>
    BY <2>5
  <2>6. CASE ~UNCHANGED <<onHand, reserved>>
    BY <1>2, <2>2, <2>3, <2>4, <2>6 DEF CartNext, ReadCart, ReadLines, ReserveDenied,
       Save, Drop, cartVars
  <2>7. QED
    BY <2>5, <2>6
<1>3. QED
  BY <1>1, <1>2, CartInvariant, PTL DEF CartSpec, M05!Spec

===============================================================================
