--------------------------- MODULE ActivationProofs ----------------------------
(***************************************************************************)
(* Proofs about Activation for any number of operations, identities,        *)
(* attestations and calls.  The invariant has four layers: the shapes of    *)
(* the tables and tasks (TypeOK), who works for which identity (Held), what *)
(* a completed saga leaves behind (Granted), and what the deliveries that   *)
(* are under way have stored (Delivered).                                   *)
(***************************************************************************)
EXTENDS Activation, TLAPS

Preparing == {"insert", "prepare", "begin", "consume", "markFailure", "invalidate"}

\* A saga, and whoever prepares or expires one, has an authority.
Authorized ==
  /\ \A t \in Calls : task[t].pc \in Preparing => authorities[task[t].operation] # NoAuthority
  /\ \A o \in Operations : sagas[o].state # "NONE" => authorities[o] # NoAuthority

\* The step a call is at says what it holds.
LEMMA TaskShapes ==
  ASSUME NEW x \in {Idle} \cup Tasks
  PROVE  /\ x = Idle <=> x.pc = "idle"
         /\ x.pc \in Preparing =>
              x \in PreparationTasks /\ x.operation \in Operations
         /\ x.pc \in {"complete", "completed", "refused"} =>
              /\ x \in DeliveryTasks
              /\ x.operation \in Operations
              /\ x.attestation \in Attestations
              /\ x.version \in Nat
  BY DEF Idle, Tasks, PreparationTasks, DeliveryTasks, Preparing

\* A preparation or a delivery goes on at another step with what it holds.
LEMMA NextPreparation ==
  ASSUME NEW x \in PreparationTasks,
         NEW pc \in Preparing
  PROVE  /\ [x EXCEPT !.pc = pc] \in {Idle} \cup Tasks
         /\ [x EXCEPT !.pc = pc].pc = pc
         /\ [x EXCEPT !.pc = pc].operation = x.operation
  BY DEF PreparationTasks, Tasks, Preparing

LEMMA NextDelivery ==
  ASSUME NEW x \in DeliveryTasks, NEW pc \in {"complete", "completed", "refused"}
  PROVE  /\ [x EXCEPT !.pc = pc] \in {Idle} \cup Tasks
         /\ [x EXCEPT !.pc = pc].pc = pc
         /\ [x EXCEPT !.pc = pc].operation = x.operation
         /\ [x EXCEPT !.pc = pc].attestation = x.attestation
  BY DEF DeliveryTasks, Tasks

\* What one call does to the tasks.
LEMMA GoOn ==
  ASSUME TypeOK, NEW t \in Calls, NEW x \in {Idle} \cup Tasks, Go(t, x)
  PROVE  /\ task' \in [Calls -> {Idle} \cup Tasks]
         /\ task'[t] = x
         /\ \A u \in Calls : u # t => task'[u] = task[u]
  BY DEF TypeOK, Go

\* What the authorities and the sagas keep when one of them changes.
LEMMA ChangedAuthority ==
  ASSUME TypeOK, NEW o \in Operations, authorities[o] # NoAuthority,
         NEW s \in AuthorityStates,
         authorities' = [authorities EXCEPT ![o].state = s]
  PROVE  /\ authorities' \in
              [Operations -> {NoAuthority} \cup [state : AuthorityStates, target : Identities]]
         /\ authorities'[o].state = s
         /\ authorities'[o] # NoAuthority
         /\ \A p \in Operations : p # o => authorities'[p] = authorities[p]
         /\ \A p \in Operations : authorities'[p].target = authorities[p].target
<1>1. authorities[o] \in [state : AuthorityStates, target : Identities]
  BY DEF TypeOK
<1>2. /\ [authorities[o] EXCEPT !.state = s] \in [state : AuthorityStates, target : Identities]
      /\ [authorities[o] EXCEPT !.state = s].state = s
      /\ [authorities[o] EXCEPT !.state = s].target = authorities[o].target
  BY <1>1
<1>3. /\ authorities'[o] = [authorities[o] EXCEPT !.state = s]
      /\ \A p \in Operations : p # o => authorities'[p] = authorities[p]
  BY DEF TypeOK
<1>4. s # "NONE"
  BY DEF AuthorityStates
<1> QED
  BY <1>1, <1>2, <1>3, <1>4 DEF TypeOK, NoAuthority

LEMMA MovedSaga ==
  ASSUME TypeOK, NEW o \in Operations, NEW s \in SagaStates, Move(o, s)
  PROVE  /\ sagas' \in [Operations -> [state : SagaStates, version : Nat]]
         /\ sagas'[o].state = s
         /\ \A p \in Operations : p # o => sagas'[p] = sagas[p]
  BY DEF TypeOK, Move

-------------------------------------------------------------------------------
(* The shapes.                                                                *)

LEMMA InitTypeOK == Init => TypeOK
  BY DEF Init, TypeOK, SagaStates, Results

LEMMA NextTypeOK ==
  ASSUME TypeOK, Authorized, [Next]_vars
  PROVE  TypeOK'
<1> USE BootstrapAssumption
<1>op. /\ Bootstrap \in Operations
       /\ \A o \in Provisionings : o \in Operations
  BY DEF Operations
<1>id. Idle \in {Idle} \cup Tasks
  OBVIOUS
<1>1. ASSUME NEW o \in Provisionings, NEW i \in Identities, IssueProvisioning(o, i)
      PROVE  TypeOK'
  BY <1>1, <1>op DEF IssueProvisioning, TypeOK, AuthorityStates
<1>2. ASSUME NEW i \in Identities, OpenBootstrap(i)
      PROVE  TypeOK'
  BY <1>2, <1>op DEF OpenBootstrap, TypeOK, AuthorityStates
<1>3. ASSUME NEW o \in Operations, CancelSaga(o)
      PROVE  TypeOK'
  <2>1. sagas' \in [Operations -> [state : SagaStates, version : Nat]]
    BY <1>3, MovedSaga DEF CancelSaga, SagaStates
  <2>2. authorities' \in
          [Operations -> {NoAuthority} \cup [state : AuthorityStates, target : Identities]]
    <3>1. CASE o # Bootstrap /\ authorities[o].state \in {"ISSUED", "RESERVED"}
      <4>1. authorities[o] # NoAuthority /\ "INVALIDATED" \in AuthorityStates
        BY <3>1 DEF NoAuthority, AuthorityStates
      <4> QED
        BY <1>3, <3>1, <4>1, ChangedAuthority DEF CancelSaga
    <3>2. CASE ~(o # Bootstrap /\ authorities[o].state \in {"ISSUED", "RESERVED"})
      BY <1>3, <3>2 DEF CancelSaga, TypeOK
    <3> QED BY <3>1, <3>2
  <2> QED
    BY <1>3, <2>1, <2>2 DEF CancelSaga, TypeOK
<1>4. ASSUME NEW o \in Operations, MarkReconciliationRequired(o) \/ ResumeReconciliation(o)
      PROVE  TypeOK'
  BY <1>4, MovedSaga DEF MarkReconciliationRequired, ResumeReconciliation, SagaStates,
     TypeOK
<1>r. ASSUME NEW o \in Operations, RevokeRole(o)
      PROVE  TypeOK'
  BY <1>r DEF RevokeRole, TypeOK
<1>w. ASSUME NEW i \in Identities, WithdrawEligibility(i)
      PROVE  TypeOK'
  BY <1>w DEF WithdrawEligibility, EligibleFor, TypeOK
<1>5. ASSUME NEW t \in Calls, NEW o \in Provisionings, AuthorizeProvisioning(t, o)
      PROVE  TypeOK'
  <2>1. [pc |-> "insert", operation |-> o] \in {Idle} \cup Tasks
    BY <1>op DEF Tasks, PreparationTasks
  <2>2. authorities' \in
          [Operations -> {NoAuthority} \cup [state : AuthorityStates, target : Identities]]
    <3>1. authorities[o] # NoAuthority /\ "RESERVED" \in AuthorityStates
      BY <1>5 DEF AuthorizeProvisioning, NoAuthority, AuthorityStates
    <3> QED
      BY <1>5, <1>op, <3>1, ChangedAuthority DEF AuthorizeProvisioning
  <2> QED
    BY <1>5, <2>1, <2>2, GoOn DEF AuthorizeProvisioning, TypeOK
<1>6. ASSUME NEW t \in Calls, AuthorizeBootstrap(t)
      PROVE  TypeOK'
  <2>1. [pc |-> "insert", operation |-> Bootstrap] \in {Idle} \cup Tasks
    BY <1>op DEF Tasks, PreparationTasks
  <2> QED
    BY <1>6, <2>1, GoOn DEF AuthorizeBootstrap, TypeOK
<1>7. ASSUME NEW t \in Calls, task[t].pc \in Preparing,
             InsertIdentity(t) \/ ReadAuthority(t) \/ PreparationFails(t) \/ BeginSaga(t)
               \/ ConsumeProvisioning(t) \/ MarkFailure(t) \/ InvalidateEligibility(t)
      PROVE  TypeOK'
  <2>1. /\ task[t] \in PreparationTasks
        /\ task[t].operation \in Operations
        /\ authorities[task[t].operation] # NoAuthority
        /\ authorities[task[t].operation] \in [state : AuthorityStates, target : Identities]
    BY <1>7, TaskShapes DEF TypeOK, Authorized
  <2>2. \A pc \in Preparing : [task[t] EXCEPT !.pc = pc] \in {Idle} \cup Tasks
    BY <2>1, NextPreparation
  <2>3. CASE InsertIdentity(t)
    BY <2>1, <2>2, <2>3, GoOn DEF InsertIdentity, TypeOK, Preparing
  <2>4. CASE ReadAuthority(t)
    BY <2>1, <2>2, <2>4, GoOn DEF ReadAuthority, TypeOK, Preparing
  <2>5. CASE PreparationFails(t)
    BY <2>1, <2>2, <2>5, GoOn DEF PreparationFails, TypeOK, Preparing
  <2>6. CASE BeginSaga(t)
    <3>1. task' \in [Calls -> {Idle} \cup Tasks]
      BY <2>2, <2>6, <1>id, GoOn DEF BeginSaga, Preparing
    <3>2. NewSaga \in [state : SagaStates, version : Nat]
      BY DEF NewSaga, SagaStates
    <3> QED
      BY <2>1, <2>6, <3>1, <3>2 DEF BeginSaga, TypeOK
  <2>7. CASE ConsumeProvisioning(t)
    BY <2>1, <2>7, GoOn, ChangedAuthority DEF ConsumeProvisioning, TypeOK, AuthorityStates
  <2>8. CASE MarkFailure(t)
    <3>1. authorities' \in
            [Operations -> {NoAuthority} \cup [state : AuthorityStates, target : Identities]]
      <4>1. CASE authorities[task[t].operation].state \in Failable(task[t].operation)
        BY <2>1, <2>8, <4>1, ChangedAuthority DEF MarkFailure, AuthorityStates
      <4>2. CASE authorities[task[t].operation].state \notin Failable(task[t].operation)
        BY <2>8, <4>2 DEF MarkFailure, TypeOK
      <4> QED BY <4>1, <4>2
    <3> QED
      BY <2>8, <3>1, <1>id, GoOn DEF MarkFailure, TypeOK
  <2>9. CASE InvalidateEligibility(t)
    BY <2>9, <1>id, GoOn DEF InvalidateEligibility, TypeOK
  <2> QED
    BY <1>7, <2>3, <2>4, <2>5, <2>6, <2>7, <2>8, <2>9
<1>8. ASSUME NEW t \in Calls, NEW o \in Operations, NEW a \in Attestations,
             NEW version \in 1..sagas[o].version, ReceiveReadiness(t, o, a, version)
      PROVE  TypeOK'
  <2>1. version \in Nat
    BY DEF TypeOK
  <2>2. [pc |-> "complete", operation |-> o, attestation |-> a, version |-> version] \in
          {Idle} \cup Tasks
    BY <2>1 DEF Tasks, DeliveryTasks
  <2> QED
    BY <1>8, <2>2, GoOn DEF ReceiveReadiness, TypeOK, Results
<1>9. ASSUME NEW t \in Calls, task[t].pc \in {"complete", "completed", "refused"},
             CompleteSaga(t) \/ AlreadyCompleted(t) \/ CompletionFails(t) \/ RecordResult(t)
      PROVE  TypeOK'
  <2>1. /\ task[t] \in DeliveryTasks
        /\ task[t].operation \in Operations
        /\ task[t].attestation \in Attestations
    BY <1>9, TaskShapes DEF TypeOK
  <2>2. /\ [task[t] EXCEPT !.pc = "completed"] \in {Idle} \cup Tasks
        /\ [task[t] EXCEPT !.pc = "refused"] \in {Idle} \cup Tasks
    BY <2>1, NextDelivery
  <2>3. CASE CompleteSaga(t)
    <3>1. sagas' \in [Operations -> [state : SagaStates, version : Nat]]
      BY <2>1, <2>3, MovedSaga DEF CompleteSaga, SagaStates
    <3>2. authorities' \in
            [Operations -> {NoAuthority} \cup [state : AuthorityStates, target : Identities]]
      <4>1. CASE task[t].operation = Bootstrap
        <5>1. authorities[Bootstrap] # NoAuthority /\ "CONSUMED" \in AuthorityStates
          BY <2>3, <4>1 DEF CompleteSaga, NoAuthority, AuthorityStates
        <5> QED
          BY <1>op, <2>3, <4>1, <5>1, ChangedAuthority DEF CompleteSaga
      <4>2. CASE task[t].operation # Bootstrap
        BY <2>3, <4>2 DEF CompleteSaga, TypeOK
      <4> QED BY <4>1, <4>2
    <3>3. task' \in [Calls -> {Idle} \cup Tasks]
      BY <2>2, <2>3, GoOn DEF CompleteSaga
    <3> QED
      BY <2>1, <2>3, <3>1, <3>2, <3>3 DEF CompleteSaga, TypeOK
  <2>4. CASE AlreadyCompleted(t)
    BY <2>2, <2>4, GoOn DEF AlreadyCompleted, TypeOK
  <2>5. CASE CompletionFails(t)
    BY <2>2, <2>5, GoOn DEF CompletionFails, TypeOK
  <2>6. CASE RecordResult(t)
    BY <2>1, <2>6, <1>id, GoOn DEF RecordResult, Recorded, Results, TypeOK
  <2> QED
    BY <1>9, <2>3, <2>4, <2>5, <2>6
<1>10. ASSUME NEW t \in Calls, NEW o \in Operations, ExpireSaga(t, o)
       PROVE  TypeOK'
  <2>1. [pc |-> "invalidate", operation |-> o] \in {Idle} \cup Tasks
    BY DEF Tasks, PreparationTasks
  <2> QED
    BY <1>10, <2>1, GoOn, MovedSaga DEF ExpireSaga, SagaStates, TypeOK
<1>11. ASSUME NEW t \in Calls, Crash(t)
       PROVE  TypeOK'
  BY <1>11, <1>id, GoOn DEF Crash, TypeOK
<1>12. CASE UNCHANGED vars
  BY <1>12 DEF vars, TypeOK
<1> QED
  BY ZenonT(60), <1>1, <1>2, <1>3, <1>4, <1>r, <1>w, <1>5, <1>6, <1>7, <1>8, <1>9, <1>10,
     <1>11, <1>12
  DEF Next, Operate, Prepare, Receive, At, Preparing, InsertIdentity, ReadAuthority,
      PreparationFails, BeginSaga, ConsumeProvisioning, MarkFailure, InvalidateEligibility,
      CompleteSaga, AlreadyCompleted, CompletionFails, RecordResult

-------------------------------------------------------------------------------
(* Who has an authority.                                                      *)

\* An authority is never forgotten and never changes its identity.
LEMMA AuthoritiesStay ==
  ASSUME TypeOK, Authorized, [Next]_vars
  PROVE  \A o \in Operations :
           authorities[o] # NoAuthority =>
             /\ authorities'[o] # NoAuthority
             /\ authorities'[o].target = authorities[o].target
<1> DEFINE Stay == \A o \in Operations :
             authorities[o] # NoAuthority =>
               /\ authorities'[o] # NoAuthority
               /\ authorities'[o].target = authorities[o].target
<1>op. /\ Bootstrap \in Operations
       /\ \A o \in Provisionings : o \in Operations
  BY DEF Operations
<1>0. /\ \A s \in AuthorityStates \cup {"NONE"} : s \in AuthorityStates => s # "NONE"
      /\ {"RESERVED", "CONSUMED", "INVALIDATED", "RECONCILIATION_REQUIRED"} \subseteq AuthorityStates
  BY DEF AuthorityStates
<1>1. ASSUME NEW o \in Operations, authorities[o] # NoAuthority, NEW s \in AuthorityStates,
             authorities' = [authorities EXCEPT ![o].state = s]
      PROVE  Stay
  <2>1. /\ authorities'[o] # NoAuthority
        /\ \A p \in Operations : p # o => authorities'[p] = authorities[p]
        /\ \A p \in Operations : authorities'[p].target = authorities[p].target
    BY <1>1, ChangedAuthority
  <2> QED BY <2>1
<1>2. ASSUME NEW o \in Operations, authorities[o] = NoAuthority, NEW x,
             authorities' = [authorities EXCEPT ![o] = x]
      PROVE  Stay
  BY <1>2 DEF TypeOK
<1>3. ASSUME authorities' = authorities
      PROVE  Stay
  BY <1>3
<1>4. ASSUME NEW o \in Provisionings, NEW i \in Identities, IssueProvisioning(o, i)
      PROVE  Stay
  BY <1>2, <1>4, <1>op DEF IssueProvisioning
<1>5. ASSUME NEW i \in Identities, OpenBootstrap(i)
      PROVE  Stay
  BY <1>2, <1>5, <1>op DEF OpenBootstrap
<1>6. ASSUME NEW o \in Operations, CancelSaga(o)
      PROVE  Stay
  <2>1. CASE o # Bootstrap /\ authorities[o].state \in {"ISSUED", "RESERVED"}
    <3>1. authorities[o] # NoAuthority
      BY <2>1 DEF NoAuthority
    <3> QED BY <1>0, <1>1, <1>6, <2>1, <3>1 DEF CancelSaga
  <2>2. CASE ~(o # Bootstrap /\ authorities[o].state \in {"ISSUED", "RESERVED"})
    BY <1>3, <1>6, <2>2 DEF CancelSaga
  <2> QED BY <2>1, <2>2
<1>7. ASSUME NEW t \in Calls, NEW o \in Provisionings, AuthorizeProvisioning(t, o)
      PROVE  Stay
  <2>1. authorities[o] # NoAuthority
    BY <1>7 DEF AuthorizeProvisioning, NoAuthority
  <2> QED BY <1>0, <1>1, <1>7, <1>op, <2>1 DEF AuthorizeProvisioning
<1>8. ASSUME NEW t \in Calls, ConsumeProvisioning(t) \/ MarkFailure(t)
      PROVE  Stay
  <2>1. task[t].operation \in Operations /\ authorities[task[t].operation] # NoAuthority
    <3>1. task[t].pc \in Preparing
      BY <1>8 DEF ConsumeProvisioning, MarkFailure, At, Preparing
    <3> QED BY <3>1, TaskShapes DEF TypeOK, Authorized
  <2>2. \/ authorities' = authorities
        \/ authorities' = [authorities EXCEPT ![task[t].operation].state = "CONSUMED"]
        \/ authorities' =
             [authorities EXCEPT ![task[t].operation].state = "RECONCILIATION_REQUIRED"]
    BY <1>8 DEF ConsumeProvisioning, MarkFailure
  <2> QED BY <1>0, <1>1, <1>3, <2>1, <2>2
<1>9. ASSUME NEW t \in Calls, CompleteSaga(t)
      PROVE  Stay
  <2>1. CASE task[t].operation = Bootstrap
    <3>1. authorities[Bootstrap] # NoAuthority
      BY <1>9, <2>1 DEF CompleteSaga, NoAuthority
    <3> QED BY <1>0, <1>1, <1>9, <1>op, <2>1, <3>1 DEF CompleteSaga
  <2>2. CASE task[t].operation # Bootstrap
    BY <1>3, <1>9, <2>2 DEF CompleteSaga
  <2> QED BY <2>1, <2>2
<1> QED
  <2>1. CASE authorities' = authorities
    BY <1>3, <2>1
  <2>2. CASE authorities' # authorities
    BY <1>4, <1>5, <1>6, <1>7, <1>8, <1>9, <2>2
    DEF Next, Operate, RevokeRole, WithdrawEligibility, Prepare, Receive, vars,
       MarkReconciliationRequired, ResumeReconciliation,
        AuthorizeBootstrap, InsertIdentity, ReadAuthority, BeginSaga, PreparationFails,
        ReceiveReadiness, AlreadyCompleted, CompletionFails, RecordResult, ExpireSaga,
        InvalidateEligibility, Crash
  <2> QED BY <2>1, <2>2

\* A saga that exists goes on existing, and one that ended does not change; a
\* saga begins only with BeginSaga and completes only with CompleteSaga.
LEMMA SagasStay ==
  ASSUME TypeOK, [Next]_vars
  PROVE  \A o \in Operations :
           /\ sagas[o].state # "NONE" => sagas'[o].state # "NONE"
           /\ sagas[o].state \in Ended => sagas'[o] = sagas[o]
           /\ (sagas[o].state = "NONE" /\ sagas'[o].state # "NONE") =>
                \E t \in Calls : BeginSaga(t) /\ task[t].operation = o
           /\ (sagas[o].state # "COMPLETED" /\ sagas'[o].state = "COMPLETED") =>
                \E t \in Calls : CompleteSaga(t) /\ task[t].operation = o
<1> DEFINE Stay == \A o \in Operations :
             /\ sagas[o].state # "NONE" => sagas'[o].state # "NONE"
             /\ sagas[o].state \in Ended => sagas'[o] = sagas[o]
             /\ (sagas[o].state = "NONE" /\ sagas'[o].state # "NONE") =>
                  \E t \in Calls : BeginSaga(t) /\ task[t].operation = o
             /\ (sagas[o].state # "COMPLETED" /\ sagas'[o].state = "COMPLETED") =>
                  \E t \in Calls : CompleteSaga(t) /\ task[t].operation = o
<1>1. ASSUME NEW o \in Operations, NEW s \in SagaStates \ {"NONE", "COMPLETED"}, Move(o, s),
             sagas[o].state \notin Ended \cup {"NONE"}
      PROVE  Stay
  <2>1. /\ sagas'[o].state = s
        /\ \A p \in Operations : p # o => sagas'[p] = sagas[p]
    BY <1>1, MovedSaga
  <2> QED BY <1>1, <2>1
<1>2. ASSUME NEW t \in Calls, CompleteSaga(t)
      PROVE  Stay
  <2>1. task[t].operation \in Operations
    BY <1>2, TaskShapes DEF CompleteSaga, At, TypeOK
  <2>2. /\ sagas'[task[t].operation].state = "COMPLETED"
        /\ \A p \in Operations : p # task[t].operation => sagas'[p] = sagas[p]
    BY <1>2, <2>1, MovedSaga DEF CompleteSaga, SagaStates
  <2>3. sagas[task[t].operation].state = "AWAITING_IDENTITY_ACTIVATION"
    BY <1>2 DEF CompleteSaga, Completable
  <2> QED BY <1>2, <2>1, <2>2, <2>3 DEF Ended
<1>3. ASSUME NEW t \in Calls, BeginSaga(t)
      PROVE  Stay
  <2>1. task[t].operation \in Operations
    BY <1>3, TaskShapes DEF BeginSaga, At, TypeOK, Preparing
  <2>2. /\ sagas'[task[t].operation] = NewSaga
        /\ \A p \in Operations : p # task[t].operation => sagas'[p] = sagas[p]
    BY <1>3, <2>1 DEF BeginSaga, TypeOK
  <2>3. sagas[task[t].operation].state = "NONE"
    BY <1>3 DEF BeginSaga
  <2> QED BY <1>3, <2>1, <2>2, <2>3 DEF Ended, NewSaga
<1>4. ASSUME NEW o \in Operations,
             CancelSaga(o) \/ MarkReconciliationRequired(o) \/ ResumeReconciliation(o)
      PROVE  Stay
  <2>1. sagas[o].state \notin Ended \cup {"NONE"}
    BY <1>4 DEF CancelSaga, MarkReconciliationRequired, ResumeReconciliation, Open, Ended
  <2>2. \E s \in SagaStates \ {"NONE", "COMPLETED"} : Move(o, s)
    BY <1>4 DEF CancelSaga, MarkReconciliationRequired, ResumeReconciliation, SagaStates
  <2> QED BY <1>1, <2>1, <2>2
<1>5. ASSUME NEW t \in Calls, NEW o \in Operations, ExpireSaga(t, o)
      PROVE  Stay
  <2>1. sagas[o].state \notin Ended \cup {"NONE"}
    BY <1>5 DEF ExpireSaga, Open
  <2>2. \E s \in SagaStates \ {"NONE", "COMPLETED"} : Move(o, s)
    BY <1>5 DEF ExpireSaga, SagaStates
  <2> QED BY <1>1, <2>1, <2>2
<1> QED
  <2>1. CASE sagas' = sagas
    BY <2>1
  <2>2. CASE sagas' # sagas
    BY <1>2, <1>3, <1>4, <1>5, <2>2
    DEF Next, Operate, RevokeRole, WithdrawEligibility, Prepare, Receive, vars,
       IssueProvisioning, OpenBootstrap,
        AuthorizeProvisioning, AuthorizeBootstrap, InsertIdentity, ReadAuthority,
        ConsumeProvisioning, MarkFailure, PreparationFails, ReceiveReadiness,
        AlreadyCompleted,
        CompletionFails, RecordResult, InvalidateEligibility, Crash
  <2> QED BY <2>1, <2>2

Holds(t) == task[t].pc \in {"prepare", "begin"}

Delivering(t) == task[t].pc \in {"complete", "completed", "refused"}

\* What a call may be doing after a step, and which step brought it there.
CameFrom(t) ==
  /\ task'[t].pc \in Preparing =>
       \/ task[t].pc \in Preparing /\ task'[t].operation = task[t].operation
       \/ /\ task'[t].operation \in Operations
          /\ authorities[task'[t].operation] # NoAuthority
  /\ Holds(t)' =>
       /\ task'[t].operation = task[t].operation
       /\ Holds(t) \/ InsertIdentity(t)
  /\ task'[t].pc = "consume" =>
       /\ task'[t].operation = task[t].operation
       /\ task[t].pc = "consume" \/ task[t].operation \in Provisionings
  /\ task'[t].pc = "invalidate" =>
       \/ task[t].pc = "invalidate" /\ task'[t].operation = task[t].operation
       \/ sagas'[task'[t].operation].state = "EXPIRED"
  /\ Delivering(t)' =>
       \/ /\ Delivering(t)
          /\ task'[t].operation = task[t].operation
          /\ task'[t].attestation = task[t].attestation
       \/ inbox'[task'[t].operation][task'[t].attestation] = "RECEIVED"
  /\ task'[t].pc = "completed" =>
       /\ task'[t].operation = task[t].operation
       /\ \/ task[t].pc = "completed"
          \/ sagas'[task[t].operation].state = "COMPLETED"

LEMMA TaskSteps ==
  ASSUME TypeOK, Authorized, [Next]_vars, NEW t \in Calls
  PROVE  CameFrom(t) /\ (BeginSaga(t) => ~Holds(t)')
<1> USE BootstrapAssumption
<1> DEFINE Ok == CameFrom(t) /\ (BeginSaga(t) => ~Holds(t)')
<1>op. /\ Bootstrap \in Operations
       /\ \A o \in Provisionings : o \in Operations
  BY DEF Operations
<1>i. Idle.pc = "idle" /\ Idle \in {Idle} \cup Tasks
  BY DEF Idle
<1>0. ASSUME task'[t] = task[t], ~BeginSaga(t)
      PROVE  Ok
  BY <1>0 DEF CameFrom, Holds, Delivering
<1>b. BeginSaga(t) => task'[t].pc \in {"idle", "consume"}
  <2>1. SUFFICES ASSUME BeginSaga(t) PROVE task'[t].pc \in {"idle", "consume"}
    OBVIOUS
  <2>2. task[t].pc \in Preparing /\ task[t] \in PreparationTasks
    BY <2>1, TaskShapes DEF BeginSaga, At, Preparing, TypeOK
  <2>3. [task[t] EXCEPT !.pc = "consume"].pc = "consume"
    BY <2>2, NextPreparation DEF Preparing
  <2> QED
    BY <2>1, <2>3, <1>i DEF BeginSaga, Go, TypeOK
<1>1. ASSUME task'[t] = Idle
      PROVE  Ok
  BY <1>1, <1>i DEF CameFrom, Holds, Delivering, Preparing
<1>2. ASSUME NEW u \in Calls, NEW x \in {Idle} \cup Tasks, Go(u, x), u # t
      PROVE  task'[t] = task[t]
  BY <1>2, GoOn
<1>3. ASSUME NEW x \in {Idle} \cup Tasks, Go(t, x)
      PROVE  task'[t] = x
  BY <1>3, GoOn
<1>4. ASSUME AuthorizeBootstrap(t) \/ (\E o \in Provisionings : AuthorizeProvisioning(t, o))
      PROVE  Ok
  <2>1. PICK o \in Operations :
          /\ authorities[o] # NoAuthority
          /\ Go(t, [pc |-> "insert", operation |-> o])
    <3>1. CASE AuthorizeBootstrap(t)
      BY <3>1, <1>op DEF AuthorizeBootstrap, NoAuthority
    <3>2. CASE \E o \in Provisionings : AuthorizeProvisioning(t, o)
      BY <3>2, <1>op DEF AuthorizeProvisioning, NoAuthority
    <3> QED BY <1>4, <3>1, <3>2
  <2>2. [pc |-> "insert", operation |-> o] \in {Idle} \cup Tasks
    BY DEF Tasks, PreparationTasks
  <2>3. task'[t] = [pc |-> "insert", operation |-> o]
    BY <1>3, <2>1, <2>2
  <2>4. ~BeginSaga(t)
    BY <2>3, <1>b
  <2> QED BY <2>1, <2>3, <2>4 DEF CameFrom, Holds, Delivering
<1>5. ASSUME task[t].pc \in Preparing,
             \/ InsertIdentity(t)
             \/ ReadAuthority(t)
             \/ BeginSaga(t)
             \/ PreparationFails(t)
      PROVE  Ok
  <2>1. /\ task[t] \in PreparationTasks
        /\ task[t].operation \in Operations
    BY <1>5, TaskShapes DEF TypeOK
  <2>2. \A pc \in Preparing :
          /\ [task[t] EXCEPT !.pc = pc] \in {Idle} \cup Tasks
          /\ [task[t] EXCEPT !.pc = pc].pc = pc
          /\ [task[t] EXCEPT !.pc = pc].operation = task[t].operation
    BY <2>1, NextPreparation
  <2>3. CASE InsertIdentity(t)
    <3>1. task'[t].pc = "prepare" /\ task'[t].operation = task[t].operation
      BY <1>3, <2>2, <2>3 DEF InsertIdentity, Preparing
    <3> QED BY <1>5, <2>3, <3>1, <1>b DEF CameFrom, Holds, Delivering
  <2>4. CASE ReadAuthority(t)
    <3>1. task'[t].pc = "begin" /\ task'[t].operation = task[t].operation
      BY <1>3, <2>2, <2>4 DEF ReadAuthority, Preparing
    <3>2. task[t].pc = "prepare"
      BY <2>4 DEF ReadAuthority, At
    <3> QED BY <1>5, <3>1, <3>2, <1>b DEF CameFrom, Holds, Delivering
  <2>5. CASE BeginSaga(t)
    <3>1. CASE task[t].operation = Bootstrap
      BY <1>1, <1>3, <1>i, <2>5, <3>1 DEF BeginSaga
    <3>2. CASE task[t].operation # Bootstrap
      <4>1. task'[t].pc = "consume" /\ task'[t].operation = task[t].operation
        BY <1>3, <2>2, <2>5, <3>2 DEF BeginSaga, Preparing
      <4>2. task[t].operation \in Provisionings
        BY <2>1, <3>2 DEF Operations
      <4> QED BY <1>5, <4>1, <4>2 DEF CameFrom, Holds, Delivering
    <3> QED BY <3>1, <3>2
  <2>6. CASE PreparationFails(t)
    <3>1. task'[t].pc = "markFailure" /\ task'[t].operation = task[t].operation
      BY <1>3, <2>2, <2>6 DEF PreparationFails, Preparing
    <3> QED BY <1>5, <3>1, <1>b DEF CameFrom, Holds, Delivering
  <2> QED BY <1>5, <2>3, <2>4, <2>5, <2>6
<1>6. ASSUME NEW o \in Operations, NEW a \in Attestations, NEW version \in 1..sagas[o].version,
             ReceiveReadiness(t, o, a, version)
      PROVE  Ok
  <2>0. version \in Nat
    BY DEF TypeOK
  <2>1. [pc |-> "complete", operation |-> o, attestation |-> a, version |-> version] \in
          {Idle} \cup Tasks
    BY <2>0 DEF Tasks, DeliveryTasks
  <2>2. task'[t] = [pc |-> "complete", operation |-> o, attestation |-> a, version |-> version]
    BY <1>3, <1>6, <2>1 DEF ReceiveReadiness
  <2>3. inbox'[o][a] = "RECEIVED"
    BY <1>6 DEF ReceiveReadiness, TypeOK
  <2> QED BY <2>2, <2>3, <1>b DEF CameFrom, Holds, Delivering, Preparing
<1>7. ASSUME task[t].pc \in {"complete", "completed", "refused"},
             CompleteSaga(t) \/ AlreadyCompleted(t) \/ CompletionFails(t)
      PROVE  Ok
  <2>1. /\ task[t] \in DeliveryTasks
        /\ task[t].operation \in Operations
    BY <1>7, TaskShapes DEF TypeOK
  <2>2. \A pc \in {"completed", "refused"} :
          /\ [task[t] EXCEPT !.pc = pc] \in {Idle} \cup Tasks
          /\ [task[t] EXCEPT !.pc = pc].pc = pc
          /\ [task[t] EXCEPT !.pc = pc].operation = task[t].operation
          /\ [task[t] EXCEPT !.pc = pc].attestation = task[t].attestation
    BY <2>1, NextDelivery
  <2>3. CASE CompleteSaga(t)
    <3>1. sagas'[task[t].operation].state = "COMPLETED"
      BY <2>1, <2>3, MovedSaga DEF CompleteSaga, SagaStates
    <3>2. /\ task'[t].pc = "completed"
          /\ task'[t].operation = task[t].operation
          /\ task'[t].attestation = task[t].attestation
      BY <1>3, <2>2, <2>3 DEF CompleteSaga
    <3> QED BY <1>7, <3>1, <3>2, <1>b DEF CameFrom, Holds, Delivering, Preparing
  <2>4. CASE AlreadyCompleted(t)
    <3>1. sagas'[task[t].operation].state = "COMPLETED"
      BY <2>4 DEF AlreadyCompleted
    <3>2. /\ task'[t].pc = "completed"
          /\ task'[t].operation = task[t].operation
          /\ task'[t].attestation = task[t].attestation
      BY <1>3, <2>2, <2>4 DEF AlreadyCompleted
    <3> QED BY <1>7, <3>1, <3>2, <1>b DEF CameFrom, Holds, Delivering, Preparing
  <2>5. CASE CompletionFails(t)
    <3>2. /\ task'[t].pc = "refused"
          /\ task'[t].operation = task[t].operation
          /\ task'[t].attestation = task[t].attestation
      BY <1>3, <2>2, <2>5 DEF CompletionFails
    <3> QED BY <1>7, <3>2, <1>b DEF CameFrom, Holds, Delivering, Preparing
  <2> QED BY <1>7, <2>3, <2>4, <2>5
<1>8. ASSUME NEW o \in Operations, ExpireSaga(t, o)
      PROVE  Ok
  <2>1. [pc |-> "invalidate", operation |-> o] \in {Idle} \cup Tasks
    BY DEF Tasks, PreparationTasks
  <2>2. task'[t] = [pc |-> "invalidate", operation |-> o]
    BY <1>3, <1>8, <2>1 DEF ExpireSaga
  <2>3. sagas'[o].state = "EXPIRED"
    BY <1>8, MovedSaga DEF ExpireSaga, SagaStates
  <2>4. authorities[o] # NoAuthority
    BY <1>8 DEF ExpireSaga, Open, Authorized
  <2> QED BY <2>2, <2>3, <2>4, <1>b DEF CameFrom, Holds, Delivering
<1>9. ASSUME \/ ConsumeProvisioning(t)
             \/ MarkFailure(t)
             \/ RecordResult(t)
             \/ InvalidateEligibility(t)
             \/ Crash(t)
      PROVE  Ok
  <2>1. Go(t, Idle)
    BY <1>9 DEF ConsumeProvisioning, MarkFailure, RecordResult, InvalidateEligibility, Crash
  <2> QED BY <1>1, <1>3, <1>i, <2>1
<1>10. \/ task'[t] = task[t]
       \/ \/ AuthorizeBootstrap(t) \/ (\E o \in Provisionings : AuthorizeProvisioning(t, o))
          \/ InsertIdentity(t) \/ ReadAuthority(t) \/ BeginSaga(t) \/ PreparationFails(t)
          \/ \E o \in Operations, a \in Attestations :
               \E version \in 1..sagas[o].version : ReceiveReadiness(t, o, a, version)
          \/ CompleteSaga(t) \/ AlreadyCompleted(t) \/ CompletionFails(t)
          \/ \E o \in Operations : ExpireSaga(t, o)
          \/ ConsumeProvisioning(t) \/ MarkFailure(t) \/ RecordResult(t)
          \/ InvalidateEligibility(t) \/ Crash(t)
  <2>1. ASSUME NEW u \in Calls, u # t, NEW x, Go(u, x)
        PROVE  task'[t] = task[t]
    BY <2>1 DEF Go, TypeOK
  <2>2. ASSUME NEW u \in Calls, u # t,
               \/ Prepare(u)
               \/ Receive(u)
               \/ \E o \in Operations : ExpireSaga(u, o)
               \/ InvalidateEligibility(u)
               \/ Crash(u)
        PROVE  task'[t] = task[t]
    <3>1. \E x : Go(u, x)
      BY <2>2 DEF Prepare, Receive, ExpireSaga, InvalidateEligibility, Crash,
        AuthorizeProvisioning, AuthorizeBootstrap, InsertIdentity, ReadAuthority, BeginSaga,
        ConsumeProvisioning, MarkFailure, PreparationFails, ReceiveReadiness, CompleteSaga,
        AlreadyCompleted, CompletionFails, RecordResult
    <3> QED BY <2>1, <2>2, <3>1
  <2>3. ASSUME Operate
        PROVE  task' = task
    BY <2>3 DEF Operate, RevokeRole, WithdrawEligibility, IssueProvisioning,
       OpenBootstrap, CancelSaga,
      MarkReconciliationRequired, ResumeReconciliation
  <2>4. CASE UNCHANGED vars
    BY <2>4 DEF vars
  <2>5. CASE Next
    BY <2>2, <2>3, <2>5 DEF Next, Prepare, Receive
  <2> QED BY <2>4, <2>5
<1>11. CASE task'[t] = task[t]
  <2>1. ~BeginSaga(t)
    BY <1>11, <1>b DEF BeginSaga, At
  <2> QED BY <1>0, <1>11, <2>1
<1> QED
  BY <1>4, <1>5, <1>6, <1>7, <1>8, <1>9, <1>10, <1>11
  DEF At, Preparing, InsertIdentity, ReadAuthority, PreparationFails, BeginSaga,
      CompleteSaga, AlreadyCompleted, CompletionFails

LEMMA NextAuthorized ==
  ASSUME TypeOK, TypeOK', Authorized, [Next]_vars
  PROVE  Authorized'
<1>1. ASSUME NEW t \in Calls, task'[t].pc \in Preparing
      PROVE  authorities'[task'[t].operation] # NoAuthority
  <2>1. \/ task[t].pc \in Preparing /\ task'[t].operation = task[t].operation
        \/ /\ task'[t].operation \in Operations
           /\ authorities[task'[t].operation] # NoAuthority
    BY <1>1, TaskSteps DEF CameFrom
  <2>2. task'[t].operation \in Operations
    <3>1. task'[t] \in {Idle} \cup Tasks
      BY DEF TypeOK
    <3> QED BY <1>1, <3>1, TaskShapes
  <2>3. authorities[task'[t].operation] # NoAuthority
    BY <2>1 DEF Authorized
  <2> QED BY <2>2, <2>3, AuthoritiesStay
<1>2. ASSUME NEW o \in Operations, sagas'[o].state # "NONE"
      PROVE  authorities'[o] # NoAuthority
  <2>1. CASE sagas[o].state # "NONE"
    BY <2>1, AuthoritiesStay DEF Authorized
  <2>2. CASE sagas[o].state = "NONE"
    <3>1. PICK t \in Calls : BeginSaga(t) /\ task[t].operation = o
      BY <1>2, <2>2, SagasStay
    <3>2. authorities[o] # NoAuthority
      BY <3>1 DEF BeginSaga, At, Preparing, Authorized
    <3> QED BY <3>2, AuthoritiesStay
  <2> QED BY <2>1, <2>2
<1> QED
  BY <1>1, <1>2 DEF Authorized

-------------------------------------------------------------------------------
(* Who works for which identity.                                              *)

Target(o) == authorities[o].target

Founded(o) == sagas[o].state # "NONE"

\* The identity a call holds is inserted, and neither another call that holds nor
\* a saga is about it: only the call that inserted an identity begins a saga of it.
Held ==
  /\ \A t \in Calls : Holds(t) => Target(task[t].operation) \in identities
  /\ \A o \in Operations : Founded(o) => Target(o) \in identities
  /\ \A t, u \in Calls :
       (/\ Holds(t)
        /\ Holds(u)
        /\ Target(task[t].operation) = Target(task[u].operation)) => t = u
  /\ \A t \in Calls, o \in Operations :
       Holds(t) /\ Founded(o) => Target(task[t].operation) # Target(o)
  /\ \A t \in Calls : task[t].pc = "consume" => task[t].operation \in Provisionings
  /\ OneSagaPerIdentity

\* An identity is inserted by one call and stays.
LEMMA IdentitiesStay ==
  ASSUME TypeOK, [Next]_vars
  PROVE  /\ identities \subseteq identities'
         /\ \A t \in Calls : InsertIdentity(t) =>
              /\ Target(task[t].operation) \notin identities
              /\ Target(task[t].operation) \in identities'
<1>1. identities' = identities \/ \E t \in Calls : InsertIdentity(t)
  BY DEF Next, Operate, RevokeRole, WithdrawEligibility, Prepare, Receive, vars,
     IssueProvisioning, OpenBootstrap, CancelSaga,
    MarkReconciliationRequired, ResumeReconciliation, AuthorizeProvisioning,
    AuthorizeBootstrap, ReadAuthority, BeginSaga, ConsumeProvisioning, PreparationFails,
    MarkFailure, ReceiveReadiness, CompleteSaga, AlreadyCompleted, CompletionFails,
    RecordResult, ExpireSaga, InvalidateEligibility, Crash
<1> QED
  BY <1>1 DEF InsertIdentity, Insertable, Target

\* Two calls do not step together.
LEMMA OneCallSteps ==
  ASSUME TypeOK, NEW t \in Calls, NEW u \in Calls,
         InsertIdentity(t) \/ BeginSaga(t),
         InsertIdentity(u) \/ BeginSaga(u)
  PROVE  t = u
<1>1. /\ task' # task
      /\ \E x : task' = [task EXCEPT ![t] = x]
      /\ \E x : task' = [task EXCEPT ![u] = x]
  <2>1. ASSUME NEW v \in Calls, InsertIdentity(v) \/ BeginSaga(v)
        PROVE  task'[v].pc # task[v].pc /\ \E x : task' = [task EXCEPT ![v] = x]
    <3>1. task[v].pc \in Preparing /\ task[v] \in PreparationTasks
      BY <2>1, TaskShapes DEF InsertIdentity, BeginSaga, At, Preparing, TypeOK
    <3>2. /\ [task[v] EXCEPT !.pc = "prepare"].pc = "prepare"
          /\ [task[v] EXCEPT !.pc = "consume"].pc = "consume"
      BY <3>1, NextPreparation DEF Preparing
    <3>3. Idle.pc = "idle"
      BY DEF Idle
    <3>4. \A x : task' = [task EXCEPT ![v] = x] => task'[v] = x
      BY DEF TypeOK
    <3>5. CASE InsertIdentity(v)
      <4>1. task[v].pc = "insert" /\ task' = [task EXCEPT ![v] = [task[v] EXCEPT !.pc = "prepare"]]
        BY <3>5 DEF InsertIdentity, Go, At
      <4>2. task'[v] = [task[v] EXCEPT !.pc = "prepare"]
        BY <3>4, <4>1
      <4> QED BY <3>2, <4>1, <4>2
    <3>6. CASE BeginSaga(v)
      <4>1. PICK x \in {Idle, [task[v] EXCEPT !.pc = "consume"]} : task' = [task EXCEPT ![v] = x]
        BY <3>6 DEF BeginSaga, Go
      <4>2. task[v].pc = "begin" /\ task'[v] = x
        BY <3>4, <3>6, <4>1 DEF BeginSaga, At
      <4> QED BY <3>2, <3>3, <4>1, <4>2
    <3> QED
      BY <2>1, <3>5, <3>6
  <2> QED
    BY <2>1
<1>2. SUFFICES ASSUME t # u PROVE FALSE
  OBVIOUS
<1>3. task'[t] = task[t]
  BY <1>1, <1>2 DEF TypeOK
<1>4. task' = task
  BY <1>1, <1>3 DEF TypeOK
<1> QED
  BY <1>1, <1>4

LEMMA NextHeld ==
  ASSUME TypeOK, TypeOK', Authorized, Held, [Next]_vars
  PROVE  Held'
<1>1. \A t \in Calls : Holds(t)' =>
        /\ task'[t].operation \in Operations
        /\ task'[t].operation = task[t].operation
        /\ Target(task[t].operation)' = Target(task[t].operation)
        /\ Holds(t) \/ InsertIdentity(t)
  <2>1. SUFFICES ASSUME NEW t \in Calls, Holds(t)'
                 PROVE  /\ task'[t].operation \in Operations
                        /\ task'[t].operation = task[t].operation
                        /\ Target(task[t].operation)' = Target(task[t].operation)
                        /\ Holds(t) \/ InsertIdentity(t)
    OBVIOUS
  <2>2. task'[t].operation = task[t].operation /\ (Holds(t) \/ InsertIdentity(t))
    BY <2>1, TaskSteps DEF CameFrom
  <2>3. task[t].pc \in Preparing
    BY <2>2 DEF Holds, InsertIdentity, At, Preparing
  <2>4. task[t].operation \in Operations /\ authorities[task[t].operation] # NoAuthority
    BY <2>3, TaskShapes DEF TypeOK, Authorized
  <2> QED BY <2>2, <2>4, AuthoritiesStay DEF Target
<1>2. \A o \in Operations : Founded(o)' =>
        /\ Target(o)' = Target(o)
        /\ Founded(o) \/ \E t \in Calls : BeginSaga(t) /\ task[t].operation = o
  <2>1. SUFFICES ASSUME NEW o \in Operations, Founded(o)'
                 PROVE  /\ Target(o)' = Target(o)
                        /\ Founded(o) \/ \E t \in Calls : BeginSaga(t) /\ task[t].operation = o
    OBVIOUS
  <2>2. CASE Founded(o)
    BY <2>2, AuthoritiesStay DEF Founded, Target, Authorized
  <2>3. CASE ~Founded(o)
    <3>1. PICK t \in Calls : BeginSaga(t) /\ task[t].operation = o
      BY <2>1, <2>3, SagasStay DEF Founded
    <3>2. authorities[o] # NoAuthority
      BY <3>1 DEF BeginSaga, At, Preparing, Authorized
    <3> QED BY <3>1, <3>2, AuthoritiesStay DEF Target
  <2> QED BY <2>2, <2>3
<1>3. \A t \in Calls : BeginSaga(t) => Holds(t) /\ ~Holds(t)'
  BY TaskSteps DEF BeginSaga, At, Holds
<1>4. ASSUME NEW t \in Calls, Holds(t)'
      PROVE  Target(task[t].operation) \in identities'
  BY <1>1, <1>4, IdentitiesStay DEF Held
<1>5. ASSUME NEW o \in Operations, Founded(o)'
      PROVE  Target(o) \in identities /\ Target(o) \in identities'
  BY <1>2, <1>3, <1>5, IdentitiesStay DEF Held
<1>6. ASSUME NEW t \in Calls, NEW u \in Calls, Holds(t)', Holds(u)',
             Target(task[t].operation) = Target(task[u].operation)
      PROVE  t = u
  <2>1. CASE Holds(t) /\ Holds(u)
    BY <1>6, <2>1 DEF Held
  <2>2. CASE InsertIdentity(t) /\ InsertIdentity(u)
    BY <2>2, OneCallSteps
  <2>3. CASE InsertIdentity(t) /\ Holds(u)
    BY <1>6, <2>3, IdentitiesStay DEF Held
  <2>4. CASE InsertIdentity(u) /\ Holds(t)
    BY <1>6, <2>4, IdentitiesStay DEF Held
  <2> QED BY <1>1, <1>6, <2>1, <2>2, <2>3, <2>4
<1>7. ASSUME NEW t \in Calls, NEW o \in Operations, Holds(t)', Founded(o)'
      PROVE  Target(task[t].operation) # Target(o)
  <2>1. CASE InsertIdentity(t)
    BY <1>5, <1>7, <2>1, IdentitiesStay
  <2>2. CASE Holds(t) /\ Founded(o)
    BY <2>2 DEF Held
  <2>3. CASE Holds(t) /\ ~Founded(o)
    <3>1. PICK u \in Calls : BeginSaga(u) /\ task[u].operation = o
      BY <1>2, <1>7, <2>3
    <3> QED BY <1>3, <1>7, <2>3, <3>1 DEF Held
  <2> QED BY <1>1, <1>7, <2>1, <2>2, <2>3
<1>8. ASSUME NEW o1 \in Operations, NEW o2 \in Operations, Founded(o1)', Founded(o2)',
             Target(o1) = Target(o2)
      PROVE  o1 = o2
  <2>1. CASE Founded(o1) /\ Founded(o2)
    BY <1>8, <2>1 DEF Held, OneSagaPerIdentity, Founded, Target
  <2>2. CASE ~Founded(o1) /\ Founded(o2)
    BY <1>2, <1>3, <1>8, <2>2 DEF Held
  <2>3. CASE Founded(o1) /\ ~Founded(o2)
    BY <1>2, <1>3, <1>8, <2>3 DEF Held
  <2>4. CASE ~Founded(o1) /\ ~Founded(o2)
    BY <1>2, <1>8, <2>4, OneCallSteps
  <2> QED BY <2>1, <2>2, <2>3, <2>4
<1>9. ASSUME NEW t \in Calls, task'[t].pc = "consume"
      PROVE  task'[t].operation \in Provisionings
  BY <1>9, TaskSteps DEF CameFrom, Held
<1>10. OneSagaPerIdentity'
  BY <1>2, <1>8 DEF OneSagaPerIdentity, Founded, Target
<1> QED
  BY <1>1, <1>2, <1>4, <1>5, <1>6, <1>7, <1>9, <1>10 DEF Held

-------------------------------------------------------------------------------
(* What a completed saga leaves behind.                                       *)

\* What is being invalidated belongs to a saga that expired.
Granted ==
  /\ PrivilegeFollowsSaga
  /\ \A t \in Calls :
       task[t].pc = "invalidate" => sagas[task[t].operation].state = "EXPIRED"

\* The state of one authority changes; that of the others does not.
LEMMA OneAuthority ==
  ASSUME TypeOK, NEW o \in Operations, NEW p \in Operations, NEW s,
         authorities' = [authorities EXCEPT ![o].state = s],
         authorities'[p].state # authorities[p].state
  PROVE  p = o
  BY DEF TypeOK

\* Who moves an authority into CONSUMED or INVALIDATED, and out of CONSUMED.
LEMMA AuthoritySteps ==
  ASSUME TypeOK, Authorized, Held, [Next]_vars, NEW p \in Operations
  PROVE  /\ (p = Bootstrap /\ authorities[p].state = "CONSUMED") =>
              authorities'[p].state = "CONSUMED"
         /\ (p = Bootstrap /\ authorities[p].state # "CONSUMED" /\ authorities'[p].state = "CONSUMED")
              => \E t \in Calls : CompleteSaga(t) /\ task[t].operation = Bootstrap
         /\ (authorities[p].state # "INVALIDATED" /\ authorities'[p].state = "INVALIDATED")
              => CancelSaga(p)
<1> USE BootstrapAssumption
<1> DEFINE Ok ==
      /\ (p = Bootstrap /\ authorities[p].state = "CONSUMED") =>
           authorities'[p].state = "CONSUMED"
      /\ (p = Bootstrap /\ authorities[p].state # "CONSUMED" /\ authorities'[p].state = "CONSUMED")
           => \E t \in Calls : CompleteSaga(t) /\ task[t].operation = Bootstrap
      /\ (authorities[p].state # "INVALIDATED" /\ authorities'[p].state = "INVALIDATED")
           => CancelSaga(p)
<1>op. /\ Bootstrap \in Operations
       /\ \A o \in Provisionings : o \in Operations
  BY DEF Operations
<1>1. ASSUME authorities' = authorities
      PROVE  Ok
  BY <1>1
<1>2. ASSUME NEW o \in Operations, authorities[o] # NoAuthority, NEW s \in AuthorityStates,
             authorities' = [authorities EXCEPT ![o].state = s]
      PROVE  /\ p # o => authorities'[p].state = authorities[p].state
             /\ p = o => authorities'[p].state = s
  BY <1>2, ChangedAuthority
<1>3. ASSUME NEW o \in Provisionings, NEW i \in Identities, IssueProvisioning(o, i)
      PROVE  Ok
  <2>1. CASE p = o
    BY <1>3, <2>1, <1>op DEF IssueProvisioning, TypeOK
  <2>2. CASE p # o
    BY <1>3, <2>2, <1>op DEF IssueProvisioning, TypeOK
  <2> QED BY <2>1, <2>2
<1>4. ASSUME NEW i \in Identities, OpenBootstrap(i)
      PROVE  Ok
  <2>1. CASE p = Bootstrap
    BY <1>4, <2>1, <1>op DEF OpenBootstrap, TypeOK, NoAuthority
  <2>2. CASE p # Bootstrap
    BY <1>4, <2>2, <1>op DEF OpenBootstrap, TypeOK
  <2> QED BY <2>1, <2>2
<1>5. ASSUME NEW o \in Operations, CancelSaga(o)
      PROVE  Ok
  <2>1. CASE o # Bootstrap /\ authorities[o].state \in {"ISSUED", "RESERVED"}
    <3>1. authorities[o] # NoAuthority /\ "INVALIDATED" \in AuthorityStates
      BY <2>1 DEF NoAuthority, AuthorityStates
    <3>2. authorities' = [authorities EXCEPT ![o].state = "INVALIDATED"]
      BY <1>5, <2>1 DEF CancelSaga
    <3> QED BY <1>2, <1>5, <2>1, <3>1, <3>2
  <2>2. CASE ~(o # Bootstrap /\ authorities[o].state \in {"ISSUED", "RESERVED"})
    BY <1>1, <1>5, <2>2 DEF CancelSaga
  <2> QED BY <2>1, <2>2
<1>6. ASSUME NEW t \in Calls, NEW o \in Provisionings, AuthorizeProvisioning(t, o)
      PROVE  Ok
  <2>1. /\ authorities[o] # NoAuthority
        /\ "RESERVED" \in AuthorityStates
        /\ authorities' = [authorities EXCEPT ![o].state = "RESERVED"]
        /\ o # Bootstrap
    BY <1>6 DEF AuthorizeProvisioning, NoAuthority, AuthorityStates
  <2> QED BY <1>2, <1>op, <2>1
<1>7. ASSUME NEW t \in Calls, ConsumeProvisioning(t)
      PROVE  Ok
  <2>1. task[t].pc = "consume"
    BY <1>7 DEF ConsumeProvisioning, At
  <2>2. task[t].operation \in Provisionings
    BY <2>1 DEF Held
  <2>3. /\ authorities[task[t].operation] # NoAuthority
        /\ "CONSUMED" \in AuthorityStates
        /\ authorities' = [authorities EXCEPT ![task[t].operation].state = "CONSUMED"]
    BY <1>7 DEF ConsumeProvisioning, NoAuthority, AuthorityStates
  <2>4. task[t].operation # Bootstrap
    BY <2>2
  <2> QED BY <1>2, <1>op, <2>2, <2>3, <2>4
<1>8. ASSUME NEW t \in Calls, MarkFailure(t)
      PROVE  Ok
  <2>1. task[t].operation \in Operations
    BY <1>8, TaskShapes DEF MarkFailure, At, Preparing, TypeOK
  <2>2. CASE authorities[task[t].operation].state \in Failable(task[t].operation)
    <3>1. /\ authorities[task[t].operation] # NoAuthority
          /\ "RECONCILIATION_REQUIRED" \in AuthorityStates
          /\ task[t].operation = Bootstrap => authorities[Bootstrap].state # "CONSUMED"
      BY <2>2 DEF Failable, NoAuthority, AuthorityStates
    <3>2. authorities' =
            [authorities EXCEPT ![task[t].operation].state = "RECONCILIATION_REQUIRED"]
      BY <1>8, <2>2 DEF MarkFailure
    <3> QED BY <1>2, <2>1, <3>1, <3>2
  <2>3. CASE authorities[task[t].operation].state \notin Failable(task[t].operation)
    BY <1>1, <1>8, <2>3 DEF MarkFailure
  <2> QED BY <2>2, <2>3
<1>9. ASSUME NEW t \in Calls, CompleteSaga(t)
      PROVE  Ok
  <2>1. CASE task[t].operation = Bootstrap
    <3>1. /\ authorities[Bootstrap] # NoAuthority
          /\ "CONSUMED" \in AuthorityStates
          /\ authorities' = [authorities EXCEPT ![Bootstrap].state = "CONSUMED"]
      BY <1>9, <2>1 DEF CompleteSaga, NoAuthority, AuthorityStates
    <3> QED BY <1>2, <1>9, <1>op, <2>1, <3>1
  <2>2. CASE task[t].operation # Bootstrap
    BY <1>1, <1>9, <2>2 DEF CompleteSaga
  <2> QED BY <2>1, <2>2
<1> QED
  <2>1. CASE authorities' = authorities
    BY <1>1, <2>1
  <2>2. CASE authorities' # authorities
    BY <1>3, <1>4, <1>5, <1>6, <1>7, <1>8, <1>9, <2>2
    DEF Next, Operate, RevokeRole, WithdrawEligibility, Prepare, Receive, vars,
       MarkReconciliationRequired, ResumeReconciliation,
        AuthorizeBootstrap, InsertIdentity, ReadAuthority, BeginSaga, PreparationFails,
        ReceiveReadiness, AlreadyCompleted, CompletionFails, RecordResult, ExpireSaga,
        InvalidateEligibility, Crash
  <2> QED BY <2>1, <2>2

\* Nothing but a completion makes anybody privileged, and nothing but a
\* withdrawal ends it: what is cancelled or expires was never eligible.
LEMMA PrivilegeStays ==
  ASSUME TypeOK, Held, Granted, [Next]_vars, \A t \in Calls : ~CompleteSaga(t)
  PROVE  /\ grants' = grants
         /\ revoked' \subseteq revoked \cup {g.operation : g \in grants}
         /\ \E gone \in SUBSET eligible :
              /\ eligible' = eligible \ gone
              /\ withdrawn' = withdrawn \cup gone
<1> DEFINE Same == UNCHANGED <<grants, revoked, eligible, withdrawn>>
<1>1. ASSUME NEW o \in Operations, CancelSaga(o)
      PROVE  Same
  <2>1. ~Completed(o)
    BY <1>1 DEF CancelSaga, Open, Ended, Completed
  <2>2. o \notin eligible
    BY <2>1 DEF Granted, PrivilegeFollowsSaga
  <2> QED BY <1>1, <2>2 DEF CancelSaga
<1>2. ASSUME NEW t \in Calls, InvalidateEligibility(t)
      PROVE  Same
  <2>1. /\ task[t].pc = "invalidate"
        /\ task[t].operation \in Operations
    BY <1>2, TaskShapes DEF InvalidateEligibility, At, Preparing, TypeOK
  <2>2. sagas[task[t].operation].state = "EXPIRED"
    BY <2>1 DEF Granted
  <2>3. \A o \in eligible : o \in Operations /\ sagas[o].state = "COMPLETED"
    BY DEF Granted, PrivilegeFollowsSaga, Completed
  <2>4. \A o \in eligible : authorities[o].target # authorities[task[t].operation].target
    BY <2>1, <2>2, <2>3 DEF Held, OneSagaPerIdentity
  <2> QED BY <1>2, <2>4 DEF InvalidateEligibility, EligibleFor
<1>3. CASE Same
  <2>1. {} \in SUBSET eligible /\ eligible = eligible \ {} /\ withdrawn = withdrawn \cup {}
    OBVIOUS
  <2> QED BY <1>3, <2>1
<1>4. ASSUME NEW o \in Operations, RevokeRole(o)
      PROVE  /\ UNCHANGED <<grants, eligible, withdrawn>>
             /\ revoked' \subseteq revoked \cup {g.operation : g \in grants}
  BY <1>4 DEF RevokeRole
<1>5. ASSUME NEW i \in Identities, WithdrawEligibility(i)
      PROVE  /\ UNCHANGED <<grants, revoked>>
             /\ \E gone \in SUBSET eligible :
                  eligible' = eligible \ gone /\ withdrawn' = withdrawn \cup gone
  <2>1. EligibleFor(i) \in SUBSET eligible
    BY DEF EligibleFor
  <2> QED BY <1>5, <2>1 DEF WithdrawEligibility
<1>6. \/ Same
      \/ \E o \in Operations : RevokeRole(o)
      \/ \E i \in Identities : WithdrawEligibility(i)
  BY <1>1, <1>2, ZenonT(60)
  DEF Next, Operate, Prepare, Receive, vars, IssueProvisioning, OpenBootstrap,
      MarkReconciliationRequired, ResumeReconciliation, AuthorizeProvisioning,
      AuthorizeBootstrap, InsertIdentity, ReadAuthority, BeginSaga, ConsumeProvisioning,
      PreparationFails, MarkFailure, ReceiveReadiness, AlreadyCompleted, CompletionFails,
      RecordResult, ExpireSaga, Crash
<1>7. ASSUME NEW o \in Operations, RevokeRole(o)
      PROVE  \E gone \in SUBSET eligible :
               eligible' = eligible \ gone /\ withdrawn' = withdrawn \cup gone
  <2>1. {} \in SUBSET eligible /\ eligible = eligible \ {} /\ withdrawn = withdrawn \cup {}
    OBVIOUS
  <2> QED BY <1>4, <1>7, <2>1
<1> HIDE DEF Same
<1>8. ASSUME \E o \in Operations : RevokeRole(o)
      PROVE  /\ grants' = grants
             /\ revoked' \subseteq revoked \cup {g.operation : g \in grants}
             /\ \E gone \in SUBSET eligible :
                  eligible' = eligible \ gone /\ withdrawn' = withdrawn \cup gone
  BY <1>4, <1>7, <1>8
<1>9. ASSUME \E i \in Identities : WithdrawEligibility(i)
      PROVE  /\ grants' = grants
             /\ revoked' \subseteq revoked \cup {g.operation : g \in grants}
             /\ \E gone \in SUBSET eligible :
                  eligible' = eligible \ gone /\ withdrawn' = withdrawn \cup gone
  BY <1>5, <1>9
<1> QED
  BY <1>3, <1>6, <1>8, <1>9 DEF Same

LEMMA NextGranted ==
  ASSUME TypeOK, TypeOK', Authorized, Held, Granted, [Next]_vars
  PROVE  Granted'
<1>1. ASSUME NEW t \in Calls, task'[t].pc = "invalidate"
      PROVE  sagas'[task'[t].operation].state = "EXPIRED"
  <2>1. CASE sagas'[task'[t].operation].state # "EXPIRED"
    <3>1. task[t].pc = "invalidate" /\ task'[t].operation = task[t].operation
      BY <1>1, <2>1, TaskSteps DEF CameFrom
    <3>2. task[t].operation \in Operations /\ sagas[task[t].operation].state = "EXPIRED"
      BY <3>1, TaskShapes DEF Granted, Preparing, TypeOK
    <3> QED BY <3>1, <3>2, SagasStay DEF Ended
  <2> QED BY <2>1
<1>2. \A o \in Provisionings :
        authorities'[o].state = "INVALIDATED" => sagas'[o].state = "CANCELLED"
  <2>1. SUFFICES ASSUME NEW o \in Provisionings, authorities'[o].state = "INVALIDATED"
                 PROVE  sagas'[o].state = "CANCELLED"
    OBVIOUS
  <2>2. o \in Operations
    BY DEF Operations
  <2>3. CASE authorities[o].state = "INVALIDATED"
    BY <2>2, <2>3, SagasStay DEF Granted, PrivilegeFollowsSaga, Ended
  <2>4. CASE authorities[o].state # "INVALIDATED"
    <3>1. CancelSaga(o)
      BY <2>1, <2>2, <2>4, AuthoritySteps
    <3> QED BY <2>2, <3>1, MovedSaga DEF CancelSaga, SagaStates
  <2> QED BY <2>3, <2>4
<1>bo. Bootstrap \in Operations
  BY DEF Operations
<1>3. CASE \A t \in Calls : ~CompleteSaga(t)
  <2>1. \A o \in Operations : Completed(o)' <=> Completed(o)
    BY <1>3, SagasStay DEF Completed, Ended
  <2>2. grants' = grants
    BY <1>3, PrivilegeStays
  <2>3. (authorities'[Bootstrap].state = "CONSUMED") <=> (authorities[Bootstrap].state = "CONSUMED")
    BY <1>3, <1>bo, AuthoritySteps
  <2>4. {o \in Operations : Completed(o)'} = {o \in Operations : Completed(o)}
    BY <2>1
  <2> DEFINE done == {o \in Operations : Completed(o)}
  <2>5. {g.operation : g \in grants} = done /\ eligible = done \ withdrawn
        /\ withdrawn \cup revoked \subseteq done
    BY DEF Granted, PrivilegeFollowsSaga
  <2> HIDE DEF done
  <2>6. revoked' \subseteq done
    BY <1>3, <2>5, PrivilegeStays
  <2>7. eligible' = done \ withdrawn' /\ withdrawn' \subseteq done
    <3>1. PICK gone \in SUBSET eligible :
            eligible' = eligible \ gone /\ withdrawn' = withdrawn \cup gone
      BY <1>3, PrivilegeStays
    <3> QED BY <2>5, <3>1
  <2>8. done = {o \in Operations : Completed(o)'}
    BY <2>4 DEF done
  <2>9. \A g1, g2 \in grants' : g1.operation = g2.operation => g1 = g2
    BY <2>2 DEF Granted, PrivilegeFollowsSaga
  <2>10. (authorities'[Bootstrap].state = "CONSUMED") <=> Completed(Bootstrap)'
    BY <1>bo, <2>1, <2>3 DEF Granted, PrivilegeFollowsSaga
  <2>11. {g.operation : g \in grants'} = {o \in Operations : Completed(o)'}
    BY <2>2, <2>5, <2>8
  <2>12. /\ withdrawn' \cup revoked' \subseteq {o \in Operations : Completed(o)'}
         /\ eligible' = {o \in Operations : Completed(o)'} \ withdrawn'
    BY <2>6, <2>7, <2>8
  <2> QED BY <1>1, <1>2, <2>9, <2>10, <2>11, <2>12 DEF Granted, PrivilegeFollowsSaga
<1>4. ASSUME NEW t \in Calls, CompleteSaga(t)
      PROVE  Granted'
  <2> DEFINE o == task[t].operation
  <2> DEFINE new == [operation |-> o, attestation |-> task[t].attestation]
  <2>1. /\ o \in Operations
        /\ sagas[o].state = "AWAITING_IDENTITY_ACTIVATION"
    BY <1>4, TaskShapes DEF CompleteSaga, Completable, At, TypeOK
  <2>2. /\ sagas'[o].state = "COMPLETED"
        /\ \A p \in Operations : p # o => sagas'[p] = sagas[p]
    BY <1>4, <2>1, MovedSaga DEF CompleteSaga, SagaStates
  <2>3. /\ grants' = grants \cup {new}
        /\ eligible' = eligible \cup {o}
        /\ withdrawn' = withdrawn /\ revoked' = revoked
    BY <1>4 DEF CompleteSaga
  <2>4. \A g \in grants : g.operation # o
    BY <2>1 DEF Granted, PrivilegeFollowsSaga, Completed
  <2>5. {p \in Operations : Completed(p)'} = {p \in Operations : Completed(p)} \cup {o}
    BY <2>1, <2>2 DEF Completed
  <2>6. new.operation = o
    OBVIOUS
  <2>7. \A g1, g2 \in grants' : g1.operation = g2.operation => g1 = g2
    BY <2>3, <2>4, <2>6 DEF Granted, PrivilegeFollowsSaga
  <2>8. {g.operation : g \in grants'} = {p \in Operations : Completed(p)'}
    <3>1. {g.operation : g \in grants'} = {g.operation : g \in grants} \cup {o}
      BY <2>3, <2>6
    <3> QED BY <2>5, <3>1 DEF Granted, PrivilegeFollowsSaga
  <2>a. o \notin withdrawn
    BY <2>1 DEF Granted, PrivilegeFollowsSaga, Completed
  <2>9. /\ withdrawn' \cup revoked' \subseteq {p \in Operations : Completed(p)'}
        /\ eligible' = {p \in Operations : Completed(p)'} \ withdrawn'
    BY <2>3, <2>5, <2>a DEF Granted, PrivilegeFollowsSaga
  <2>10. (authorities'[Bootstrap].state = "CONSUMED") <=> Completed(Bootstrap)'
    <3>1. CASE o = Bootstrap
      <4>1. /\ authorities[Bootstrap] # NoAuthority
            /\ "CONSUMED" \in AuthorityStates
            /\ authorities' = [authorities EXCEPT ![Bootstrap].state = "CONSUMED"]
        BY <1>4, <3>1 DEF CompleteSaga, NoAuthority, AuthorityStates
      <4>2. authorities'[Bootstrap].state = "CONSUMED"
        BY <1>bo, <4>1, ChangedAuthority
      <4> QED BY <2>2, <3>1, <4>2 DEF Completed
    <3>2. CASE o # Bootstrap
      <4>1. authorities' = authorities
        BY <1>4, <3>2 DEF CompleteSaga
      <4> QED BY <1>bo, <2>2, <3>2, <4>1 DEF Completed, Granted, PrivilegeFollowsSaga
    <3> QED BY <3>1, <3>2
  <2> QED
    BY <1>1, <1>2, <2>7, <2>8, <2>9, <2>10 DEF Granted, PrivilegeFollowsSaga
<1> QED
  BY <1>3, <1>4

-------------------------------------------------------------------------------
(* What the deliveries have stored.                                           *)

Delivered ==
  /\ \A t \in Calls : Delivering(t) => inbox[task[t].operation][task[t].attestation] # "NONE"
  /\ \A t \in Calls : task[t].pc = "completed" => Completed(task[t].operation)
  /\ InboxTellsTheTruth

\* A row of the inbox stays, and an answer is the result of a delivery.
LEMMA InboxSteps ==
  ASSUME TypeOK, [Next]_vars, NEW o \in Operations, NEW a \in Attestations
  PROVE  /\ inbox[o][a] # "NONE" => inbox'[o][a] # "NONE"
         /\ (inbox[o][a] # "COMPLETED" /\ inbox'[o][a] = "COMPLETED") =>
              \E t \in Calls : task[t].pc = "completed" /\ task[t].operation = o
<1> DEFINE Ok ==
      /\ inbox[o][a] # "NONE" => inbox'[o][a] # "NONE"
      /\ (inbox[o][a] # "COMPLETED" /\ inbox'[o][a] = "COMPLETED") =>
           \E t \in Calls : task[t].pc = "completed" /\ task[t].operation = o
<1>1. ASSUME NEW p \in Operations, NEW b \in Attestations, NEW r,
             inbox' = [inbox EXCEPT ![p][b] = r]
      PROVE  inbox'[o][a] = IF o = p /\ a = b THEN r ELSE inbox[o][a]
  BY <1>1 DEF TypeOK
<1>2. ASSUME NEW t \in Calls, RecordResult(t)
      PROVE  Ok
  <2>1. task[t].operation \in Operations /\ task[t].attestation \in Attestations
    BY <1>2, TaskShapes DEF RecordResult, At, TypeOK
  <2>2. inbox' = [inbox EXCEPT ![task[t].operation][task[t].attestation] =
          Recorded(task[t].pc = "refused")]
    BY <1>2 DEF RecordResult
  <2>3. /\ Recorded(task[t].pc = "refused") # "NONE"
        /\ Recorded(task[t].pc = "refused") = "COMPLETED" => task[t].pc = "completed"
    BY <1>2 DEF RecordResult, Recorded, At
  <2> QED BY <1>1, <1>2, <2>1, <2>2, <2>3
<1>3. ASSUME NEW t \in Calls, NEW p \in Operations, NEW b \in Attestations, NEW version,
             ReceiveReadiness(t, p, b, version)
      PROVE  Ok
  <2>1. inbox' = [inbox EXCEPT ![p][b] = "RECEIVED"]
    BY <1>3 DEF ReceiveReadiness
  <2> QED BY <1>1, <2>1
<1>4. CASE inbox' = inbox
  BY <1>4
<1> QED
  BY <1>2, <1>3, <1>4
  DEF Next, Operate, RevokeRole, WithdrawEligibility, Prepare, Receive, vars,
     IssueProvisioning, OpenBootstrap, CancelSaga,
      MarkReconciliationRequired, ResumeReconciliation, AuthorizeProvisioning,
      AuthorizeBootstrap, InsertIdentity, ReadAuthority, BeginSaga, ConsumeProvisioning,
      PreparationFails, MarkFailure, CompleteSaga, AlreadyCompleted, CompletionFails,
      ExpireSaga, InvalidateEligibility, Crash

LEMMA NextDelivered ==
  ASSUME TypeOK, TypeOK', Authorized, Held, Granted, Delivered, [Next]_vars
  PROVE  Delivered'
<1>0. \A t \in Calls : Delivering(t) =>
        task[t].operation \in Operations /\ task[t].attestation \in Attestations
  BY TaskShapes DEF Delivering, TypeOK
<1>1. ASSUME NEW t \in Calls, Delivering(t)'
      PROVE  inbox'[task'[t].operation][task'[t].attestation] # "NONE"
  <2>1. CASE inbox'[task'[t].operation][task'[t].attestation] = "RECEIVED"
    BY <2>1
  <2>2. CASE /\ Delivering(t)
             /\ task'[t].operation = task[t].operation
             /\ task'[t].attestation = task[t].attestation
    BY <1>0, <2>2, InboxSteps DEF Delivered
  <2> QED BY <1>1, <2>1, <2>2, TaskSteps DEF CameFrom
<1>2. ASSUME NEW t \in Calls, task'[t].pc = "completed"
      PROVE  sagas'[task'[t].operation].state = "COMPLETED"
  <2>1. /\ task'[t].operation = task[t].operation
        /\ task[t].pc = "completed" \/ sagas'[task[t].operation].state = "COMPLETED"
    BY <1>2, TaskSteps DEF CameFrom
  <2>2. CASE task[t].pc = "completed"
    BY <1>0, <2>1, <2>2, SagasStay DEF Delivered, Delivering, Completed, Ended
  <2> QED BY <2>1, <2>2
<1>3. ASSUME NEW o \in Operations, NEW a \in Attestations
      PROVE  /\ inbox'[o][a] = "COMPLETED" => sagas'[o].state = "COMPLETED"
             /\ [operation |-> o, attestation |-> a] \in grants' => inbox'[o][a] # "NONE"
  <2>1. inbox'[o][a] = "COMPLETED" => sagas[o].state = "COMPLETED"
    <3>1. CASE inbox[o][a] = "COMPLETED"
      BY <3>1 DEF Delivered, InboxTellsTheTruth, Completed
    <3>2. CASE inbox[o][a] # "COMPLETED" /\ inbox'[o][a] = "COMPLETED"
      <4>1. PICK t \in Calls : task[t].pc = "completed" /\ task[t].operation = o
        BY <3>2, InboxSteps
      <4> QED BY <4>1 DEF Delivered, Completed
    <3> QED BY <3>1, <3>2
  <2>2. inbox'[o][a] = "COMPLETED" => sagas'[o].state = "COMPLETED"
    BY <2>1, SagasStay DEF Ended
  <2>3. ASSUME [operation |-> o, attestation |-> a] \in grants'
        PROVE  inbox[o][a] # "NONE"
    <3>1. CASE \A t \in Calls : ~CompleteSaga(t)
      BY <2>3, <3>1, PrivilegeStays DEF Delivered, InboxTellsTheTruth
    <3>2. ASSUME NEW t \in Calls, CompleteSaga(t)
          PROVE  inbox[o][a] # "NONE"
      <4>1. /\ grants' = grants \cup
                 {[operation |-> task[t].operation, attestation |-> task[t].attestation]}
            /\ Delivering(t)
        BY <3>2 DEF CompleteSaga, At, Delivering
      <4>2. CASE [operation |-> o, attestation |-> a] \in grants
        BY <4>2 DEF Delivered, InboxTellsTheTruth
      <4>3. CASE [operation |-> o, attestation |-> a] =
                   [operation |-> task[t].operation, attestation |-> task[t].attestation]
        <5>1. o = task[t].operation /\ a = task[t].attestation
          BY <4>3
        <5> QED BY <4>1, <5>1 DEF Delivered
      <4> QED BY <2>3, <4>1, <4>2, <4>3
    <3> QED BY <3>1, <3>2
  <2> QED BY <2>2, <2>3, InboxSteps
<1> QED
  BY <1>1, <1>2, <1>3 DEF Delivered, InboxTellsTheTruth, Completed

-------------------------------------------------------------------------------
(* The inductive invariant and what follows from it.                          *)

IInv == TypeOK /\ Authorized /\ Held /\ Granted /\ Delivered

LEMMA InitIInv == Init => IInv
<1> SUFFICES ASSUME Init PROVE IInv
  OBVIOUS
<1> USE BootstrapAssumption
<1>0. Bootstrap \in Operations
  BY DEF Operations
<1>1. TypeOK
  BY InitTypeOK
<1>2. /\ \A t \in Calls : task[t].pc = "idle"
      /\ \A o \in Operations : sagas[o].state = "NONE"
      /\ \A o \in Operations : authorities[o].state = "NONE"
      /\ grants = {}
      /\ eligible = {}
      /\ revoked = {} /\ withdrawn = {}
      /\ \A o \in Operations, a \in Attestations : inbox[o][a] = "NONE"
  BY DEF Init, Idle, NoAuthority
<1>3. Authorized
  BY <1>2 DEF Authorized, Preparing
<1>4. Held
  BY <1>2 DEF Held, Holds, Founded, OneSagaPerIdentity
<1>5. PrivilegeFollowsSaga
  <2>1. \A o \in Provisionings : o \in Operations
    BY DEF Operations
  <2> QED BY <1>0, <1>2, <2>1 DEF PrivilegeFollowsSaga, Completed
<1>6. Granted
  BY <1>2, <1>5 DEF Granted
<1>7. Delivered
  BY <1>2 DEF Delivered, Delivering, InboxTellsTheTruth
<1> QED
  BY <1>1, <1>3, <1>4, <1>6, <1>7 DEF IInv

LEMMA NextIInv == IInv /\ [Next]_vars => IInv'
<1> SUFFICES ASSUME IInv, [Next]_vars PROVE IInv'
  OBVIOUS
<1> USE DEF IInv
<1>1. TypeOK'
  BY NextTypeOK
<1> QED
  BY <1>1, NextAuthorized, NextHeld, NextGranted, NextDelivered

\* Every reachable state satisfies the inductive invariant.
THEOREM SpecIInv == Spec => []IInv
  BY InitIInv, NextIInv, PTL DEF Spec

\* The tables and the calls keep their shapes: privileged-activation.service.ts
\* and the adapters of module 02 store nothing else.
THEOREM SpecTypeOK == Spec => []TypeOK
<1>1. IInv => TypeOK
  BY DEF IInv
<1> QED
  BY <1>1, SpecIInv, PTL

\* Each completed saga assigned its role once, from one attestation; its
\* eligibility ends only when its identity's is withdrawn, and revoking the role
\* leaves it (complete, cancel, expireDue and invalidateEligibility of
\* PrivilegedActivationService, revokeRole of AuthorizationApplicationService).
THEOREM SpecPrivilegeFollowsSaga == Spec => []PrivilegeFollowsSaga
<1>1. IInv => PrivilegeFollowsSaga
  BY DEF IInv, Granted
<1> QED
  BY <1>1, SpecIInv, PTL

\* However many authorities name an identity, one saga at most is about it
\* (insertProvisionedIdentity, completeProvisioning, completeBootstrapPreparation).
THEOREM SpecOneSagaPerIdentity == Spec => []OneSagaPerIdentity
<1>1. IInv => OneSagaPerIdentity
  BY DEF IInv, Held
<1> QED
  BY <1>1, SpecIInv, PTL

\* An answer COMPLETED of the inbox is true, and a role that was granted is found
\* there (receive of ReadinessInboxService).
THEOREM SpecInboxTellsTheTruth == Spec => []InboxTellsTheTruth
<1>1. IInv => InboxTellsTheTruth
  BY DEF IInv, Delivered
<1> QED
  BY <1>1, SpecIInv, PTL
===============================================================================
