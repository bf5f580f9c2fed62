------------------------------ MODULE Activation -------------------------------
(***************************************************************************)
(* Modules 01 and 02: how a privileged identity comes to exist.  A signed   *)
(* authority is reserved, module 01 inserts the identity and a saga begins; *)
(* when module 01 attests that the identity is ready, the saga assigns its  *)
(* role and makes it eligible.  Later the role may be revoked and the       *)
(* eligibility withdrawn; a privileged permission needs both.               *)
(*                                                                          *)
(* An operation is an ADMIN provisioning or the bootstrap of the first      *)
(* SUPER_ADMIN of the environment.  Each transaction and each statement     *)
(* outside one is a step; between two steps others run, and the process may *)
(* die.  Whether expiresAt has passed is left open wherever it is compared. *)
(***************************************************************************)
EXTENDS Naturals

CONSTANTS
  Provisionings,   \* operations of provisioning
  Bootstrap,       \* the operation of the bootstrap
  Role,            \* [Operations -> role requested]
  Identities, Attestations, Calls

ASSUME BootstrapAssumption == Bootstrap \notin Provisionings

ASSUME RoleAssumption ==
  /\ Role \in [Provisionings \cup {Bootstrap} -> {"ADMIN", "SUPER_ADMIN"}]
  /\ Role[Bootstrap] = "SUPER_ADMIN"

VARIABLES
  authorities,   \* [Operations -> authority]   provisioning_authority_records and
                 \*                             bootstrap_control_records
  identities,    \* SUBSET Identities           identities
  sagas,         \* [Operations -> saga]        privileged_activation_sagas
  inbox,         \* [Operations -> [Attestations -> result]]  identity_readiness_inbox
  grants,        \* SUBSET grant    role assignments, each with the attestation it consumed
  revoked,       \* SUBSET Operations           those whose assignment is REVOKED
  eligible,      \* SUBSET Operations           ELIGIBLE privileged_access_eligibility_records
  withdrawn,     \* SUBSET Operations           those whose eligibility a change of their
                 \*                             identity has ended (history)
  task           \* [Calls -> what a call is doing]

vars == <<authorities, identities, sagas, inbox, grants, eligible, revoked, withdrawn, task>>

Operations == Provisionings \cup {Bootstrap}

AuthorityStates ==
  {"ISSUED", "RESERVED", "CONSUMED", "INVALIDATED", "RECONCILIATION_REQUIRED"}

NoAuthority == [state |-> "NONE"]

SagaStates ==
  {"NONE", "AWAITING_IDENTITY_ACTIVATION", "FAILED_RECONCILIATION",
   "COMPLETED", "EXPIRED", "CANCELLED"}

Ended == {"COMPLETED", "EXPIRED", "CANCELLED"}

Results == {"NONE", "RECEIVED", "COMPLETED", "RECONCILIATION_REQUIRED"}

Idle == [pc |-> "idle"]

PreparationTasks ==
  [pc : {"insert", "prepare", "begin", "consume", "markFailure", "invalidate"},
   operation : Operations]

DeliveryTasks ==
  [pc : {"complete", "completed", "refused"}, operation : Operations,
   attestation : Attestations, version : Nat]

Tasks == PreparationTasks \cup DeliveryTasks

TypeOK ==
  /\ authorities \in
       [Operations -> {NoAuthority} \cup [state : AuthorityStates, target : Identities]]
  /\ identities \subseteq Identities
  /\ sagas \in [Operations -> [state : SagaStates, version : Nat]]
  /\ inbox \in [Operations -> [Attestations -> Results]]
  /\ grants \subseteq [operation : Operations, attestation : Attestations]
  /\ eligible \subseteq Operations
  /\ revoked \subseteq Operations
  /\ withdrawn \subseteq Operations
  /\ task \in [Calls -> {Idle} \cup Tasks]

Init ==
  /\ authorities = [o \in Operations |-> NoAuthority]
  /\ identities = {}
  /\ sagas = [o \in Operations |-> [state |-> "NONE", version |-> 0]]
  /\ inbox = [o \in Operations |-> [a \in Attestations |-> "NONE"]]
  /\ grants = {}
  /\ eligible = {}
  /\ revoked = {}
  /\ withdrawn = {}
  /\ task = [t \in Calls |-> Idle]

Go(t, next) == task' = [task EXCEPT ![t] = next]

At(t, pc) == task[t].pc = pc

Move(o, state) ==
  sagas' = [sagas EXCEPT ![o] = [state |-> state, version |-> @.version + 1]]

-------------------------------------------------------------------------------
(* Faulty variants, each a bug the code could have.                           *)

\* the transaction does not look at the state of the saga
CompletableAlways(t) == sagas[task[t].operation].version = task[t].version

\* the identity of a provisioning is inserted whether or not it exists
InsertableAgain(o) == TRUE

\* the answer of the inbox is recorded as if nothing had failed
RecordedAsCompleted(refused) == "COMPLETED"

-------------------------------------------------------------------------------
(* Authorities.                                                               *)

\* issueProvisioning, once its quorum is valid.
IssueProvisioning(o, i) ==
  /\ o \in Provisionings
  /\ authorities[o] = NoAuthority
  /\ authorities' = [authorities EXCEPT ![o] = [state |-> "ISSUED", target |-> i]]
  /\ UNCHANGED <<identities, sagas, inbox, grants, eligible, task, revoked, withdrawn>>

\* openBootstrap: an environment has one bootstrap record, for ever.
OpenBootstrap(i) ==
  /\ authorities[Bootstrap] = NoAuthority
  /\ authorities' = [authorities EXCEPT ![Bootstrap] = [state |-> "RESERVED", target |-> i]]
  /\ UNCHANGED <<identities, sagas, inbox, grants, eligible, task, revoked, withdrawn>>

-------------------------------------------------------------------------------
(* Preparing the identity: provisionPrivilegedIdentity and                    *)
(* bootstrapSuperAdminIdentity.                                               *)

\* authorizeProvisioning
AuthorizeProvisioning(t, o) ==
  /\ task[t] = Idle
  /\ o \in Provisionings
  /\ authorities[o].state = "ISSUED"
  /\ authorities' = [authorities EXCEPT ![o].state = "RESERVED"]
  /\ Go(t, [pc |-> "insert", operation |-> o])
  /\ UNCHANGED <<identities, sagas, inbox, grants, eligible, revoked, withdrawn>>

\* authorizeBootstrap, which reserves nothing.
AuthorizeBootstrap(t) ==
  /\ task[t] = Idle
  /\ authorities[Bootstrap].state = "RESERVED"
  /\ Go(t, [pc |-> "insert", operation |-> Bootstrap])
  /\ UNCHANGED <<authorities, identities, sagas, inbox, grants, eligible, revoked, withdrawn>>

\* The identity and its identifier are unique.
Insertable(o) == authorities[o].target \notin identities

InsertIdentity(t) ==
  LET o == task[t].operation
  IN /\ At(t, "insert")
     /\ Insertable(o)
     /\ identities' = identities \cup {authorities[o].target}
     /\ Go(t, [task[t] EXCEPT !.pc = "prepare"])
     /\ UNCHANGED <<authorities, sagas, inbox, grants, eligible, revoked, withdrawn>>

\* completeProvisioning and completeBootstrapPreparation read the authority.
ReadAuthority(t) ==
  /\ At(t, "prepare")
  /\ authorities[task[t].operation].state = "RESERVED"
  /\ Go(t, [task[t] EXCEPT !.pc = "begin"])
  /\ UNCHANGED <<authorities, identities, sagas, inbox, grants, eligible, revoked, withdrawn>>

NewSaga == [state |-> "AWAITING_IDENTITY_ACTIVATION", version |-> 1]

\* begin.  Only the call that inserted the identity gets here, so a saga of the
\* operation never exists yet.
BeginSaga(t) ==
  LET o == task[t].operation
  IN /\ At(t, "begin")
     /\ sagas[o].state = "NONE"
     /\ sagas' = [sagas EXCEPT ![o] = NewSaga]
     /\ Go(t, IF o = Bootstrap THEN Idle ELSE [task[t] EXCEPT !.pc = "consume"])
     /\ UNCHANGED <<authorities, identities, inbox, grants, eligible, revoked, withdrawn>>

ConsumeProvisioning(t) ==
  LET o == task[t].operation
  IN /\ At(t, "consume")
     /\ authorities[o].state = "RESERVED"
     /\ authorities' = [authorities EXCEPT ![o].state = "CONSUMED"]
     /\ Go(t, Idle)
     /\ UNCHANGED <<identities, sagas, inbox, grants, eligible, revoked, withdrawn>>

\* A step of the preparation finds its guard false, or the storage fails.
PreparationFails(t) ==
  /\ \E pc \in {"insert", "prepare", "begin", "consume"} : At(t, pc)
  /\ Go(t, [task[t] EXCEPT !.pc = "markFailure"])
  /\ UNCHANGED <<authorities, identities, sagas, inbox, grants, eligible, revoked, withdrawn>>

\* The states from which markProvisioningFailure and markBootstrapFailure move an
\* authority; a bootstrap record that is CONSUMED is permanentlyClosed.
Failable(o) ==
  IF o = Bootstrap THEN AuthorityStates \ {"CONSUMED"} ELSE {"ISSUED", "RESERVED"}

MarkFailure(t) ==
  LET o == task[t].operation
  IN /\ At(t, "markFailure")
     /\ authorities' =
          IF authorities[o].state \in Failable(o)
          THEN [authorities EXCEPT ![o].state = "RECONCILIATION_REQUIRED"]
          ELSE authorities
     /\ Go(t, Idle)
     /\ UNCHANGED <<identities, sagas, inbox, grants, eligible, revoked, withdrawn>>

-------------------------------------------------------------------------------
(* The readiness of the identity: receive and complete.                       *)

\* An attestation that is not in the inbox; one that is there is answered from
\* its row.  A message stands for the attestation it carries, and the version is
\* whatever the sender expects.
ReceiveReadiness(t, o, a, version) ==
  /\ task[t] = Idle
  /\ sagas[o].state # "NONE"
  /\ inbox[o][a] = "NONE"
  /\ inbox' = [inbox EXCEPT ![o][a] = "RECEIVED"]
  /\ Go(t, [pc |-> "complete", operation |-> o, attestation |-> a, version |-> version])
  /\ UNCHANGED <<authorities, identities, sagas, grants, eligible, revoked, withdrawn>>

Completable(t) ==
  sagas[task[t].operation] =
    [state |-> "AWAITING_IDENTITY_ACTIVATION", version |-> task[t].version]

ActiveSuperAdmins ==
  {g \in grants : Role[g.operation] = "SUPER_ADMIN" /\ g.operation \notin revoked}

\* The transaction of complete.  It closes the bootstrap with its saga, which
\* makes the first SUPER_ADMIN or none.
CompleteSaga(t) ==
  LET o == task[t].operation
  IN /\ At(t, "complete")
     /\ Completable(t)
     /\ o = Bootstrap => authorities[o].state = "RESERVED" /\ ActiveSuperAdmins = {}
     /\ grants' = grants \cup {[operation |-> o, attestation |-> task[t].attestation]}
     /\ eligible' = eligible \cup {o}
     /\ authorities' =
          IF o = Bootstrap THEN [authorities EXCEPT ![o].state = "CONSUMED"] ELSE authorities
     /\ Move(o, "COMPLETED")
     /\ Go(t, [task[t] EXCEPT !.pc = "completed"])
     /\ UNCHANGED <<identities, inbox, revoked, withdrawn>>

\* complete of a saga another attestation has completed.
AlreadyCompleted(t) ==
  /\ At(t, "complete")
  /\ sagas[task[t].operation].state = "COMPLETED"
  /\ Go(t, [task[t] EXCEPT !.pc = "completed"])
  /\ UNCHANGED <<authorities, identities, sagas, inbox, grants, eligible, revoked, withdrawn>>

\* complete refuses, or an answer of the storage is lost, its commit's too.
CompletionFails(t) ==
  /\ At(t, "complete") \/ At(t, "completed")
  /\ Go(t, [task[t] EXCEPT !.pc = "refused"])
  /\ UNCHANGED <<authorities, identities, sagas, inbox, grants, eligible, revoked, withdrawn>>

Recorded(refused) == IF refused THEN "RECONCILIATION_REQUIRED" ELSE "COMPLETED"

RecordResult(t) ==
  /\ At(t, "completed") \/ At(t, "refused")
  /\ inbox' = [inbox EXCEPT ![task[t].operation][task[t].attestation] =
       Recorded(task[t].pc = "refused")]
  /\ Go(t, Idle)
  /\ UNCHANGED <<authorities, identities, sagas, grants, eligible, revoked, withdrawn>>

-------------------------------------------------------------------------------
(* What ends or suspends a saga: cancel, expireDue,                           *)
(* markReconciliationRequired, resumeReconciliation.                          *)

Open(o) == sagas[o].state \notin Ended \cup {"NONE"}

\* cancel looks for the authority among the provisionings only.
CancelSaga(o) ==
  /\ Open(o)
  /\ Move(o, "CANCELLED")
  /\ eligible' = eligible \ {o}
  /\ authorities' =
       IF o # Bootstrap /\ authorities[o].state \in {"ISSUED", "RESERVED"}
       THEN [authorities EXCEPT ![o].state = "INVALIDATED"]
       ELSE authorities
  /\ UNCHANGED <<identities, inbox, grants, task, revoked, withdrawn>>

EligibleFor(i) == {o \in eligible : authorities[o].target = i}

\* expireDue, for one saga; then it invalidates all that its identity has.
ExpireSaga(t, o) ==
  /\ task[t] = Idle
  /\ Open(o)
  /\ Move(o, "EXPIRED")
  /\ Go(t, [pc |-> "invalidate", operation |-> o])
  /\ UNCHANGED <<authorities, identities, inbox, grants, eligible, revoked, withdrawn>>

InvalidateEligibility(t) ==
  LET target == authorities[task[t].operation].target
  IN /\ At(t, "invalidate")
     /\ eligible' = eligible \ EligibleFor(target)
     /\ Go(t, Idle)
     /\ UNCHANGED <<authorities, identities, sagas, inbox, grants, revoked, withdrawn>>

MarkReconciliationRequired(o) ==
  /\ Open(o)
  /\ Move(o, "FAILED_RECONCILIATION")
  /\ UNCHANGED <<authorities, identities, inbox, grants, eligible, task, revoked, withdrawn>>

\* No saga in this state has assigned its role, so it resumes at the beginning.
ResumeReconciliation(o) ==
  /\ sagas[o].state = "FAILED_RECONCILIATION"
  /\ Move(o, "AWAITING_IDENTITY_ACTIVATION")
  /\ UNCHANGED <<authorities, identities, inbox, grants, eligible, task, revoked, withdrawn>>

-------------------------------------------------------------------------------
(* What ends a privilege that was granted.                                    *)

\* revokeRole: a role is managed by the one above it, and SUPER_ADMIN is the
\* highest; whoever was let in with it may have lost its eligibility since.  The
\* assignment is written while it is ACTIVE; the eligibility is not.
RevokeRole(o) ==
  /\ \E g \in grants : g.operation = o
  /\ Role[o] = "ADMIN"
  /\ ActiveSuperAdmins # {}
  /\ o \notin revoked
  /\ revoked' = revoked \cup {o}
  /\ UNCHANGED <<authorities, identities, sagas, inbox, grants, eligible, withdrawn, task>>

\* invalidateEligibility of an identity whose state, credentials or factors
\* changed.
WithdrawEligibility(i) ==
  /\ EligibleFor(i) # {}
  /\ eligible' = eligible \ EligibleFor(i)
  /\ withdrawn' = withdrawn \cup EligibleFor(i)
  /\ UNCHANGED <<authorities, identities, sagas, inbox, grants, revoked, task>>

-------------------------------------------------------------------------------
\* The process dies, or the failure cannot be stored.
Crash(t) ==
  /\ task[t] # Idle
  /\ Go(t, Idle)
  /\ UNCHANGED <<authorities, identities, sagas, inbox, grants, eligible, revoked, withdrawn>>

Prepare(t) ==
  \/ \E o \in Provisionings : AuthorizeProvisioning(t, o)
  \/ AuthorizeBootstrap(t)
  \/ InsertIdentity(t)
  \/ ReadAuthority(t)
  \/ BeginSaga(t)
  \/ ConsumeProvisioning(t)
  \/ PreparationFails(t)
  \/ MarkFailure(t)

\* No saga has a version beyond its own, so no sender expects one.
Receive(t) ==
  \/ \E o \in Operations, a \in Attestations :
       \E version \in 1..sagas[o].version : ReceiveReadiness(t, o, a, version)
  \/ CompleteSaga(t)
  \/ AlreadyCompleted(t)
  \/ CompletionFails(t)
  \/ RecordResult(t)

Operate ==
  \/ \E o \in Provisionings, i \in Identities : IssueProvisioning(o, i)
  \/ \E i \in Identities : OpenBootstrap(i)
  \/ \E o \in Operations :
       \/ CancelSaga(o)
       \/ MarkReconciliationRequired(o)
       \/ ResumeReconciliation(o)
       \/ RevokeRole(o)
  \/ \E i \in Identities : WithdrawEligibility(i)

Next ==
  \/ Operate
  \/ \E t \in Calls :
       \/ Prepare(t)
       \/ Receive(t)
       \/ \E o \in Operations : ExpireSaga(t, o)
       \/ InvalidateEligibility(t)
       \/ Crash(t)

Spec == Init /\ [][Next]_vars

-------------------------------------------------------------------------------
(* Properties.                                                                *)

Completed(o) == sagas[o].state = "COMPLETED"

\* Each saga that completed, and no other, assigned its role once, from one
\* attestation, and made it eligible.  Only a change of its own identity ends that
\* eligibility: whatever deliveries, cancellations, expiries and reconciliations
\* race, none takes it from a saga it is not about, and none gives it back.
\* Only a role that was assigned is revoked; its eligibility stays, against
\* amendment 003, so it is the assignment alone that denies the privilege.
\* The bootstrap is closed exactly with its saga, and what was cancelled grants
\* nothing.
PrivilegeFollowsSaga ==
  /\ \A g1, g2 \in grants : g1.operation = g2.operation => g1 = g2
  /\ {g.operation : g \in grants} = {o \in Operations : Completed(o)}
  /\ withdrawn \cup revoked \subseteq {o \in Operations : Completed(o)}
  /\ eligible = {o \in Operations : Completed(o)} \ withdrawn
  /\ (authorities[Bootstrap].state = "CONSUMED") <=> Completed(Bootstrap)
  /\ \A o \in Provisionings :
       authorities[o].state = "INVALIDATED" => sagas[o].state = "CANCELLED"

\* Two authorities for one identity never lead to two sagas of it, so the expiry
\* of one never takes away what another granted.
OneSagaPerIdentity ==
  \A o1, o2 \in Operations :
    (/\ sagas[o1].state # "NONE"
     /\ sagas[o2].state # "NONE"
     /\ authorities[o1].target = authorities[o2].target) => o1 = o2

\* A delivery is answered as completed only once its saga has completed, and a
\* role that was granted is found in the inbox under the attestation it consumed.
InboxTellsTheTruth ==
  \A o \in Operations, a \in Attestations :
    /\ inbox[o][a] = "COMPLETED" => Completed(o)
    /\ [operation |-> o, attestation |-> a] \in grants => inbox[o][a] # "NONE"
===============================================================================
