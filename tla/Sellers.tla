-------------------------------- MODULE Sellers --------------------------------
(***************************************************************************)
(* Module 03: the life of a seller, from onboarding over the admin review   *)
(* to activation, and the SELLER role it asks of module 02.                 *)
(*                                                                          *)
(* Every operation reads the profile at the version its caller expects,     *)
(* checks, and saves a change set under that version.  A call is two steps, *)
(* the read with its checks and the save, so that others may commit in      *)
(* between; activation and reactivation also talk to module 02 before the   *)
(* save.  The process may die between any two steps.                        *)
(*                                                                          *)
(* Left out, because they can only end a call before its first effect:      *)
(* permissions of administrators (anybody may be one), the eligibility of   *)
(* identities, rate limits and idempotency rows.                            *)
(***************************************************************************)
EXTENDS Naturals

CONSTANTS Sellers, Identities, Calls

VARIABLES
  profiles,      \* [Sellers -> profile row]                seller_profiles
  associations,  \* [Sellers -> [Identities -> tie]]        seller_identity_associations
  compliance,    \* [Sellers -> ComplianceStates]           derived of the verifications
  log,           \* [Sellers -> SUBSET Episodes]            seller_state_transitions
  sellerRole,    \* [Identities -> RoleStates]              the last SELLER assignment
  task           \* [Calls -> what a call is doing]

vars == <<profiles, associations, compliance, log, sellerRole, task>>

SellerStates == {"DRAFT", "SUBMITTED", "UNDER_REVIEW", "CORRECTIONS_REQUESTED",
                 "APPROVED", "ACTIVE", "SUSPENDED", "REJECTED", "CLOSED"}

\* A seller that is not there yet.
NoProfile == [state |-> "NONE", version |-> 0]

ProfileRows == [state : SellerStates, version : Nat \ {0}]

Ties == {"NONE", "OWNER", "MEMBER", "REMOVED"}

\* IN_PROGRESS stands for everything between the first submission and the
\* approval of every mandatory verification, refusals and expiries included.
ComplianceStates == {"NOT_STARTED", "IN_PROGRESS", "COMPLIANT"}

Episodes == [from : SellerStates \cup {"NONE"}, to : SellerStates,
             version : Nat \ {0}, actor : Identities \cup {"SYSTEM"}]

\* The reason of a revocation is kept with the assignment.
RoleStates == {"NONE", "GRANTED", "REVOKED", "ROLLED_BACK"}

\* The operations that move a seller, and where they move it.
Moves == [requestSellerProfileCreation |-> "DRAFT",
          submitOnboarding |-> "SUBMITTED", resubmitOnboarding |-> "SUBMITTED",
          claimReview |-> "UNDER_REVIEW", requestCorrections |-> "CORRECTIONS_REQUESTED",
          approve |-> "APPROVED", reject |-> "REJECTED",
          activateApprovedSeller |-> "ACTIVE", suspendSeller |-> "SUSPENDED",
          reactivateSeller |-> "ACTIVE"]

\* Those that leave its state alone.
Amendments == {"amendProfile", "addMember", "removeMember", "submitVerification",
               "revokeSellerAuthorization"}

Idle == [pc |-> "idle"]

\* seen is the profile the call has read, other the member it is about.
Tasks == [pc : {"module02", "save", "compensate"}, operation : DOMAIN Moves \cup Amendments,
          seller : Sellers, actor : Identities, other : Identities,
          seen : {NoProfile} \cup ProfileRows]

TypeOK ==
  /\ profiles \in [Sellers -> {NoProfile} \cup ProfileRows]
  /\ associations \in [Sellers -> [Identities -> Ties]]
  /\ compliance \in [Sellers -> ComplianceStates]
  /\ log \in [Sellers -> SUBSET Episodes]
  /\ sellerRole \in [Identities -> RoleStates]
  /\ task \in [Calls -> {Idle} \cup Tasks]

Init ==
  /\ profiles = [s \in Sellers |-> NoProfile]
  /\ associations = [s \in Sellers |-> [i \in Identities |-> "NONE"]]
  /\ compliance = [s \in Sellers |-> "NOT_STARTED"]
  /\ log = [s \in Sellers |-> {}]
  /\ sellerRole = [i \in Identities |-> "NONE"]
  /\ task = [t \in Calls |-> Idle]

IsOwner(s, i) == associations[s][i] = "OWNER"

Associated(s, i) == associations[s][i] \in {"OWNER", "MEMBER"}

\* The reviews opened for a seller.
Reviews(s) == {e \in log[s] : e.to = "UNDER_REVIEW"}

-------------------------------------------------------------------------------
(* Faulty variants, each a bug the code could have.                           *)

\* the version is not part of the WHERE clause
SavableAlways(t) == TRUE

\* the log is searched from its beginning
EarliestReview(s) ==
  {e \in Reviews(s) : \A other \in Reviews(s) : other.version >= e.version}

\* adding a member leaves the version of the profile alone
AdvancedByMovesOnly(t) ==
  IF task[t].operation \in Amendments
    THEN task[t].seen
    ELSE [state |-> Moves[task[t].operation], version |-> task[t].seen.version + 1]

-------------------------------------------------------------------------------
(* The reads, one for every operation.                                        *)

\* A call t has read seller s for operation; what it does next is next.
Start(t, operation, s, a, other, next) ==
  /\ task[t] = Idle
  /\ task' = [task EXCEPT ![t] =
       [pc |-> next, operation |-> operation, seller |-> s, actor |-> a,
        other |-> other, seen |-> profiles[s]]]
  /\ UNCHANGED <<profiles, associations, compliance, log, sellerRole>>

\* The identity has no seller; s is the fresh one, with its registration digest.
RequestSellerProfileCreation(t, s, a) ==
  /\ \A other \in Sellers : ~Associated(other, a)
  /\ profiles[s] = NoProfile
  /\ Start(t, "requestSellerProfileCreation", s, a, a, "save")

SubmitOnboarding(t, s, a) ==
  /\ profiles[s].state = "DRAFT"
  /\ IsOwner(s, a)
  /\ compliance[s] # "NOT_STARTED"
  /\ Start(t, "submitOnboarding", s, a, a, "save")

ResubmitOnboarding(t, s, a) ==
  /\ profiles[s].state = "CORRECTIONS_REQUESTED"
  /\ IsOwner(s, a)
  /\ Start(t, "resubmitOnboarding", s, a, a, "save")

\* updateProfile, which is refused in some states, and createWarehouse and
\* closeWarehouse, which are not: to the lifecycle all are a new version.
AmendProfile(t, s, a) ==
  /\ IsOwner(s, a)
  /\ Start(t, "amendProfile", s, a, a, "save")

AddMember(t, s, a, m) ==
  /\ IsOwner(s, a)
  /\ ~Associated(s, m)
  /\ Start(t, "addMember", s, a, m, "save")

RemoveMember(t, s, a, m) ==
  /\ IsOwner(s, a)
  /\ associations[s][m] = "MEMBER"
  /\ Start(t, "removeMember", s, a, m, "save")

SubmitVerification(t, s, a) ==
  /\ profiles[s].state \in {"DRAFT", "CORRECTIONS_REQUESTED", "ACTIVE", "SUSPENDED"}
  /\ IsOwner(s, a)
  /\ Start(t, "submitVerification", s, a, a, "save")

ClaimReview(t, s, a) ==
  /\ profiles[s].state = "SUBMITTED"
  /\ ~Associated(s, a)
  /\ Start(t, "claimReview", s, a, a, "save")

\* Whoever may claim reviews may ask for corrections, an associate included.
RequestCorrections(t, s, a) ==
  /\ profiles[s].state = "UNDER_REVIEW"
  /\ Start(t, "requestCorrections", s, a, a, "save")

\* The last review findTransitions lists; whoever opened it may not decide it.
LatestReview(s) ==
  {e \in Reviews(s) : \A other \in Reviews(s) : other.version <= e.version}

DecideReview(t, s, a) ==
  /\ profiles[s].state = "UNDER_REVIEW"
  /\ ~Associated(s, a)
  /\ \E review \in LatestReview(s) : review.actor # a
  /\ \/ compliance[s] = "COMPLIANT" /\ Start(t, "approve", s, a, a, "save")
     \/ Start(t, "reject", s, a, a, "save")

\* Of an ACTIVE seller the call only reports whether its owner has the role.
ActivateApprovedSeller(t, s, a) ==
  /\ profiles[s].state = "APPROVED"
  /\ Start(t, "activateApprovedSeller", s, a, a, "module02")

SuspendSeller(t, s, a) ==
  /\ profiles[s].state = "ACTIVE"
  /\ Start(t, "suspendSeller", s, a, a, "save")

ReactivateSeller(t, s, a) ==
  /\ profiles[s].state = "SUSPENDED"
  /\ Start(t, "reactivateSeller", s, a, a, "module02")

RevokeSellerAuthorization(t, s, a) ==
  /\ profiles[s] # NoProfile
  /\ Start(t, "revokeSellerAuthorization", s, a, a, "module02")

-------------------------------------------------------------------------------
(* What follows the read.                                                     *)

GrantRole(s) ==
  sellerRole' = [i \in Identities |-> IF IsOwner(s, i) THEN "GRANTED" ELSE sellerRole[i]]

\* revokeSellerRole: whatever seller the owner was granted the role for.
RevokeRole(s, reason) ==
  sellerRole' = [i \in Identities |->
    IF IsOwner(s, i) /\ sellerRole[i] = "GRANTED" THEN reason ELSE sellerRole[i]]

\* assignSellerRoleForActivation: the resolver reads the seller once more, and
\* a role already held is a success.
AssignSellerRole(t) ==
  /\ task[t].pc = "module02"
  /\ task[t].operation \in {"activateApprovedSeller", "reactivateSeller"}
  /\ profiles[task[t].seller].state \in {"APPROVED", "ACTIVE", "SUSPENDED"}
  /\ GrantRole(task[t].seller)
  /\ task' = [task EXCEPT ![t].pc = "save"]
  /\ UNCHANGED <<profiles, associations, compliance, log>>

\* The administrator's revocation; what is saved after it is an audit record.
RevokeSellerRole(t) ==
  /\ task[t].pc = "module02"
  /\ task[t].operation = "revokeSellerAuthorization"
  /\ RevokeRole(task[t].seller, "REVOKED")
  /\ task' = [task EXCEPT ![t].pc = "save"]
  /\ UNCHANGED <<profiles, associations, compliance, log>>

\* The WHERE clause of save; for a new seller, that its digest is still free.
Savable(t) == profiles[task[t].seller].version = task[t].seen.version

\* updatedProfile and bumpedProfile; the last two operations save the row read.
Advanced(t) ==
  IF task[t].operation \in {"submitVerification", "revokeSellerAuthorization"}
    THEN task[t].seen
    ELSE [state |-> IF task[t].operation \in DOMAIN Moves
                      THEN Moves[task[t].operation] ELSE task[t].seen.state,
          version |-> task[t].seen.version + 1]

Episode(t) ==
  [from |-> task[t].seen.state, to |-> Moves[task[t].operation],
   version |-> task[t].seen.version + 1,
   actor |-> IF task[t].operation = "activateApprovedSeller"
               THEN "SYSTEM" ELSE task[t].actor]

\* An identity is tied to a seller once: who was removed cannot be added again.
TieFree(t) ==
  task[t].operation = "addMember" => associations[task[t].seller][task[t].other] = "NONE"

Tie(operation, old) ==
  CASE operation = "requestSellerProfileCreation" -> "OWNER"
    [] operation = "addMember" -> "MEMBER"
    [] operation = "removeMember" -> "REMOVED"
    [] OTHER -> old

\* The change set, in one transaction.
Save(t) ==
  LET s == task[t].seller
      operation == task[t].operation
  IN /\ task[t].pc = "save"
     /\ Savable(t)
     /\ TieFree(t)
     /\ profiles' = [profiles EXCEPT ![s] = Advanced(t)]
     /\ associations' = [associations EXCEPT ![s][task[t].other] = Tie(operation, @)]
     /\ compliance' =
          [compliance EXCEPT ![s] = IF operation = "submitVerification" THEN "IN_PROGRESS" ELSE @]
     /\ log' = [log EXCEPT ![s] =
                  IF operation \in DOMAIN Moves THEN @ \cup {Episode(t)} ELSE @]
     /\ task' = [task EXCEPT ![t] = Idle]
     /\ UNCHANGED sellerRole

\* The save of an activation throws, because it is stale or for another reason.
SaveFails(t) ==
  /\ task[t].pc = "save"
  /\ task[t].operation = "activateApprovedSeller"
  /\ task' = [task EXCEPT ![t].pc = "compensate"]
  /\ UNCHANGED <<profiles, associations, compliance, log, sellerRole>>

Compensate(t) ==
  /\ task[t].pc = "compensate"
  /\ RevokeRole(task[t].seller, "ROLLED_BACK")
  /\ task' = [task EXCEPT ![t] = Idle]
  /\ UNCHANGED <<profiles, associations, compliance, log>>

\* The call ends early: a refusal, a save that fails with nothing to undo, or
\* the death of the process.
Drop(t) ==
  /\ task[t] # Idle
  /\ task' = [task EXCEPT ![t] = Idle]
  /\ UNCHANGED <<profiles, associations, compliance, log, sellerRole>>

\* Verifications are decided outside: nothing under src/ approves one.
VerificationsDecided(s) ==
  /\ compliance[s] # "NOT_STARTED"
  /\ \E outcome \in {"IN_PROGRESS", "COMPLIANT"} : compliance' = [compliance EXCEPT ![s] = outcome]
  /\ UNCHANGED <<profiles, associations, log, sellerRole, task>>

-------------------------------------------------------------------------------
OwnerCalls(t, s, a) ==
  \/ RequestSellerProfileCreation(t, s, a)
  \/ SubmitOnboarding(t, s, a)
  \/ ResubmitOnboarding(t, s, a)
  \/ AmendProfile(t, s, a)
  \/ \E m \in Identities : AddMember(t, s, a, m) \/ RemoveMember(t, s, a, m)
  \/ SubmitVerification(t, s, a)

AdminCalls(t, s, a) ==
  \/ ClaimReview(t, s, a)
  \/ RequestCorrections(t, s, a)
  \/ DecideReview(t, s, a)
  \/ ActivateApprovedSeller(t, s, a)
  \/ SuspendSeller(t, s, a)
  \/ ReactivateSeller(t, s, a)
  \/ RevokeSellerAuthorization(t, s, a)

Continue(t) ==
  \/ AssignSellerRole(t)
  \/ RevokeSellerRole(t)
  \/ Save(t)
  \/ SaveFails(t)
  \/ Compensate(t)
  \/ Drop(t)

Next ==
  \/ \E t \in Calls, s \in Sellers, a \in Identities :
       OwnerCalls(t, s, a) \/ AdminCalls(t, s, a)
  \/ \E t \in Calls : Continue(t)
  \/ \E s \in Sellers : VerificationsDecided(s)

Spec == Init /\ [][Next]_vars

-------------------------------------------------------------------------------
(* Properties.                                                                *)

Between(s, low, high) == {e \in log[s] : low.version < e.version /\ e.version < high.version}

\* Whoever approves or rejects a seller is not who opened the review that is
\* decided, over any number of review cycles and with calls in flight.
DecisionsAreSeparated ==
  \A s \in Sellers : \A review, decision \in log[s] :
    /\ review.to = "UNDER_REVIEW"
    /\ decision.to \in {"APPROVED", "REJECTED"}
    /\ review.version < decision.version
    /\ Between(s, review, decision) = {}
    => review.actor # decision.actor

\* No identity tied to the seller opens or decides its review, also when it was
\* made a member after the service had looked and before the save.
DecidersAreOutsiders ==
  [][\A s \in Sellers : \A e \in log'[s] \ log[s] :
       e.to \in {"UNDER_REVIEW", "APPROVED", "REJECTED"} => ~Associated(s, e.actor)]_vars

\* The log tells the whole life of a seller: read by version it is a chain of
\* states that ends in the state of the profile.
LogTellsTheLife ==
  \A s \in Sellers : \A e \in log[s] :
    /\ \A other \in log[s] : other.version = e.version => other = e
    /\ e.from = "NONE" \/ \E before \in log[s] :
         before.to = e.from /\ before.version < e.version /\ Between(s, before, e) = {}
    /\ (\A other \in log[s] : other.version <= e.version) => profiles[s].state = e.to

\* The owner of an ACTIVE seller has the SELLER role, unless an administrator
\* took it: an activation that is rolled back does not.
ActiveSellersHoldRole ==
  \A s \in Sellers, i \in Identities :
    profiles[s].state = "ACTIVE" /\ IsOwner(s, i) => sellerRole[i] \in {"GRANTED", "REVOKED"}
===============================================================================
