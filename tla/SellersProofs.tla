----------------------------- MODULE SellersProofs -----------------------------
(***************************************************************************)
(* Proofs about Sellers for any number of sellers, identities and calls.    *)
(* What a call has checked stays true as long as the version it has read is *)
(* the version of the profile; and every episode of the log is younger than *)
(* those before it.                                                         *)
(***************************************************************************)
EXTENDS Sellers, TLAPS

\* What the service has checked before it hands a decision to the repository.
Checked(x) ==
  /\ x.operation \in {"claimReview", "approve", "reject"} => ~Associated(x.seller, x.actor)
  /\ x.operation \in {"approve", "reject"} =>
       \E review \in LatestReview(x.seller) : review.actor # x.actor

\* What a call has read is the profile, or an older version of it.
Fits(x) ==
  x.pc # "idle" =>
    /\ x.seen.version <= profiles[x.seller].version
    /\ x.seen.version = profiles[x.seller].version =>
         x.seen = profiles[x.seller] /\ Checked(x)
    /\ (x.operation = "requestSellerProfileCreation") <=> (x.seen = NoProfile)

SeenInv == \A t \in Calls : Fits(task[t])

\* Nobody is tied to a seller that is not there.
TiesInv ==
  \A s \in Sellers, i \in Identities :
    associations[s][i] # "NONE" => profiles[s] # NoProfile

\* The log of a seller ends with the profile.
LogInv ==
  \A s \in Sellers :
    /\ \A e \in log[s] : e.version <= profiles[s].version
    /\ profiles[s] # NoProfile =>
         \E last \in log[s] :
           /\ \A e \in log[s] : e.version <= last.version
           /\ last.to = profiles[s].state

IInv == TypeOK /\ SeenInv /\ TiesInv /\ LogInv /\ LogTellsTheLife /\ DecisionsAreSeparated

-------------------------------------------------------------------------------
LEMMA MovesShape ==
  /\ \A operation \in DOMAIN Moves : Moves[operation] \in SellerStates
  /\ \A operation \in DOMAIN Moves :
       /\ Moves[operation] = "UNDER_REVIEW" => operation = "claimReview"
       /\ Moves[operation] = "APPROVED" => operation = "approve"
       /\ Moves[operation] = "REJECTED" => operation = "reject"
  /\ \A operation \in Amendments : operation \notin DOMAIN Moves
  /\ "requestSellerProfileCreation" \in DOMAIN Moves
  /\ {"submitOnboarding", "resubmitOnboarding", "claimReview", "requestCorrections", "approve",
      "reject", "activateApprovedSeller", "suspendSeller", "reactivateSeller"} \subseteq DOMAIN Moves
  BY DEF Moves, SellerStates, Amendments

LEMMA TaskShapes ==
  ASSUME NEW x \in {Idle} \cup Tasks
  PROVE  /\ x = Idle <=> x.pc = "idle"
         /\ x.pc # "idle" =>
              /\ x \in Tasks
              /\ x.operation \in DOMAIN Moves \cup Amendments
              /\ x.seller \in Sellers
              /\ x.actor \in Identities
              /\ x.other \in Identities
              /\ x.seen \in {NoProfile} \cup ProfileRows
              /\ x.seen.version \in Nat
  BY DEF Idle, Tasks, NoProfile, ProfileRows

LEMMA NextPc ==
  ASSUME NEW x \in Tasks, NEW pc \in {"save", "compensate"}
  PROVE  LET y == [x EXCEPT !.pc = pc]
         IN /\ y \in Tasks
            /\ y.pc = pc
            /\ y.operation = x.operation
            /\ y.seller = x.seller
            /\ y.actor = x.actor
            /\ y.seen = x.seen
  BY DEF Tasks

LEMMA Versions ==
  ASSUME TypeOK, NEW s \in Sellers
  PROVE  /\ profiles[s].version \in Nat
         /\ (profiles[s].version = 0) <=> (profiles[s] = NoProfile)
         /\ (profiles[s].state = "NONE") <=> (profiles[s] = NoProfile)
         /\ \A e \in log[s] : e \in Episodes /\ e.version \in Nat
  BY DEF TypeOK, NoProfile, ProfileRows, SellerStates, Episodes

\* The version guard: a call that saves has read the profile as it is.
LEMMA SavedAsRead ==
  ASSUME TypeOK, SeenInv, NEW t \in Calls, Save(t)
  PROVE  /\ task[t].seller \in Sellers
         /\ task[t].seen = profiles[task[t].seller]
         /\ Checked(task[t])
         /\ (task[t].operation = "requestSellerProfileCreation") <=> (task[t].seen = NoProfile)
         /\ task[t].operation \in DOMAIN Moves \cup Amendments
         /\ task[t].actor \in Identities
         /\ task[t].other \in Identities
  BY TaskShapes DEF Save, Savable, SeenInv, Fits, TypeOK

\* What a save leaves behind.
LEMMA SaveSteps ==
  ASSUME TypeOK, SeenInv, NEW t \in Calls, Save(t)
  PROVE  LET s == task[t].seller
             operation == task[t].operation
         IN /\ \A r \in Sellers : r # s =>
                 /\ profiles'[r] = profiles[r]
                 /\ associations'[r] = associations[r]
                 /\ log'[r] = log[r]
            /\ \/ /\ operation \in {"submitVerification", "revokeSellerAuthorization"}
                  /\ profiles' = profiles
                  /\ associations' = associations
                  /\ log' = log
               \/ /\ operation \in Amendments
                  /\ profiles[s] # NoProfile
                  /\ profiles'[s] = [state |-> profiles[s].state,
                                     version |-> profiles[s].version + 1]
                  /\ log'[s] = log[s]
               \/ /\ operation \in DOMAIN Moves
                  /\ profiles'[s] = [state |-> Moves[operation],
                                     version |-> profiles[s].version + 1]
                  /\ log'[s] = log[s] \cup {Episode(t)}
<1> DEFINE s == task[t].seller
<1> DEFINE operation == task[t].operation
<1>1. /\ s \in Sellers
      /\ task[t].seen = profiles[s]
      /\ (operation = "requestSellerProfileCreation") <=> (task[t].seen = NoProfile)
      /\ operation \in DOMAIN Moves \cup Amendments
  BY SavedAsRead
<1>2. /\ profiles' = [profiles EXCEPT ![s] = Advanced(t)]
      /\ associations' =
           [associations EXCEPT ![s][task[t].other] = Tie(operation, associations[s][task[t].other])]
      /\ log' = [log EXCEPT ![s] =
                   IF operation \in DOMAIN Moves THEN log[s] \cup {Episode(t)} ELSE log[s]]
  BY DEF Save
<1> HIDE DEF s
<1>3. \A r \in Sellers : r # s =>
        /\ profiles'[r] = profiles[r]
        /\ associations'[r] = associations[r]
        /\ log'[r] = log[r]
  BY <1>2 DEF TypeOK
<1>4. profiles'[s] = Advanced(t)
  BY <1>1, <1>2 DEF TypeOK
<1>5. log'[s] = IF operation \in DOMAIN Moves THEN log[s] \cup {Episode(t)} ELSE log[s]
  BY <1>1, <1>2 DEF TypeOK
<1>6. CASE operation \in {"submitVerification", "revokeSellerAuthorization"}
  <2>1. Advanced(t) = profiles[s]
    BY <1>1, <1>6 DEF Advanced
  <2>2. operation \notin DOMAIN Moves
    BY <1>6, MovesShape DEF Amendments
  <2>3. Tie(operation, associations[s][task[t].other]) = associations[s][task[t].other]
    BY <1>6 DEF Tie
  <2>4. profiles' = profiles
    BY <1>1, <1>2, <2>1 DEF TypeOK
  <2>5. log' = log
    BY <1>1, <1>2, <2>2 DEF TypeOK
  <2>6. associations' = associations
    <3>1. /\ associations[s] \in [Identities -> Ties]
          /\ associations \in [Sellers -> [Identities -> Ties]]
      BY <1>1 DEF TypeOK
    <3>2. task[t].other \in Identities
      BY SavedAsRead
    <3> HIDE DEF operation
    <3>3. [associations[s] EXCEPT ![task[t].other] = associations[s][task[t].other]]
            = associations[s]
      BY <3>1, <3>2
    <3> QED BY <1>1, <1>2, <2>3, <3>1, <3>3
  <2> QED BY <1>3, <1>6, <2>4, <2>5, <2>6 DEF s
<1>7. CASE operation \in Amendments \ {"submitVerification", "revokeSellerAuthorization"}
  <2>1. operation \notin DOMAIN Moves /\ operation # "requestSellerProfileCreation"
    BY <1>7, MovesShape
  <2>2. Advanced(t) = [state |-> profiles[s].state, version |-> profiles[s].version + 1]
    BY <1>1, <1>7, <2>1 DEF Advanced
  <2> QED BY <1>1, <1>3, <1>4, <1>5, <1>7, <2>1, <2>2 DEF s
<1>8. CASE operation \in DOMAIN Moves
  <2>1. operation \notin {"submitVerification", "revokeSellerAuthorization"}
    BY <1>8, MovesShape DEF Amendments
  <2>2. Advanced(t) = [state |-> Moves[operation], version |-> profiles[s].version + 1]
    BY <1>1, <1>8, <2>1 DEF Advanced
  <2> QED BY <1>3, <1>4, <1>5, <1>8, <2>2 DEF s
<1> QED
  BY <1>1, <1>6, <1>7, <1>8

\* Only a save changes the tables of a seller.
LEMMA OnlySaves ==
  ASSUME [Next]_vars
  PROVE  \/ UNCHANGED <<profiles, associations, log>>
         \/ \E t \in Calls : Save(t)
  BY DEF Next, vars, OwnerCalls, AdminCalls, Continue, Start, RequestSellerProfileCreation,
    SubmitOnboarding, ResubmitOnboarding, AmendProfile, AddMember, RemoveMember,
    SubmitVerification, ClaimReview, RequestCorrections, DecideReview, ActivateApprovedSeller,
    SuspendSeller, ReactivateSeller, RevokeSellerAuthorization, AssignSellerRole,
    RevokeSellerRole, SaveFails, Compensate, Drop, VerificationsDecided

\* As long as the version is the same, so are the profile, its ties and its log.
LEMMA RowSteps ==
  ASSUME TypeOK, SeenInv, [Next]_vars, NEW s \in Sellers
  PROVE  \/ /\ profiles'[s] = profiles[s]
            /\ associations'[s] = associations[s]
            /\ log'[s] = log[s]
         \/ profiles'[s].version = profiles[s].version + 1
<1>1. CASE UNCHANGED <<profiles, associations, log>>
  BY <1>1
<1>2. ASSUME NEW t \in Calls, Save(t)
      PROVE  \/ /\ profiles'[s] = profiles[s]
                /\ associations'[s] = associations[s]
                /\ log'[s] = log[s]
             \/ profiles'[s].version = profiles[s].version + 1
  <2>1. CASE s # task[t].seller
    BY <1>2, <2>1, SaveSteps
  <2>2. CASE s = task[t].seller
    <3>1. \/ UNCHANGED <<profiles, associations, log>>
          \/ \E state : profiles'[s] = [state |-> state, version |-> profiles[s].version + 1]
      BY <1>2, <2>2, SaveSteps
    <3>2. CASE UNCHANGED <<profiles, associations, log>>
      BY <3>2
    <3>3. ASSUME NEW state,
                 profiles'[s] = [state |-> state, version |-> profiles[s].version + 1]
          PROVE  profiles'[s].version = profiles[s].version + 1
      BY <3>3
    <3> QED BY <3>1, <3>2, <3>3
  <2> QED BY <2>1, <2>2
<1> QED
  BY <1>1, <1>2, OnlySaves

\* A call that has just read its seller.
Started(x) ==
  /\ x \in Tasks
  /\ x.seen = profiles[x.seller]
  /\ Checked(x)
  /\ (x.operation = "requestSellerProfileCreation") <=> (x.seen = NoProfile)

\* Every read leaves a call that has checked what it is going to do.
LEMMA Reads ==
  ASSUME TypeOK, TiesInv, NEW t \in Calls, NEW s \in Sellers, NEW a \in Identities,
         OwnerCalls(t, s, a) \/ AdminCalls(t, s, a)
  PROVE  \E x : /\ Started(x)
                /\ task' = [task EXCEPT ![t] = x]
                /\ UNCHANGED <<profiles, associations, compliance, log, sellerRole>>
<1> DEFINE x(operation, other, next) ==
      [pc |-> next, operation |-> operation, seller |-> s, actor |-> a, other |-> other,
       seen |-> profiles[s]]
<1> DEFINE Ok == \E y : /\ Started(y)
                         /\ task' = [task EXCEPT ![t] = y]
                         /\ UNCHANGED <<profiles, associations, compliance, log, sellerRole>>
<1>1. ASSUME NEW operation \in DOMAIN Moves \cup Amendments, NEW other \in Identities,
             NEW next \in {"module02", "save"}, Start(t, operation, s, a, other, next),
             operation \in {"claimReview", "approve", "reject"} => ~Associated(s, a),
             operation \in {"approve", "reject"} =>
               \E review \in LatestReview(s) : review.actor # a,
             (operation = "requestSellerProfileCreation") <=> (profiles[s] = NoProfile)
      PROVE  Ok
  <2>1. profiles[s] \in {NoProfile} \cup ProfileRows
    BY DEF TypeOK
  <2>2. x(operation, other, next) \in Tasks
    BY <1>1, <2>1 DEF Tasks
  <2>3. Checked(x(operation, other, next))
    BY <1>1 DEF Checked
  <2>4. Started(x(operation, other, next))
    BY <1>1, <2>2, <2>3 DEF Started
  <2>5. /\ task' = [task EXCEPT ![t] = x(operation, other, next)]
        /\ UNCHANGED <<profiles, associations, compliance, log, sellerRole>>
    BY <1>1 DEF Start
  <2> HIDE DEF x
  <2> QED BY <2>4, <2>5
<1>2. /\ \A i \in Identities : IsOwner(s, i) => profiles[s] # NoProfile
      /\ profiles[s].state # "NONE" => profiles[s] # NoProfile
  BY DEF TiesInv, IsOwner, NoProfile
<1>3. CASE RequestSellerProfileCreation(t, s, a)
  BY <1>1, <1>3, MovesShape DEF RequestSellerProfileCreation
<1>4. CASE SubmitOnboarding(t, s, a) \/ ResubmitOnboarding(t, s, a)
  BY <1>1, <1>2, <1>4, MovesShape DEF SubmitOnboarding, ResubmitOnboarding
<1>5. CASE AmendProfile(t, s, a) \/ SubmitVerification(t, s, a)
  BY <1>1, <1>2, <1>5 DEF AmendProfile, SubmitVerification, Amendments
<1>6. ASSUME NEW m \in Identities, AddMember(t, s, a, m) \/ RemoveMember(t, s, a, m)
      PROVE  Ok
  BY <1>1, <1>2, <1>6 DEF AddMember, RemoveMember, Amendments
<1>7. CASE ClaimReview(t, s, a) \/ RequestCorrections(t, s, a)
  BY <1>1, <1>2, <1>7, MovesShape DEF ClaimReview, RequestCorrections
<1>8. CASE DecideReview(t, s, a)
  BY <1>1, <1>2, <1>8, MovesShape DEF DecideReview
<1>9. CASE \/ ActivateApprovedSeller(t, s, a)
           \/ SuspendSeller(t, s, a)
           \/ ReactivateSeller(t, s, a)
  BY <1>1, <1>2, <1>9, MovesShape
  DEF ActivateApprovedSeller, SuspendSeller, ReactivateSeller
<1>10. CASE RevokeSellerAuthorization(t, s, a)
  BY <1>1, <1>10 DEF RevokeSellerAuthorization, Amendments
<1> QED
  BY <1>3, <1>4, <1>5, <1>6, <1>7, <1>8, <1>9, <1>10 DEF OwnerCalls, AdminCalls

\* What a call is doing after a step: it goes on, or it has just read a seller.
LEMMA TaskSteps ==
  ASSUME TypeOK, TiesInv, [Next]_vars, NEW t \in Calls
  PROVE  \/ task'[t] = task[t]
         \/ task'[t] = Idle
         \/ /\ task[t].pc # "idle"
            /\ UNCHANGED <<profiles, associations, log>>
            /\ \E pc \in {"save", "compensate"} : task'[t] = [task[t] EXCEPT !.pc = pc]
         \/ /\ Started(task'[t])
            /\ UNCHANGED <<profiles, associations, log>>
<1> DEFINE Ok ==
      \/ task'[t] = task[t]
      \/ task'[t] = Idle
      \/ /\ task[t].pc # "idle"
         /\ UNCHANGED <<profiles, associations, log>>
         /\ \E pc \in {"save", "compensate"} : task'[t] = [task[t] EXCEPT !.pc = pc]
      \/ /\ Started(task'[t])
         /\ UNCHANGED <<profiles, associations, log>>
<1>1. ASSUME NEW u \in Calls, NEW x, task' = [task EXCEPT ![u] = x]
      PROVE  task'[t] = IF u = t THEN x ELSE task[t]
  BY <1>1 DEF TypeOK
<1>2. ASSUME NEW u \in Calls, NEW s \in Sellers, NEW a \in Identities,
             OwnerCalls(u, s, a) \/ AdminCalls(u, s, a)
      PROVE  Ok
  <2>1. PICK x : /\ Started(x)
                 /\ task' = [task EXCEPT ![u] = x]
                 /\ UNCHANGED <<profiles, associations, compliance, log, sellerRole>>
    BY <1>2, Reads
  <2>2. CASE u = t
    <3>1. task'[t] = x
      BY <1>1, <2>1, <2>2
    <3> QED BY <2>1, <3>1
  <2>3. CASE u # t
    BY <1>1, <2>1, <2>3
  <2> QED BY <2>2, <2>3
<1>3. ASSUME NEW u \in Calls, Save(u) \/ Compensate(u) \/ Drop(u)
      PROVE  Ok
  BY <1>1, <1>3 DEF Save, Compensate, Drop
<1>4. ASSUME NEW u \in Calls, AssignSellerRole(u) \/ RevokeSellerRole(u) \/ SaveFails(u)
      PROVE  Ok
  <2>1. PICK pc \in {"save", "compensate"} : task' = [task EXCEPT ![u].pc = pc]
    BY <1>4 DEF AssignSellerRole, RevokeSellerRole, SaveFails
  <2>2. UNCHANGED <<profiles, associations, log>> /\ task[u].pc # "idle"
    BY <1>4 DEF AssignSellerRole, RevokeSellerRole, SaveFails
  <2>3. task' = [task EXCEPT ![u] = [task[u] EXCEPT !.pc = pc]]
    BY <2>1
  <2>4. CASE u = t
    BY <1>1, <2>2, <2>3, <2>4
  <2>5. CASE u # t
    BY <1>1, <2>3, <2>5
  <2> QED BY <2>4, <2>5
<1>5. CASE task' = task
  BY <1>5
<1> QED
  BY <1>2, <1>3, <1>4, <1>5 DEF Next, vars, Continue, VerificationsDecided

-------------------------------------------------------------------------------
(* The parts of the invariant.                                                *)

LEMMA NextTypeOK ==
  ASSUME TypeOK, SeenInv, TiesInv, [Next]_vars
  PROVE  TypeOK'
<1>1. task' \in [Calls -> {Idle} \cup Tasks]
  <2>1. task' = [t \in Calls |-> task'[t]]
    <3>1. ASSUME NEW t \in Calls, \E x : task' = [task EXCEPT ![t] = x]
          PROVE  task' = [u \in Calls |-> task'[u]]
      BY <3>1 DEF TypeOK
    <3>2. ASSUME NEW t \in Calls, Continue(t)
          PROVE  \E x : task' = [task EXCEPT ![t] = x]
      BY <3>2 DEF Continue, AssignSellerRole, RevokeSellerRole, Save, SaveFails, Compensate, Drop
    <3>3. CASE task' = task
      BY <3>3 DEF TypeOK
    <3> QED BY <3>1, <3>2, <3>3, Reads DEF Next, vars, VerificationsDecided
  <2>2. ASSUME NEW t \in Calls
        PROVE  task'[t] \in {Idle} \cup Tasks
    <3>1. task[t] \in {Idle} \cup Tasks
      BY DEF TypeOK
    <3>2. ASSUME NEW pc \in {"save", "compensate"}, task[t].pc # "idle"
          PROVE  [task[t] EXCEPT !.pc = pc] \in Tasks
      <4>1. task[t] \in Tasks
        BY <3>1, <3>2, TaskShapes
      <4> QED BY <3>2, <4>1, NextPc
    <3> QED BY <3>1, <3>2, TaskSteps DEF Started
  <2> QED BY <2>1, <2>2
<1>2. ASSUME NEW t \in Calls, Save(t)
      PROVE  /\ profiles' \in [Sellers -> {NoProfile} \cup ProfileRows]
             /\ associations' \in [Sellers -> [Identities -> Ties]]
             /\ compliance' \in [Sellers -> ComplianceStates]
             /\ log' \in [Sellers -> SUBSET Episodes]
             /\ sellerRole' = sellerRole
  <2> DEFINE s == task[t].seller
  <2> DEFINE operation == task[t].operation
  <2>1. /\ s \in Sellers
        /\ task[t].seen = profiles[s]
        /\ operation \in DOMAIN Moves \cup Amendments
        /\ task[t].actor \in Identities
        /\ task[t].other \in Identities
    BY <1>2, SavedAsRead
  <2>2. /\ profiles[s] \in {NoProfile} \cup ProfileRows
        /\ profiles[s].version \in Nat
        /\ profiles[s].state \in SellerStates \cup {"NONE"}
        /\ profiles[s] # NoProfile => profiles[s].state \in SellerStates
    BY <2>1 DEF TypeOK, NoProfile, ProfileRows
  <2>3. profiles' = [profiles EXCEPT ![s] = Advanced(t)]
    BY <1>2 DEF Save
  <2>4. profiles'[s] \in {NoProfile} \cup ProfileRows
    <3>1. CASE profiles' = profiles
      BY <2>2, <3>1
    <3>2. ASSUME NEW state \in SellerStates,
                 profiles'[s] = [state |-> state, version |-> profiles[s].version + 1]
          PROVE  profiles'[s] \in ProfileRows
      BY <2>2, <3>2 DEF ProfileRows
    <3>3. CASE operation \in Amendments /\ profiles' # profiles
      <4>1. /\ profiles[s] # NoProfile
            /\ profiles'[s] = [state |-> profiles[s].state, version |-> profiles[s].version + 1]
        BY <1>2, <3>3, SaveSteps, MovesShape
      <4> QED BY <2>2, <3>2, <4>1
    <3>4. CASE operation \in DOMAIN Moves
      <4>1. profiles'[s] = [state |-> Moves[operation], version |-> profiles[s].version + 1]
        BY <1>2, <3>4, SaveSteps, MovesShape DEF Amendments
      <4> QED BY <3>2, <3>4, <4>1, MovesShape
    <3> QED BY <2>1, <3>1, <3>3, <3>4
  <2>5. profiles' \in [Sellers -> {NoProfile} \cup ProfileRows]
    BY <2>1, <2>3, <2>4 DEF TypeOK
  <2>6. associations' \in [Sellers -> [Identities -> Ties]]
    <3>1. /\ associations' = [associations EXCEPT ![s][task[t].other] =
               Tie(operation, associations[s][task[t].other])]
          /\ Tie(operation, associations[s][task[t].other]) \in Ties
      BY <1>2, <2>1 DEF Save, Tie, Ties, TypeOK
    <3> HIDE DEF s, operation
    <3> QED BY <2>1, <3>1 DEF TypeOK
  <2>7. compliance' \in [Sellers -> ComplianceStates]
    BY <1>2, <2>1 DEF Save, TypeOK, ComplianceStates
  <2>8. log' \in [Sellers -> SUBSET Episodes]
    <3>1. operation \in DOMAIN Moves => Episode(t) \in Episodes
      BY <2>1, <2>2, MovesShape DEF Episode, Episodes
    <3>2. log' = [log EXCEPT ![s] =
                    IF operation \in DOMAIN Moves THEN log[s] \cup {Episode(t)} ELSE log[s]]
      BY <1>2 DEF Save
    <3> HIDE DEF s, operation
    <3> QED BY <2>1, <3>1, <3>2 DEF TypeOK
  <2> QED BY <1>2, <2>5, <2>6, <2>7, <2>8 DEF Save
<1>3. ASSUME NEW t \in Calls, AssignSellerRole(t) \/ RevokeSellerRole(t) \/ Compensate(t)
      PROVE  sellerRole' \in [Identities -> RoleStates]
  BY <1>3 DEF AssignSellerRole, RevokeSellerRole, Compensate, GrantRole, RevokeRole, RoleStates,
    TypeOK
<1>4. \/ UNCHANGED <<profiles, associations, log>>
      \/ \E t \in Calls : Save(t)
  BY OnlySaves
<1>5. compliance' \in [Sellers -> ComplianceStates]
  <2>1. ASSUME NEW s \in Sellers, VerificationsDecided(s)
        PROVE  compliance' \in [Sellers -> ComplianceStates]
    BY <2>1 DEF VerificationsDecided, TypeOK, ComplianceStates
  <2>2. CASE compliance' = compliance
    BY <2>2 DEF TypeOK
  <2> QED BY <1>2, <2>1, <2>2, Reads DEF Next, vars, Continue, AssignSellerRole,
        RevokeSellerRole, SaveFails, Compensate, Drop
<1>6. sellerRole' \in [Identities -> RoleStates]
  <2>1. CASE sellerRole' = sellerRole
    BY <2>1 DEF TypeOK
  <2> QED BY <1>2, <1>3, <2>1, Reads DEF Next, vars, Continue, SaveFails, Drop,
        VerificationsDecided
<1> QED
  BY <1>1, <1>2, <1>4, <1>5, <1>6 DEF TypeOK

LEMMA NextSeenInv ==
  ASSUME TypeOK, TypeOK', SeenInv, TiesInv, [Next]_vars
  PROVE  SeenInv'
<1> SUFFICES ASSUME NEW t \in Calls
             PROVE  Fits(task[t])'
  BY DEF SeenInv
<1>0. ASSUME NEW x \in {Idle} \cup Tasks, Fits(x)
      PROVE  Fits(x)'
  <2>1. SUFFICES ASSUME x.pc # "idle"
                 PROVE  /\ x.seen.version <= profiles'[x.seller].version
                        /\ x.seen.version = profiles'[x.seller].version =>
                             x.seen = profiles'[x.seller] /\ Checked(x)'
    BY <1>0 DEF Fits
  <2>2. x.seller \in Sellers /\ x.seen.version \in Nat /\ profiles[x.seller].version \in Nat
    BY <2>1, TaskShapes, Versions
  <2>3. CASE /\ profiles'[x.seller] = profiles[x.seller]
             /\ associations'[x.seller] = associations[x.seller]
             /\ log'[x.seller] = log[x.seller]
    BY <1>0, <2>1, <2>3 DEF Fits, Checked, Associated, LatestReview, Reviews
  <2>4. CASE profiles'[x.seller].version = profiles[x.seller].version + 1
    BY <1>0, <2>1, <2>2, <2>4 DEF Fits
  <2> QED BY <2>2, <2>3, <2>4, RowSteps
<1>1. task[t] \in {Idle} \cup Tasks /\ Fits(task[t])
  BY DEF TypeOK, SeenInv
<1>2. CASE task'[t] = task[t]
  <2>1. PICK x \in {Idle} \cup Tasks : x = task[t]
    BY <1>1
  <2>2. Fits(x)' /\ task'[t] = x
    BY <1>0, <1>1, <1>2, <2>1
  <2> QED BY <2>2 DEF Fits, Checked
<1>3. CASE task'[t] = Idle
  BY <1>3 DEF Fits, Idle
<1>4. CASE /\ task[t].pc # "idle"
           /\ UNCHANGED <<profiles, associations, log>>
           /\ \E pc \in {"save", "compensate"} : task'[t] = [task[t] EXCEPT !.pc = pc]
  <2>1. task[t] \in Tasks
    BY <1>1, <1>4, TaskShapes
  <2>2. /\ task'[t].operation = task[t].operation
        /\ task'[t].seller = task[t].seller
        /\ task'[t].actor = task[t].actor
        /\ task'[t].seen = task[t].seen
    BY <1>4, <2>1, NextPc
  <2>3. Checked(task[t])' <=> Checked(task[t])
    BY <1>4, <2>2 DEF Checked, Associated, LatestReview, Reviews
  <2> QED BY <1>1, <1>4, <2>2, <2>3 DEF Fits
<1>5. CASE Started(task'[t]) /\ UNCHANGED <<profiles, associations, log>>
  <2>1. /\ task'[t] \in Tasks
        /\ task'[t].seen = profiles'[task'[t].seller]
        /\ (task'[t].operation = "requestSellerProfileCreation") <=> (task'[t].seen = NoProfile)
    BY <1>5 DEF Started
  <2>2. Checked(task[t])'
    BY <1>5 DEF Started, Checked, Associated, LatestReview, Reviews
  <2>3. task'[t].seller \in Sellers
    BY <2>1 DEF Tasks
  <2>4. profiles'[task'[t].seller].version \in Nat
    BY <2>3 DEF TypeOK, NoProfile, ProfileRows
  <2> QED BY <2>1, <2>2, <2>4 DEF Fits
<1> QED
  BY <1>2, <1>3, <1>4, <1>5, TaskSteps

LEMMA NextTiesInv ==
  ASSUME TypeOK, SeenInv, TiesInv, [Next]_vars
  PROVE  TiesInv'
<1> SUFFICES ASSUME NEW s \in Sellers, NEW i \in Identities, associations'[s][i] # "NONE"
             PROVE  profiles'[s] # NoProfile
  BY DEF TiesInv
<1>1. CASE profiles'[s] = profiles[s] /\ associations'[s] = associations[s]
  BY <1>1 DEF TiesInv
<1>2. CASE profiles'[s].version = profiles[s].version + 1
  BY <1>2, Versions DEF NoProfile
<1> QED
  BY <1>1, <1>2, RowSteps

-------------------------------------------------------------------------------
(* The log.                                                                   *)

\* The parts of the properties that are about one seller.
TellsTheLife(s) ==
  \A e \in log[s] :
    /\ \A other \in log[s] : other.version = e.version => other = e
    /\ e.from = "NONE" \/ \E before \in log[s] :
         before.to = e.from /\ before.version < e.version /\ Between(s, before, e) = {}
    /\ (\A other \in log[s] : other.version <= e.version) => profiles[s].state = e.to

Ends(s) ==
  /\ \A e \in log[s] : e.version <= profiles[s].version
  /\ profiles[s] # NoProfile =>
       \E last \in log[s] :
         /\ \A e \in log[s] : e.version <= last.version
         /\ last.to = profiles[s].state

Separated(s) ==
  \A review, decision \in log[s] :
    (/\ review.to = "UNDER_REVIEW"
     /\ decision.to \in {"APPROVED", "REJECTED"}
     /\ review.version < decision.version
     /\ Between(s, review, decision) = {})
    => review.actor # decision.actor

LEMMA OfOneSeller ==
  /\ LogTellsTheLife <=> \A s \in Sellers : TellsTheLife(s)
  /\ LogInv <=> \A s \in Sellers : Ends(s)
  /\ DecisionsAreSeparated <=> \A s \in Sellers : Separated(s)
  BY DEF LogTellsTheLife, TellsTheLife, LogInv, Ends, DecisionsAreSeparated, Separated

\* A seller whose state and log stay: only its version may grow.
LEMMA Amended ==
  ASSUME TypeOK, NEW s \in Sellers, Ends(s), TellsTheLife(s), Separated(s),
         log'[s] = log[s],
         profiles'[s].state = profiles[s].state,
         profiles'[s].version \in {profiles[s].version, profiles[s].version + 1},
         profiles[s] = NoProfile => profiles'[s] = NoProfile
  PROVE  Ends(s)' /\ TellsTheLife(s)' /\ Separated(s)'
<1>1. \A e \in log[s] : e.version \in Nat
  BY Versions
<1>2. profiles[s].version \in Nat
  BY Versions
<1>3. \A e \in log[s] : e.version <= profiles'[s].version
  BY <1>1, <1>2 DEF Ends
<1>4. Ends(s)'
  BY <1>3 DEF Ends
<1>5. \A e, f \in log[s] : Between(s, e, f)' = Between(s, e, f)
  BY DEF Between
<1>6. TellsTheLife(s)'
  <2>1. ASSUME NEW e \in log[s]
        PROVE  /\ \A other \in log'[s] : other.version = e.version => other = e
               /\ e.from = "NONE" \/ \E before \in log'[s] :
                    before.to = e.from /\ before.version < e.version /\ Between(s, before, e)' = {}
               /\ (\A other \in log'[s] : other.version <= e.version) => profiles'[s].state = e.to
    <3>1. e.from = "NONE" \/ \E before \in log[s] :
            before.to = e.from /\ before.version < e.version /\ Between(s, before, e) = {}
      BY DEF TellsTheLife
    <3>2. e.from = "NONE" \/ \E before \in log'[s] :
            before.to = e.from /\ before.version < e.version /\ Between(s, before, e)' = {}
      BY <1>5, <3>1
    <3> QED BY <3>2 DEF TellsTheLife
  <2> QED BY <2>1 DEF TellsTheLife
<1>7. Separated(s)'
  BY <1>5 DEF Separated
<1> QED
  BY <1>4, <1>6, <1>7

\* A seller that moves: its new episode is younger than all the others.
LEMMA MovedSeller ==
  ASSUME TypeOK, SeenInv, NEW t \in Calls, Save(t),
         task[t].operation \in DOMAIN Moves,
         NEW s \in Sellers, s = task[t].seller,
         Ends(s), TellsTheLife(s), Separated(s)
  PROVE  Ends(s)' /\ TellsTheLife(s)' /\ Separated(s)'
<1> DEFINE v == profiles[s].version
<1> DEFINE operation == task[t].operation
<1>n. PICK new : new = Episode(t)
  OBVIOUS
<1>1. /\ task[t].seen = profiles[s]
      /\ Checked(task[t])
      /\ (operation = "requestSellerProfileCreation") <=> (profiles[s] = NoProfile)
  BY SavedAsRead
<1>2. /\ profiles'[s] = [state |-> Moves[operation], version |-> v + 1]
      /\ log'[s] = log[s] \cup {new}
  BY <1>n, SaveSteps, MovesShape DEF Amendments
<1>3. /\ v \in Nat
      /\ \A e \in log[s] : e.version \in Nat /\ e.version <= v
      /\ profiles[s] = NoProfile => profiles[s].state = "NONE" /\ v = 0
  BY Versions DEF Ends, NoProfile
<1>4. /\ new.from = profiles[s].state
      /\ new.to = Moves[operation]
      /\ new.version = v + 1
      /\ new.actor = IF operation = "activateApprovedSeller" THEN "SYSTEM" ELSE task[t].actor
  BY <1>1, <1>n DEF Episode
<1>5. profiles'[s].state = new.to /\ profiles'[s].version = v + 1
  BY <1>2, <1>4
<1>6. /\ operation \in {"approve", "reject"} =>
           \E review \in LatestReview(s) : review.actor # task[t].actor
      /\ new.to \in {"APPROVED", "REJECTED"} =>
           operation \in {"approve", "reject"} /\ new.actor = task[t].actor
  BY <1>1, <1>4, MovesShape DEF Checked
<1> HIDE DEF v, operation
<1>7. \A e \in log[s] : e.version < new.version /\ e # new
  BY <1>3, <1>4
<1>8. \A e, f \in log[s] : Between(s, e, f)' = Between(s, e, f)
  BY <1>2, <1>3, <1>4, <1>7 DEF Between
<1>9. Ends(s)'
  <2>1. \A e \in log'[s] : e.version <= profiles'[s].version /\ e.version <= new.version
    BY <1>2, <1>3, <1>4, <1>5
  <2> QED BY <1>2, <1>5, <2>1 DEF Ends
<1>10. TellsTheLife(s)'
  <2>1. ASSUME NEW e \in log[s]
        PROVE  /\ \A other \in log'[s] : other.version = e.version => other = e
               /\ e.from = "NONE" \/ \E before \in log'[s] :
                    before.to = e.from /\ before.version < e.version /\ Between(s, before, e)' = {}
               /\ ~(\A other \in log'[s] : other.version <= e.version)
    <3>1. \A other \in log'[s] : other.version = e.version => other = e
      BY <1>2, <1>3, <1>4 DEF TellsTheLife
    <3>2. e.from = "NONE" \/ \E before \in log[s] :
            before.to = e.from /\ before.version < e.version /\ Between(s, before, e) = {}
      BY DEF TellsTheLife
    <3>3. e.from = "NONE" \/ \E before \in log'[s] :
            before.to = e.from /\ before.version < e.version /\ Between(s, before, e)' = {}
      BY <1>2, <1>8, <3>2
    <3>4. ~(\A other \in log'[s] : other.version <= e.version)
      BY <1>2, <1>3, <1>4
    <3> QED BY <3>1, <3>3, <3>4
  <2>2. \A other \in log'[s] : other.version = new.version => other = new
    BY <1>2, <1>7, <1>3
  <2>3. new.from = "NONE" \/ \E before \in log'[s] :
          before.to = new.from /\ before.version < new.version /\ Between(s, before, new)' = {}
    <3>1. CASE profiles[s] = NoProfile
      BY <1>3, <1>4, <3>1
    <3>2. CASE profiles[s] # NoProfile
      <4>1. PICK last \in log[s] :
              /\ \A e \in log[s] : e.version <= last.version
              /\ last.to = profiles[s].state
        BY <3>2 DEF Ends
      <4>2. \A e \in log'[s] : ~(last.version < e.version /\ e.version < new.version)
        BY <1>2, <1>3, <1>4, <4>1
      <4>3. Between(s, last, new)' = {}
        BY <4>2 DEF Between
      <4> QED BY <1>2, <1>4, <1>7, <4>1, <4>3
    <3> QED BY <3>1, <3>2
  <2>4. ASSUME NEW e \in log'[s]
        PROVE  /\ \A other \in log'[s] : other.version = e.version => other = e
               /\ e.from = "NONE" \/ \E before \in log'[s] :
                    before.to = e.from /\ before.version < e.version /\ Between(s, before, e)' = {}
               /\ (\A other \in log'[s] : other.version <= e.version) => profiles'[s].state = e.to
    <3>1. CASE e \in log[s]
      BY <2>1, <3>1
    <3>2. CASE e = new
      BY <1>5, <2>2, <2>3, <3>2
    <3> QED BY <1>2, <3>1, <3>2
  <2> QED BY <2>4 DEF TellsTheLife
<1>11. Separated(s)'
  <2> SUFFICES ASSUME NEW review \in log'[s], NEW decision \in log'[s],
                      review.to = "UNDER_REVIEW",
                      decision.to \in {"APPROVED", "REJECTED"},
                      review.version < decision.version,
                      Between(s, review, decision)' = {}
               PROVE  review.actor # decision.actor
    BY DEF Separated
  <2>1. CASE review \in log[s] /\ decision \in log[s]
    BY <1>8, <2>1 DEF Separated
  <2>2. CASE review = new
    BY <1>2, <1>3, <1>4, <2>2
  <2>3. CASE review \in log[s] /\ decision = new
    <3>1. \A e \in log[s] : e.version <= review.version
      BY <1>2, <1>3, <1>7, <2>3 DEF Between
    <3>2. PICK latest \in LatestReview(s) : latest.actor # task[t].actor
      BY <1>6, <2>3
    <3>3. /\ latest \in log[s]
          /\ \A other \in Reviews(s) : other.version <= latest.version
          /\ review \in Reviews(s)
      BY <2>3, <3>2 DEF LatestReview, Reviews
    <3>4. latest.version = review.version
      BY <1>3, <2>3, <3>1, <3>3
    <3>5. latest = review
      BY <2>3, <3>3, <3>4 DEF TellsTheLife
    <3> QED BY <1>6, <2>3, <3>2, <3>5
  <2> QED BY <1>2, <2>1, <2>2, <2>3
<1> QED
  BY <1>9, <1>10, <1>11

LEMMA NextLog ==
  ASSUME TypeOK, SeenInv, LogInv, LogTellsTheLife, DecisionsAreSeparated, [Next]_vars
  PROVE  LogInv' /\ LogTellsTheLife' /\ DecisionsAreSeparated'
<1> SUFFICES ASSUME NEW s \in Sellers
             PROVE  Ends(s)' /\ TellsTheLife(s)' /\ Separated(s)'
  <2>1. /\ LogTellsTheLife' <=> \A s \in Sellers : TellsTheLife(s)'
        /\ LogInv' <=> \A s \in Sellers : Ends(s)'
        /\ DecisionsAreSeparated' <=> \A s \in Sellers : Separated(s)'
    BY DEF LogTellsTheLife, TellsTheLife, LogInv, Ends, DecisionsAreSeparated, Separated
  <2> QED BY <2>1
<1>0. Ends(s) /\ TellsTheLife(s) /\ Separated(s)
  BY OfOneSeller
<1>1. CASE profiles'[s] = profiles[s] /\ log'[s] = log[s]
  BY <1>0, <1>1, Amended
<1>2. ASSUME NEW t \in Calls, Save(t), s = task[t].seller
      PROVE  Ends(s)' /\ TellsTheLife(s)' /\ Separated(s)'
  <2>1. CASE task[t].operation \in DOMAIN Moves
    BY <1>0, <1>2, <2>1, MovedSeller
  <2>2. CASE task[t].operation \in Amendments /\ profiles' # profiles
    <3>1. /\ profiles[s] # NoProfile
          /\ profiles'[s] = [state |-> profiles[s].state, version |-> profiles[s].version + 1]
          /\ log'[s] = log[s]
      BY <1>2, <2>2, SaveSteps, MovesShape
    <3>2. /\ profiles'[s].state = profiles[s].state
          /\ profiles'[s].version = profiles[s].version + 1
      BY <3>1
    <3> QED BY <1>0, <3>1, <3>2, Amended
  <2>3. CASE task[t].operation \in Amendments /\ profiles' = profiles
    <3>1. log'[s] = log[s]
      BY <1>2, <2>3, SaveSteps, MovesShape, Versions
    <3> QED BY <1>1, <2>3, <3>1
  <2> QED BY <1>2, <2>1, <2>2, <2>3, SavedAsRead
<1>3. ASSUME NEW t \in Calls, Save(t), s # task[t].seller
      PROVE  profiles'[s] = profiles[s] /\ log'[s] = log[s]
  BY <1>3, SaveSteps
<1> QED
  BY <1>1, <1>2, <1>3, OnlySaves

\* The associations are those the service has checked when a decision is stored.
LEMMA DecisionSteps ==
  ASSUME TypeOK, SeenInv, [Next]_vars, NEW s \in Sellers, NEW e \in log'[s] \ log[s],
         e.to \in {"UNDER_REVIEW", "APPROVED", "REJECTED"}
  PROVE  ~Associated(s, e.actor)
<1>1. PICK t \in Calls : Save(t)
  BY OnlySaves
<1>2. task[t].seller = s
  BY <1>1, SaveSteps
<1>3. task[t].operation \in DOMAIN Moves /\ log'[s] = log[s] \cup {Episode(t)}
  BY <1>1, <1>2, SaveSteps, MovesShape
<1>4. e = Episode(t)
  BY <1>3
<1>5. /\ e.to = Moves[task[t].operation]
      /\ task[t].operation # "activateApprovedSeller" => e.actor = task[t].actor
  BY <1>4 DEF Episode
<1>6. task[t].operation \in {"claimReview", "approve", "reject"}
  BY <1>3, <1>5, MovesShape
<1>7. Checked(task[t])
  BY <1>1, SavedAsRead
<1> QED
  BY <1>2, <1>5, <1>6, <1>7 DEF Checked

-------------------------------------------------------------------------------
(* The inductive invariant and what follows from it.                          *)

LEMMA InitIInv == Init => IInv
<1> SUFFICES ASSUME Init PROVE IInv
  OBVIOUS
<1>1. TypeOK
  BY DEF Init, TypeOK, Ties, ComplianceStates, RoleStates
<1>2. SeenInv
  BY DEF Init, SeenInv, Fits, Idle
<1>3. TiesInv /\ LogInv
  BY DEF Init, TiesInv, LogInv
<1>4. LogTellsTheLife /\ DecisionsAreSeparated
  BY DEF Init, LogTellsTheLife, DecisionsAreSeparated
<1> QED
  BY <1>1, <1>2, <1>3, <1>4 DEF IInv

LEMMA NextIInv == IInv /\ [Next]_vars => IInv'
<1> SUFFICES ASSUME IInv, [Next]_vars PROVE IInv'
  OBVIOUS
<1> USE DEF IInv
<1>1. TypeOK'
  BY NextTypeOK
<1> QED
  BY <1>1, NextSeenInv, NextTiesInv, NextLog

\* Every reachable state satisfies the inductive invariant.
THEOREM SpecIInv == Spec => []IInv
  BY InitIInv, NextIInv, PTL DEF Spec

\* The tables and the calls keep their shapes (save and persistOwnedRecords of
\* the profile repository).
THEOREM SpecTypeOK == Spec => []TypeOK
<1>1. IInv => TypeOK
  BY DEF IInv
<1> QED
  BY <1>1, SpecIInv, PTL

\* Over any number of review cycles, who decides a review has not opened it
\* (decideReview, findTransitions).
THEOREM SpecDecisionsAreSeparated == Spec => []DecisionsAreSeparated
<1>1. IInv => DecisionsAreSeparated
  BY DEF IInv
<1> QED
  BY <1>1, SpecIInv, PTL

\* The log is a chain that ends in the state of the profile (transition and
\* updatedProfile of seller-lifecycle.ts, save).
THEOREM SpecLogTellsTheLife == Spec => []LogTellsTheLife
<1>1. IInv => LogTellsTheLife
  BY DEF IInv
<1> QED
  BY <1>1, SpecIInv, PTL

\* Nobody tied to a seller opens or decides its review, even when the tie is made
\* while the decision is under way (addMember, claimReview, decideReview).
THEOREM SpecDecidersAreOutsiders == Spec => DecidersAreOutsiders
<1> DEFINE A == \A s \in Sellers : \A e \in log'[s] \ log[s] :
             e.to \in {"UNDER_REVIEW", "APPROVED", "REJECTED"} => ~Associated(s, e.actor)
<1>1. IInv /\ [Next]_vars => [A]_vars
  BY DecisionSteps DEF IInv
<1> QED
  BY <1>1, SpecIInv, PTL DEF Spec, DecidersAreOutsiders
===============================================================================
