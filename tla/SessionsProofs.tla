---------------------------- MODULE SessionsProofs -----------------------------
(***************************************************************************)
(* Proofs about Sessions for any number of sessions, tokens, challenges and *)
(* calls: the shapes, that the tokens of a session form a chain, that what  *)
(* was revoked stays revoked, and that one confirmed challenge sets one     *)
(* password.                                                                *)
(***************************************************************************)
EXTENDS Sessions, FiniteSetTheorems, TLAPS

\* A session and its family end together.
Paired == families = sessions

\* A challenge that is open has attempts left; one that is not issued has all.
AttemptsLeft ==
  \A c \in Challenges :
    /\ challenges[c].state = "CHALLENGE_ISSUED" => challenges[c].attempts < MaxAttempts
    /\ challenges[c].state = "NONE" => challenges[c].attempts = 0

\* A call that is about to replace the password is the only one its challenge
\* admitted, and the challenge has set no password yet.
OneReplacement ==
  /\ \A t \in Calls : task[t].pc = "replace" =>
       /\ challenges[task[t].challenge].state = "VERIFIED"
       /\ \A r \in resets : r.challenge # task[t].challenge
  /\ \A t, u \in Calls :
       (/\ task[t].pc = "replace"
        /\ task[u].pc = "replace"
        /\ task[t].challenge = task[u].challenge) => t = u
  /\ OneResetPerChallenge

LEMMA TaskShapes ==
  ASSUME NEW x \in {Idle} \cup Tasks
  PROVE  /\ x = Idle <=> x.pc = "idle"
         /\ x.pc \in {"rotate", "reuse"} => x.token \in Tokens
         /\ x.pc \in {"deliver", "identity", "confirm", "reject", "replace"} =>
              x.challenge \in Challenges
         /\ x.pc \in {"identity", "confirm", "reject", "replace"} =>
              x.attempts \in 0..MaxAttempts
         /\ x.pc \in {"confirm", "reject", "replace"} => x.version \in Nat
         /\ x.pc = "change" => x.to \in IdentityStates /\ x.version \in Nat
  BY DEF Idle, Tasks

LEMMA GoOn ==
  ASSUME TypeOK, NEW t \in Calls, NEW x \in {Idle} \cup Tasks, Go(t, x)
  PROVE  /\ task' \in [Calls -> {Idle} \cup Tasks]
         /\ task'[t] = x
         /\ \A u \in Calls : u # t => task'[u] = task[u]
  BY DEF TypeOK, Go

LEMMA Ended ==
  ASSUME NEW rows \in [SessionIds -> Rows], NEW ended
  PROVE  /\ End(rows, ended) \in [SessionIds -> Rows]
         /\ \A s \in SessionIds : rows[s] = "REVOKED" => End(rows, ended)[s] = "REVOKED"
  BY DEF End, Rows

\* What the calls do next.
LEMMA NextTasks ==
  ASSUME TypeOK, NEW t \in Calls, Begin(t) \/ Continue(t)
  PROVE  \E x \in {Idle} \cup Tasks :
           /\ Go(t, x)
           /\ x.pc = "replace" =>
                ConfirmChallenge(t) /\ x = [task[t] EXCEPT !.pc = "replace"]
<1> DEFINE Ok == \E x \in {Idle} \cup Tasks :
             /\ Go(t, x)
             /\ x.pc = "replace" =>
                  ConfirmChallenge(t) /\ x = [task[t] EXCEPT !.pc = "replace"]
<1>i. Idle \in {Idle} \cup Tasks /\ Idle.pc # "replace"
  BY DEF Idle
<1>1. ASSUME Go(t, Idle) PROVE Ok
  BY <1>1, <1>i
<1>2. ASSUME NEW pc \in {"issue", "insertChallenge", "expire", "revoke"}, Go(t, [pc |-> pc])
      PROVE  Ok
  <2>1. [pc |-> pc] \in {Idle} \cup Tasks /\ [pc |-> pc].pc # "replace"
    BY DEF Tasks
  <2> QED BY <1>2, <2>1
<1>3. ASSUME NEW k \in Tokens, ReadToken(t, k) PROVE Ok
  <2>1. \A pc \in {"rotate", "reuse"} :
          /\ [pc |-> pc, token |-> k] \in {Idle} \cup Tasks
          /\ [pc |-> pc, token |-> k].pc # "replace"
    BY DEF Tasks
  <2> QED BY <1>3, <2>1 DEF ReadToken
<1>4. ASSUME NEW to \in IdentityStates, ReadForChange(t, to) PROVE Ok
  <2>1. /\ [pc |-> "change", to |-> to, version |-> identity.version] \in {Idle} \cup Tasks
        /\ [pc |-> "change", to |-> to, version |-> identity.version].pc # "replace"
    BY DEF Tasks, TypeOK
  <2> QED BY <1>4, <2>1 DEF ReadForChange
<1>5. ASSUME NEW c \in Challenges, ReadChallenge(t, c) PROVE Ok
  <2>1. challenges[c].attempts \in 0..MaxAttempts
    BY DEF TypeOK, ChallengeRows
  <2>2. /\ [pc |-> "identity", challenge |-> c, attempts |-> challenges[c].attempts]
             \in {Idle} \cup Tasks
        /\ [pc |-> "identity", challenge |-> c, attempts |-> challenges[c].attempts].pc # "replace"
    BY <2>1 DEF Tasks
  <2> QED BY <1>5, <2>2 DEF ReadChallenge
<1>6. ASSUME CompareEvidence(t) PROVE Ok
  <2>1. task[t].challenge \in Challenges /\ task[t].attempts \in 0..MaxAttempts
    BY <1>6, TaskShapes DEF CompareEvidence, TypeOK
  <2>2. PICK next \in {"confirm", "reject"} :
          Go(t, [pc |-> next, challenge |-> task[t].challenge,
                 attempts |-> task[t].attempts, version |-> identity.version])
    BY <1>6 DEF CompareEvidence
  <2> DEFINE x == [pc |-> next, challenge |-> task[t].challenge,
                   attempts |-> task[t].attempts, version |-> identity.version]
  <2>3. x \in {Idle} \cup Tasks /\ x.pc # "replace"
    BY <2>1 DEF Tasks, TypeOK
  <2> QED BY <2>2, <2>3
<1>7. ASSUME ConfirmChallenge(t) PROVE Ok
  <2>1. /\ task[t] \in [pc : {"confirm", "reject", "replace"}, challenge : Challenges,
                        attempts : 0..MaxAttempts, version : Nat]
    BY <1>7 DEF ConfirmChallenge, TypeOK, Tasks, Idle
  <2>2. [task[t] EXCEPT !.pc = "replace"] \in {Idle} \cup Tasks
    BY <2>1 DEF Tasks
  <2> QED BY <1>7, <2>2 DEF ConfirmChallenge
<1>8. CASE ChangeIdentityState(t)
  BY <1>1, <1>2, <1>8 DEF ChangeIdentityState
<1>9. ASSUME NEW c \in Challenges, InsertChallenge(t, c) PROVE Ok
  <2>1. /\ [pc |-> "deliver", challenge |-> c] \in {Idle} \cup Tasks
        /\ [pc |-> "deliver", challenge |-> c].pc # "replace"
    BY DEF Tasks
  <2> QED BY <1>9, <2>1 DEF InsertChallenge
<1> QED
  BY <1>1, <1>2, <1>3, <1>4, <1>5, <1>6, <1>7, <1>8, <1>9
  DEF Begin, Continue, ReadIdentity, RequestReset, IssueSession, Rotate, RevokeForReuse,
      RevokeAllSessionsForRecovery, DeliverOtp, RejectChallenge, ReplacePassword,
      ExpireChallenges, Drop

-------------------------------------------------------------------------------
(* What happens to the challenges.                                            *)

\* The rows keep their shape and their attempts; a VERIFIED challenge stays so.
LEMMA ChallengeSteps ==
  ASSUME TypeOK, AttemptsLeft, [Next]_vars
  PROVE  /\ challenges' \in [Challenges -> ChallengeRows]
         /\ AttemptsLeft'
         /\ \A c \in Challenges :
              challenges[c].state = "VERIFIED" => challenges'[c].state = "VERIFIED"
<1> USE AttemptsAssumption
<1> DEFINE Ok ==
      /\ challenges' \in [Challenges -> ChallengeRows]
      /\ AttemptsLeft'
      /\ \A c \in Challenges :
           challenges[c].state = "VERIFIED" => challenges'[c].state = "VERIFIED"
<1>1. ASSUME NEW c \in Challenges, NEW row \in ChallengeRows,
             challenges' = [challenges EXCEPT ![c] = row],
             challenges[c].state # "VERIFIED",
             row.state # "NONE",
             row.state = "CHALLENGE_ISSUED" => row.attempts < MaxAttempts
      PROVE  Ok
  <2>1. \A d \in Challenges : challenges'[d] = IF d = c THEN row ELSE challenges[d]
    BY <1>1 DEF TypeOK
  <2> QED BY <1>1, <2>1 DEF TypeOK, AttemptsLeft
<1>2. ASSUME NEW t \in Calls, RejectChallenge(t) \/ ConfirmChallenge(t)
      PROVE  Ok
  <2> DEFINE c == task[t].challenge
  <2> DEFINE n == task[t].attempts
  <2>1. c \in Challenges /\ n \in 0..MaxAttempts
    BY <1>2, TaskShapes DEF RejectChallenge, ConfirmChallenge, TypeOK
  <2>2. challenges[c].state = "CHALLENGE_ISSUED" /\ challenges[c].attempts = n
    BY <1>2 DEF RejectChallenge, ConfirmChallenge, Unchanged
  <2>3. n + 1 \in 0..MaxAttempts
    BY <2>1, <2>2 DEF AttemptsLeft
  <2>4. /\ [state |-> AfterRejection(n + 1), attempts |-> n + 1] \in ChallengeRows
        /\ AfterRejection(n + 1) = "CHALLENGE_ISSUED" => n + 1 < MaxAttempts
        /\ AfterRejection(n + 1) # "NONE"
        /\ [state |-> "VERIFIED", attempts |-> n + 1] \in ChallengeRows
    BY <2>3 DEF AfterRejection, ChallengeRows
  <2>5. CASE RejectChallenge(t)
    <3>1. challenges' = [challenges EXCEPT ![c] =
            [state |-> AfterRejection(n + 1), attempts |-> n + 1]]
      BY <2>5 DEF RejectChallenge
    <3> QED BY <1>1, <2>1, <2>2, <2>4, <3>1
  <2>6. CASE ConfirmChallenge(t)
    <3>1. challenges' = [challenges EXCEPT ![c] = [state |-> "VERIFIED", attempts |-> n + 1]]
      BY <2>6 DEF ConfirmChallenge
    <3> QED BY <1>1, <2>1, <2>2, <2>4, <3>1
  <2> QED BY <1>2, <2>5, <2>6
<1>3. ASSUME NEW t \in Calls, NEW c \in Challenges, InsertChallenge(t, c)
      PROVE  Ok
  <2>1. challenges[c].state = "NONE" /\ challenges[c].attempts = 0
    BY <1>3 DEF InsertChallenge, AttemptsLeft
  <2>2. /\ [challenges[c] EXCEPT !.state = "CHALLENGE_ISSUED"] =
             [state |-> "CHALLENGE_ISSUED", attempts |-> 0]
        /\ [state |-> "CHALLENGE_ISSUED", attempts |-> 0] \in ChallengeRows
    BY <2>1 DEF TypeOK, ChallengeRows
  <2>3. challenges' = [challenges EXCEPT ![c] = [state |-> "CHALLENGE_ISSUED", attempts |-> 0]]
    BY <1>3, <2>2 DEF InsertChallenge
  <2>4. 0 < MaxAttempts /\ challenges[c].state # "VERIFIED"
    BY <2>1
  <2> DEFINE row == [state |-> "CHALLENGE_ISSUED", attempts |-> 0]
  <2>5. row \in ChallengeRows /\ row.state = "CHALLENGE_ISSUED" /\ row.attempts < MaxAttempts
    BY <2>2, <2>4
  <2>6. challenges' = [challenges EXCEPT ![c] = row]
    BY <2>3
  <2> HIDE DEF row
  <2> QED BY <1>1, <2>4, <2>5, <2>6
<1>4. ASSUME NEW t \in Calls, ExpireChallenges(t)
      PROVE  Ok
  <2>1. \A c \in Challenges :
          /\ challenges[c] \in ChallengeRows
          /\ [challenges[c] EXCEPT !.state = "EXPIRED"] \in ChallengeRows
          /\ [challenges[c] EXCEPT !.state = "EXPIRED"].state = "EXPIRED"
    BY DEF TypeOK, ChallengeRows
  <2>2. challenges' = [c \in Challenges |->
          IF Issued(c) THEN [challenges[c] EXCEPT !.state = "EXPIRED"] ELSE challenges[c]]
    BY <1>4 DEF ExpireChallenges
  <2> QED BY <2>1, <2>2 DEF Issued, AttemptsLeft
<1>5. ASSUME NEW t \in Calls, DeliverOtp(t)
      PROVE  Ok
  <2> DEFINE c == task[t].challenge
  <2> DEFINE row == [state |-> "CANCELLED", attempts |-> 0]
  <2>1. c \in Challenges
    BY <1>5, TaskShapes DEF DeliverOtp, TypeOK
  <2>2. CASE challenges' = challenges
    BY <2>2 DEF TypeOK, AttemptsLeft
  <2>3. CASE /\ challenges[c] = [state |-> "CHALLENGE_ISSUED", attempts |-> 0]
             /\ challenges' = [challenges EXCEPT ![c].state = "CANCELLED"]
    <3>1. [challenges[c] EXCEPT !.state = "CANCELLED"] = row
      BY <2>3
    <3> HIDE DEF row
    <3>2. challenges' = [challenges EXCEPT ![c] = row]
      BY <2>1, <2>3, <3>1 DEF TypeOK
    <3> USE DEF row
    <3>3. row \in ChallengeRows /\ row.state = "CANCELLED" /\ challenges[c].state # "VERIFIED"
      BY <2>3 DEF ChallengeRows
    <3> HIDE DEF row, c
    <3> QED BY <1>1, <2>1, <3>2, <3>3
  <2> QED BY <1>5, <2>2, <2>3 DEF DeliverOtp, AsInserted
<1>6. CASE challenges' = challenges
  BY <1>6 DEF TypeOK, AttemptsLeft
<1> QED
  BY <1>2, <1>3, <1>4, <1>5, <1>6
  DEF Next, Begin, Continue, vars, ReadIdentity, ReadToken, ReadForChange, RequestReset,
      ReadChallenge, IssueSession, Rotate, RevokeForReuse, RevokeAllSessionsForRecovery,
      ChangeIdentityState, CompareEvidence, ReplacePassword, Drop, RevokeSession,
      RevokeAllSessions

-------------------------------------------------------------------------------
(* What happens to the sessions.                                              *)

LEMMA SessionSteps ==
  ASSUME TypeOK, Paired, [Next]_vars
  PROVE  /\ sessions' \in [SessionIds -> Rows]
         /\ Paired'
         /\ \A s \in SessionIds : sessions[s] = "REVOKED" => sessions'[s] = "REVOKED"
<1> DEFINE Ok ==
      /\ sessions' \in [SessionIds -> Rows]
      /\ Paired'
      /\ \A s \in SessionIds : sessions[s] = "REVOKED" => sessions'[s] = "REVOKED"
<1>1. ASSUME NEW ended, sessions' = End(sessions, ended), families' = End(families, ended)
      PROVE  Ok
  BY <1>1, Ended DEF TypeOK, Paired
<1>2. ASSUME NEW t \in Calls, RevokeForReuse(t)
      PROVE  Ok
  <2>1. PICK x : /\ sessions' = [sessions EXCEPT ![x] = "REVOKED"]
                 /\ families' = [families EXCEPT ![x] = "REVOKED"]
    BY <1>2 DEF RevokeForReuse
  <2> QED BY <2>1 DEF TypeOK, Paired, Rows
<1>3. ASSUME NEW t \in Calls, NEW s \in SessionIds, NEW k \in Tokens, IssueSession(t, s, k)
      PROVE  Ok
  BY <1>3 DEF IssueSession, TypeOK, Paired, Rows
<1>4. CASE UNCHANGED <<sessions, families>>
  BY <1>4 DEF TypeOK, Paired
<1> QED
  BY <1>1, <1>2, <1>3, <1>4
  DEF Next, Begin, Continue, vars, ReadIdentity, ReadToken, ReadForChange, RequestReset,
      ReadChallenge, Rotate, RevokeAllSessionsForRecovery, ChangeIdentityState,
      InsertChallenge, DeliverOtp, CompareEvidence, RejectChallenge, ConfirmChallenge,
      ReplacePassword,
      ExpireChallenges, Drop, RevokeSession, RevokeAllSessions

\* The tokens keep their shape, and a session that ended gets none.
LEMMA TokenSteps ==
  ASSUME TypeOK, [Next]_vars
  PROVE  /\ tokens' \in [Tokens -> {NoToken} \cup TokenRows]
         /\ \A s \in SessionIds : sessions[s] = "REVOKED" => TokensOf(s)' = TokensOf(s)
<1> DEFINE Ok ==
      /\ tokens' \in [Tokens -> {NoToken} \cup TokenRows]
      /\ \A s \in SessionIds : sessions[s] = "REVOKED" => TokensOf(s)' = TokensOf(s)
<1>1. ASSUME NEW t \in Calls, NEW s \in SessionIds, NEW k \in Tokens, IssueSession(t, s, k)
      PROVE  Ok
  <2> DEFINE new == [state |-> "ACTIVE", session |-> s, parent |-> k]
  <2>1. new \in TokenRows /\ new.session = s
    BY DEF TokenRows
  <2>2. \A n \in Tokens : tokens'[n] = IF n = k THEN new ELSE tokens[n]
    BY <1>1 DEF IssueSession, TypeOK
  <2>3. tokens' \in [Tokens -> {NoToken} \cup TokenRows]
    BY <1>1, <2>1 DEF IssueSession, TypeOK
  <2>4. sessions[s] = "NONE" /\ tokens[k] = NoToken
    BY <1>1 DEF IssueSession
  <2> HIDE DEF new
  <2>5. \A z \in SessionIds : z # s => TokensOf(z)' = TokensOf(z)
    BY <2>1, <2>2, <2>4 DEF TokensOf
  <2> QED BY <2>3, <2>4, <2>5
<1>2. ASSUME NEW t \in Calls, NEW successor \in Tokens, Rotate(t, successor)
      PROVE  Ok
  <2> DEFINE k == task[t].token
  <2> DEFINE used == [tokens[k] EXCEPT !.state = "USED"]
  <2> DEFINE new == [state |-> "ACTIVE", session |-> tokens[k].session, parent |-> k]
  <2>1. k \in Tokens
    BY <1>2, TaskShapes DEF Rotate, TypeOK
  <2>2. /\ tokens[k].state = "ACTIVE"
        /\ sessions[tokens[k].session] = "ACTIVE"
        /\ tokens[successor] = NoToken
    BY <1>2 DEF Rotate, Rotatable, Live
  <2>3. tokens[k] \in TokenRows
    BY <2>1, <2>2 DEF TypeOK, NoToken
  <2>4. used \in TokenRows /\ used.session = tokens[k].session
    BY <2>3 DEF TokenRows
  <2>5. new \in TokenRows /\ new.session = tokens[k].session
    BY <2>1, <2>3 DEF TokenRows
  <2>6. k # successor
    BY <2>2 DEF NoToken
  <2>7. tokens' = [tokens EXCEPT ![k].state = "USED", ![successor] = new]
    BY <1>2 DEF Rotate
  <2>8. \A n \in Tokens :
          tokens'[n] = IF n = successor THEN new ELSE IF n = k THEN used ELSE tokens[n]
    BY <2>1, <2>6, <2>7 DEF TypeOK
  <2>9. tokens' \in [Tokens -> {NoToken} \cup TokenRows]
    <3>1. tokens' = [n \in Tokens |-> tokens'[n]]
      BY <2>7 DEF TypeOK
    <3> HIDE DEF new, used, k
    <3>2. \A n \in Tokens : tokens'[n] \in {NoToken} \cup TokenRows
      BY <2>4, <2>5, <2>8 DEF TypeOK
    <3> QED BY <3>1, <3>2
  <2>10. tokens[k] # NoToken /\ NoToken \notin TokenRows
    BY <2>2 DEF NoToken, TokenRows
  <2> HIDE DEF new, used, k
  <2>11. \A z \in SessionIds : z # tokens[k].session => TokensOf(z)' = TokensOf(z)
    BY <2>1, <2>2, <2>4, <2>5, <2>8, <2>10 DEF TokensOf
  <2> QED BY <2>2, <2>9, <2>11
<1>3. CASE tokens' = tokens
  BY <1>3 DEF TypeOK, TokensOf
<1> QED
  BY <1>1, <1>2, <1>3
  DEF Next, Begin, Continue, vars, ReadIdentity, ReadToken, ReadForChange, RequestReset,
      ReadChallenge, RevokeForReuse, RevokeAllSessionsForRecovery, ChangeIdentityState,
      InsertChallenge, DeliverOtp, CompareEvidence, RejectChallenge, ConfirmChallenge,
      ReplacePassword,
      ExpireChallenges, Drop, RevokeSession, RevokeAllSessions

-------------------------------------------------------------------------------
(* What happens to the identity and its passwords.                            *)

LEMMA IdentitySteps ==
  ASSUME TypeOK, [Next]_vars
  PROVE  /\ identity' \in [state : IdentityStates, version : Nat \ {0}]
         /\ resets' \subseteq [version : Nat, challenge : Challenges]
<1>1. ASSUME NEW t \in Calls, ChangeIdentityState(t)
      PROVE  /\ identity' \in [state : IdentityStates, version : Nat \ {0}]
             /\ resets' = resets
  <2>1. task[t].to \in IdentityStates
    BY <1>1, TaskShapes DEF ChangeIdentityState, TypeOK
  <2> QED BY <1>1, <2>1 DEF ChangeIdentityState, TypeOK
<1>2. ASSUME NEW t \in Calls, ReplacePassword(t)
      PROVE  /\ identity' \in [state : IdentityStates, version : Nat \ {0}]
             /\ resets' \subseteq [version : Nat, challenge : Challenges]
  <2>1. task[t].challenge \in Challenges
    BY <1>2, TaskShapes DEF ReplacePassword, TypeOK
  <2>2. identity.version \in Nat \ {0} /\ identity.state \in IdentityStates
    BY DEF TypeOK
  <2>3. identity' = [identity EXCEPT !.version = identity.version + 1]
    BY <1>2 DEF ReplacePassword
  <2>4. identity' \in [state : IdentityStates, version : Nat \ {0}]
    BY <2>2, <2>3 DEF TypeOK
  <2>5. resets' = resets \cup {[version |-> identity.version, challenge |-> task[t].challenge]}
    BY <1>2 DEF ReplacePassword
  <2> QED BY <2>1, <2>2, <2>4, <2>5 DEF TypeOK
<1>3. CASE UNCHANGED <<identity, resets>>
  BY <1>3 DEF TypeOK
<1> QED
  BY <1>1, <1>2, <1>3 DEF TypeOK,
    Next, Begin, Continue, vars, ReadIdentity, ReadToken, ReadForChange, RequestReset,
    ReadChallenge, IssueSession, Rotate, RevokeForReuse, RevokeAllSessionsForRecovery,
    InsertChallenge, DeliverOtp, CompareEvidence, RejectChallenge, ConfirmChallenge,
    ExpireChallenges,
    Drop, RevokeSession, RevokeAllSessions

LEMMA NextTypeOK ==
  ASSUME TypeOK, AttemptsLeft, Paired, [Next]_vars
  PROVE  TypeOK'
<1>1. task' \in [Calls -> {Idle} \cup Tasks]
  <2>1. ASSUME NEW t \in Calls, Begin(t) \/ Continue(t)
        PROVE  task' \in [Calls -> {Idle} \cup Tasks]
    BY <2>1, NextTasks, GoOn
  <2>2. CASE task' = task
    BY <2>2 DEF TypeOK
  <2> QED BY <2>1, <2>2 DEF Next, vars, RevokeSession, RevokeAllSessions
<1> QED
  BY <1>1, ChallengeSteps, SessionSteps, TokenSteps, IdentitySteps DEF TypeOK, Paired

\* A call replaces the password only after it confirmed the challenge, which was
\* open until then.
LEMMA NextOneReplacement ==
  ASSUME TypeOK, TypeOK', AttemptsLeft, OneReplacement, [Next]_vars
  PROVE  OneReplacement'
<1>v. \A c \in Challenges : challenges[c].state = "VERIFIED" => challenges'[c].state = "VERIFIED"
  BY ChallengeSteps
<1>c. ASSUME NEW t \in Calls, task[t].pc \in {"confirm", "replace"}
      PROVE  task[t].challenge \in Challenges
  BY <1>c, TaskShapes DEF TypeOK
<1>r. \A r \in resets : r.challenge \in Challenges
  BY DEF TypeOK
<1>1. ASSUME NEW t \in Calls, ConfirmChallenge(t)
      PROVE  OneReplacement'
  <2> DEFINE c == task[t].challenge
  <2>1. /\ c \in Challenges
        /\ challenges[c].state = "CHALLENGE_ISSUED"
        /\ resets' = resets
    BY <1>1, <1>c DEF ConfirmChallenge, Unchanged
  <2>2. /\ task'[t].pc = "replace"
        /\ task'[t].challenge = c
        /\ \A u \in Calls : u # t => task'[u] = task[u]
    <3>1. task[t] \in [pc : {"confirm", "reject", "replace"}, challenge : Challenges,
                       attempts : 0..MaxAttempts, version : Nat]
      BY <1>1 DEF ConfirmChallenge, TypeOK, Tasks, Idle
    <3>2. task' = [task EXCEPT ![t] = [task[t] EXCEPT !.pc = "replace"]]
      BY <1>1 DEF ConfirmChallenge, Go
    <3> QED BY <3>1, <3>2 DEF TypeOK
  <2>3. challenges'[c].state = "VERIFIED"
    BY <1>1, <2>1 DEF ConfirmChallenge, TypeOK
  <2>4. /\ \A u \in Calls : task[u].pc = "replace" => task[u].challenge # c
        /\ \A r \in resets : r.challenge # c
    BY <2>1 DEF OneReplacement, OneResetPerChallenge
  <2>5. OneResetPerChallenge'
    BY <1>r, <1>v, <2>1 DEF OneReplacement, OneResetPerChallenge
  <2> HIDE DEF c
  <2> QED
    BY <1>c, <1>v, <2>1, <2>2, <2>3, <2>4, <2>5 DEF OneReplacement
<1>2. ASSUME \A t \in Calls : task'[t].pc = "replace" => task'[t] = task[t],
             resets' = resets
      PROVE  OneReplacement'
  BY <1>2, <1>c, <1>r, <1>v DEF OneReplacement, OneResetPerChallenge
<1>3. ASSUME NEW t \in Calls, ReplacePassword(t)
      PROVE  OneReplacement'
  <2> DEFINE c == task[t].challenge
  <2> DEFINE new == [version |-> identity.version, challenge |-> c]
  <2>1. /\ task[t].pc = "replace"
        /\ c \in Challenges
        /\ challenges[c].state = "VERIFIED"
        /\ challenges' = challenges
        /\ resets' = resets \cup {new}
        /\ new.challenge = c
    BY <1>3, <1>c DEF ReplacePassword, OneReplacement
  <2>2. /\ task'[t].pc = "expire"
        /\ \A u \in Calls : u # t => task'[u] = task[u]
    BY <1>3 DEF ReplacePassword, Go, TypeOK
  <2>3. /\ \A u \in Calls : u # t /\ task[u].pc = "replace" => task[u].challenge # c
        /\ \A r \in resets : r.challenge # c
    BY <2>1 DEF OneReplacement
  <2>4. \A u \in Calls : task'[u].pc = "replace" => u # t /\ task'[u] = task[u]
    BY <2>2
  <2> HIDE DEF c, new
  <2>5. OneResetPerChallenge'
    BY <2>1, <2>3 DEF OneReplacement, OneResetPerChallenge
  <2> QED
    BY <2>1, <2>3, <2>4, <2>5 DEF OneReplacement
<1>4. ASSUME ~\E t \in Calls : ConfirmChallenge(t) \/ ReplacePassword(t)
      PROVE  OneReplacement'
  <2>1. resets' = resets
    BY <1>4 DEF Next, Begin, Continue, vars, ReadIdentity, ReadToken, ReadForChange,
      RequestReset, ReadChallenge, IssueSession, Rotate, RevokeForReuse,
      RevokeAllSessionsForRecovery, ChangeIdentityState, InsertChallenge, DeliverOtp,
      CompareEvidence,
      RejectChallenge, ExpireChallenges, Drop, RevokeSession, RevokeAllSessions
  <2>2. ASSUME NEW u \in Calls, Begin(u) \/ Continue(u)
        PROVE  \A t \in Calls : task'[t].pc = "replace" => task'[t] = task[t]
    BY <1>4, <2>2, NextTasks, GoOn
  <2>3. CASE task' = task
    BY <1>2, <2>1, <2>3
  <2> QED BY <1>2, <2>1, <2>2, <2>3 DEF Next, vars, RevokeSession, RevokeAllSessions
<1> QED
  BY <1>1, <1>3, <1>4

-------------------------------------------------------------------------------
(* What happens to the chain of tokens of a session.                          *)

\* The rows of a session exist while its tokens do, and a token's parent too.
Linked ==
  \A n \in Tokens : tokens[n] # NoToken =>
    /\ sessions[tokens[n].session] # "NONE"
    /\ tokens[tokens[n].parent] # NoToken

\* The end of the chain of a session.
OneEnd ==
  \A s \in SessionIds : sessions[s] # "NONE" =>
    \E k \in Tokens : \A n \in Tokens :
      tokens[n] # NoToken /\ tokens[n].session = s /\ tokens[n].state = "ACTIVE" <=> n = k

\* n was issued in exchange for k.
Follows(n, k) ==
  /\ tokens[n] # NoToken
  /\ tokens[n].session = tokens[k].session
  /\ tokens[n].parent = k
  /\ n # k

OneSuccessor ==
  \A k \in Tokens : tokens[k] # NoToken =>
    /\ tokens[k].state = "ACTIVE" => \A n \in Tokens : ~Follows(n, k)
    /\ tokens[k].state = "USED" => \E m \in Tokens : \A n \in Tokens : Follows(n, k) <=> n = m

Chain == Linked /\ OneEnd /\ OneSuccessor

\* Only logging in opens a session; no step removes one.
LEMMA SessionsExist ==
  ASSUME TypeOK, [Next]_vars
  PROVE  /\ \A s \in SessionIds : sessions[s] # "NONE" => sessions'[s] # "NONE"
         /\ \A s \in SessionIds : sessions[s] = "NONE" /\ sessions'[s] # "NONE" =>
              \E t \in Calls, k \in Tokens : IssueSession(t, s, k)
<1> DEFINE Same == \A s \in SessionIds : sessions[s] = "NONE" <=> sessions'[s] = "NONE"
<1>1. ASSUME NEW ended, sessions' = End(sessions, ended) PROVE Same
  BY <1>1 DEF End, TypeOK, Rows
<1>2. ASSUME NEW t \in Calls, RevokeForReuse(t) PROVE Same
  BY <1>2 DEF RevokeForReuse, Live, TypeOK, Rows
<1>3. CASE \E t \in Calls, s \in SessionIds, k \in Tokens : IssueSession(t, s, k)
  BY <1>3 DEF IssueSession, TypeOK
<1>4. CASE UNCHANGED sessions
  BY <1>4
<1> HIDE DEF Same
<1>5. Same \/ \E t \in Calls, s \in SessionIds, k \in Tokens : IssueSession(t, s, k)
  BY <1>1, <1>2, <1>4
  DEF Same, Next, Begin, Continue, vars, ReadIdentity, ReadToken, ReadForChange,
     RequestReset,
      ReadChallenge, Rotate, RevokeAllSessionsForRecovery, ChangeIdentityState,
      InsertChallenge, DeliverOtp, CompareEvidence, RejectChallenge, ConfirmChallenge,
      ReplacePassword,
      ExpireChallenges, Drop, RevokeSession, RevokeAllSessions
<1> QED
  BY <1>3, <1>5 DEF Same

LEMMA ChainIssued ==
  ASSUME TypeOK, Chain, NEW t \in Calls, NEW s \in SessionIds, NEW k \in Tokens,
         IssueSession(t, s, k)
  PROVE  Chain'
<1> DEFINE new == [state |-> "ACTIVE", session |-> s, parent |-> k]
<1>1. new.state = "ACTIVE" /\ new.session = s /\ new.parent = k /\ new # NoToken
  BY DEF NoToken
<1>2. \A n \in Tokens : tokens'[n] = IF n = k THEN new ELSE tokens[n]
  BY DEF IssueSession, TypeOK
<1>3. \A z \in SessionIds : sessions'[z] = IF z = s THEN "ACTIVE" ELSE sessions[z]
  BY DEF IssueSession, TypeOK
<1>4. sessions[s] = "NONE" /\ tokens[k] = NoToken
  BY DEF IssueSession
<1>5. \A n \in Tokens : tokens[n] # NoToken =>
        tokens[n].session \in SessionIds /\ tokens[n].parent \in Tokens
  BY DEF TypeOK, TokenRows
<1> HIDE DEF new
<1>6. \A n \in Tokens : tokens[n] # NoToken =>
        n # k /\ tokens[n].session # s /\ tokens[n].parent # k
  BY <1>4, <1>5 DEF Chain, Linked
<1>7. Linked'
  BY <1>1, <1>2, <1>3, <1>5, <1>6 DEF Chain, Linked
<1>8. OneEnd'
  <2> SUFFICES ASSUME NEW z \in SessionIds, sessions'[z] # "NONE"
               PROVE  \E j \in Tokens : \A n \in Tokens :
                        tokens'[n] # NoToken /\ tokens'[n].session = z
                          /\ tokens'[n].state = "ACTIVE" <=> n = j
    BY DEF OneEnd
  <2>1. CASE z = s
    BY <1>1, <1>2, <1>6, <2>1
  <2>2. CASE z # s
    <3>1. PICK j \in Tokens : \A n \in Tokens :
            tokens[n] # NoToken /\ tokens[n].session = z /\ tokens[n].state = "ACTIVE" <=> n = j
      BY <1>3, <2>2 DEF Chain, OneEnd
    <3> QED BY <1>1, <1>2, <1>6, <2>2, <3>1
  <2> QED BY <2>1, <2>2
<1>9. OneSuccessor'
  <2>1. \A n \in Tokens : ~Follows(n, k)'
    BY <1>1, <1>2, <1>6 DEF Follows
  <2>2. \A j \in Tokens : tokens[j] # NoToken =>
          \A n \in Tokens : Follows(n, j)' <=> Follows(n, j)
    BY <1>1, <1>2, <1>4, <1>6 DEF Follows
  <2>3. ASSUME NEW j \in Tokens, tokens[j] # NoToken
        PROVE  /\ tokens'[j].state = "ACTIVE" => \A n \in Tokens : ~Follows(n, j)'
               /\ tokens'[j].state = "USED" =>
                    \E m \in Tokens : \A n \in Tokens : Follows(n, j)' <=> n = m
    BY <1>2, <1>6, <2>2, <2>3 DEF Chain, OneSuccessor
  <2>4. \A j \in Tokens : tokens'[j] # NoToken => j = k \/ tokens[j] # NoToken
    BY <1>2
  <2>5. tokens'[k].state = "ACTIVE"
    BY <1>1, <1>2
  <2> QED BY <2>1, <2>3, <2>4, <2>5 DEF OneSuccessor
<1> QED
  BY <1>7, <1>8, <1>9 DEF Chain

LEMMA ChainRotated ==
  ASSUME TypeOK, Chain, NEW t \in Calls, NEW successor \in Tokens, Rotate(t, successor)
  PROVE  Chain'
<1>k. PICK k : k = task[t].token
  OBVIOUS
<1> DEFINE s == tokens[k].session
           used == [tokens[k] EXCEPT !.state = "USED"]
           new == [state |-> "ACTIVE", session |-> s, parent |-> k]
<1>1. k \in Tokens
  BY <1>k, TaskShapes DEF Rotate, TypeOK
<1>2. tokens[k].state = "ACTIVE" /\ tokens[successor] = NoToken /\ sessions' = sessions
  BY <1>k DEF Rotate, Rotatable
<1>3. tokens[k] \in TokenRows /\ tokens[k] # NoToken /\ k # successor
  BY <1>1, <1>2 DEF TypeOK, NoToken
<1>4. /\ used.state = "USED" /\ used.session = s /\ used.parent = tokens[k].parent
      /\ used # NoToken
  BY <1>3 DEF TokenRows, NoToken
<1>5. new.state = "ACTIVE" /\ new.session = s /\ new.parent = k /\ new # NoToken
  BY DEF NoToken
<1>6. tokens' = [tokens EXCEPT ![k].state = "USED", ![successor] = new]
  BY <1>k DEF Rotate
<1>7. \A n \in Tokens :
        tokens'[n] = IF n = successor THEN new ELSE IF n = k THEN used ELSE tokens[n]
  BY <1>1, <1>3, <1>6 DEF TypeOK
<1>8. \A n \in Tokens : tokens[n] # NoToken =>
        /\ tokens[n].session \in SessionIds
        /\ tokens[n].parent \in Tokens
        /\ tokens[n].parent # successor
        /\ tokens[n].state \in {"ACTIVE", "USED"}
  BY <1>2 DEF TypeOK, TokenRows, Chain, Linked
<1> HIDE DEF s, used, new
<1>9. s \in SessionIds /\ tokens[k].session = s
  BY <1>1, <1>3, <1>8 DEF s
<1>10. Linked'
  BY <1>1, <1>2, <1>3, <1>4, <1>5, <1>7, <1>8, <1>9 DEF Chain, Linked
<1>11. OneEnd'
  <2> SUFFICES ASSUME NEW z \in SessionIds, sessions'[z] # "NONE"
               PROVE  \E j \in Tokens : \A n \in Tokens :
                        tokens'[n] # NoToken /\ tokens'[n].session = z
                          /\ tokens'[n].state = "ACTIVE" <=> n = j
    BY DEF OneEnd
  <2>1. PICK j \in Tokens : \A n \in Tokens :
          tokens[n] # NoToken /\ tokens[n].session = z /\ tokens[n].state = "ACTIVE" <=> n = j
    BY <1>2 DEF Chain, OneEnd
  <2>2. CASE z = s
    <3>1. j = k
      BY <1>1, <1>2, <1>3, <1>9, <2>1, <2>2
    <3>2. \A n \in Tokens : tokens'[n] # NoToken /\ tokens'[n].session = z
            /\ tokens'[n].state = "ACTIVE" <=> n = successor
      BY <1>2, <1>3, <1>4, <1>5, <1>7, <2>1, <2>2, <3>1
    <3> QED BY <3>2
  <2>3. CASE z # s
    BY <1>2, <1>4, <1>5, <1>7, <1>9, <2>1, <2>3
  <2> QED BY <2>2, <2>3
<1>12. OneSuccessor'
  <2>1. \A n \in Tokens : Follows(n, k)' <=> n = successor
    <3>1. \A n \in Tokens : ~Follows(n, k)
      BY <1>1, <1>2, <1>3 DEF Chain, OneSuccessor
    <3>2. tokens'[k] = used
      BY <1>1, <1>3, <1>7
    <3> QED BY <1>3, <1>4, <1>5, <1>7, <1>9, <3>1, <3>2 DEF Follows
  <2>2. \A n \in Tokens : ~Follows(n, successor)'
    BY <1>4, <1>5, <1>7, <1>8, <1>3 DEF Follows
  <2>3. \A j \in Tokens \ {k} : tokens[j] # NoToken =>
          \A n \in Tokens : Follows(n, j)' <=> Follows(n, j)
    BY <1>1, <1>2, <1>3, <1>4, <1>5, <1>7, <1>9 DEF Follows
  <2>4. \A j \in Tokens : tokens'[j] # NoToken =>
          j = k \/ j = successor \/ (tokens[j] # NoToken /\ tokens'[j] = tokens[j])
    BY <1>7
  <2>5. tokens'[k].state = "USED" /\ tokens'[successor].state = "ACTIVE"
    BY <1>1, <1>3, <1>4, <1>5, <1>7
  <2>6. ASSUME NEW j \in Tokens \ {k}, tokens[j] # NoToken, tokens'[j] = tokens[j]
        PROVE  /\ tokens'[j].state = "ACTIVE" => \A n \in Tokens : ~Follows(n, j)'
               /\ tokens'[j].state = "USED" =>
                    \E m \in Tokens : \A n \in Tokens : Follows(n, j)' <=> n = m
    BY <2>3, <2>6 DEF Chain, OneSuccessor
  <2>7. \A j \in Tokens : tokens'[j] # NoToken =>
          /\ tokens'[j].state = "ACTIVE" => \A n \in Tokens : ~Follows(n, j)'
          /\ tokens'[j].state = "USED" =>
               \E m \in Tokens : \A n \in Tokens : Follows(n, j)' <=> n = m
    BY <1>1, <2>1, <2>2, <2>4, <2>5, <2>6
  <2> QED BY <2>7 DEF OneSuccessor
<1> QED
  BY <1>10, <1>11, <1>12 DEF Chain

LEMMA NextChain ==
  ASSUME TypeOK, Chain, [Next]_vars
  PROVE  Chain'
<1>1. CASE \E t \in Calls, s \in SessionIds, k \in Tokens : IssueSession(t, s, k)
  BY <1>1, ChainIssued
<1>2. CASE \E t \in Calls, k \in Tokens : Rotate(t, k)
  BY <1>2, ChainRotated
<1>3. ASSUME tokens' = tokens,
             ~\E t \in Calls, s \in SessionIds, k \in Tokens : IssueSession(t, s, k)
      PROVE  Chain'
  <2>1. \A s \in SessionIds : sessions'[s] = "NONE" <=> sessions[s] = "NONE"
    BY <1>3, SessionsExist
  <2>2. \A n \in Tokens : tokens[n] # NoToken => tokens[n].session \in SessionIds
    BY DEF TypeOK, TokenRows
  <2>3. Linked'
    BY <1>3, <2>1, <2>2 DEF Chain, Linked
  <2>4. OneEnd'
    BY <1>3, <2>1 DEF Chain, OneEnd
  <2>5. OneSuccessor'
    BY <1>3 DEF Chain, OneSuccessor, Follows
  <2> QED BY <2>3, <2>4, <2>5 DEF Chain
<1>4. \/ tokens' = tokens
      \/ \E t \in Calls, s \in SessionIds, k \in Tokens : IssueSession(t, s, k)
      \/ \E t \in Calls, k \in Tokens : Rotate(t, k)
  BY
  DEF Next, Begin, Continue, vars, ReadIdentity, ReadToken, ReadForChange, RequestReset,
      ReadChallenge, RevokeForReuse, RevokeAllSessionsForRecovery, ChangeIdentityState,
      InsertChallenge, DeliverOtp, CompareEvidence, RejectChallenge, ConfirmChallenge,
      ReplacePassword,
      ExpireChallenges, Drop, RevokeSession, RevokeAllSessions
<1> QED
  BY <1>1, <1>2, <1>3, <1>4

\* A chain by its links has one end and one successor of each used token.
LEMMA ChainCounts ==
  ASSUME TypeOK, Chain
  PROVE  TokensFormAChain
<1>1. ASSUME NEW s \in SessionIds, sessions[s] # "NONE"
      PROVE  Cardinality({k \in TokensOf(s) : tokens[k].state = "ACTIVE"}) = 1
  <2>1. PICK j \in Tokens : \A n \in Tokens :
          tokens[n] # NoToken /\ tokens[n].session = s /\ tokens[n].state = "ACTIVE" <=> n = j
    BY <1>1 DEF Chain, OneEnd
  <2>2. {k \in TokensOf(s) : tokens[k].state = "ACTIVE"} = {j}
    BY <2>1 DEF TokensOf
  <2> QED BY <2>2, FS_Singleton
<1>2. ASSUME NEW s \in SessionIds, NEW k \in TokensOf(s)
      PROVE  Cardinality(Successors(k)) = IF tokens[k].state = "USED" THEN 1 ELSE 0
  <2>1. /\ k \in Tokens /\ tokens[k] # NoToken /\ tokens[k].session = s
        /\ tokens[k].state \in {"ACTIVE", "USED"}
    BY <1>2 DEF TokensOf, TypeOK, TokenRows
  <2>2. Successors(k) = {n \in Tokens : Follows(n, k)}
    BY DEF Successors, TokensOf, Follows
  <2>3. CASE tokens[k].state = "USED"
    <3>1. PICK m \in Tokens : \A n \in Tokens : Follows(n, k) <=> n = m
      BY <2>1, <2>3 DEF Chain, OneSuccessor
    <3>2. Successors(k) = {m}
      BY <2>2, <3>1
    <3> QED BY <2>3, <3>2, FS_Singleton
  <2>4. CASE tokens[k].state = "ACTIVE"
    <3>1. Successors(k) = {}
      BY <2>1, <2>2, <2>4 DEF Chain, OneSuccessor
    <3> QED BY <2>4, <3>1, FS_EmptySet
  <2> QED BY <2>1, <2>3, <2>4
<1> QED
  BY <1>1, <1>2 DEF TokensFormAChain

-------------------------------------------------------------------------------
(* The inductive invariant and what follows from it.                          *)

IInv == TypeOK /\ AttemptsLeft /\ Paired /\ OneReplacement /\ Chain

LEMMA InitIInv == Init => IInv
<1> SUFFICES ASSUME Init PROVE IInv
  OBVIOUS
<1> USE AttemptsAssumption
<1>1. TypeOK
  BY DEF Init, TypeOK, IdentityStates, Rows, ChallengeRows
<1>2. AttemptsLeft /\ Paired
  BY DEF Init, AttemptsLeft, Paired
<1>3. OneReplacement
  BY DEF Init, OneReplacement, OneResetPerChallenge, Idle
<1>4. Chain
  BY DEF Init, Chain, Linked, OneEnd, OneSuccessor
<1> QED
  BY <1>1, <1>2, <1>3, <1>4 DEF IInv

LEMMA NextIInv == IInv /\ [Next]_vars => IInv'
<1> SUFFICES ASSUME IInv, [Next]_vars PROVE IInv'
  OBVIOUS
<1> USE DEF IInv
<1>1. TypeOK'
  BY NextTypeOK
<1> QED
  BY <1>1, ChallengeSteps, SessionSteps, NextOneReplacement, NextChain

\* Every reachable state satisfies the inductive invariant.
THEOREM SpecIInv == Spec => []IInv
  BY InitIInv, NextIInv, PTL DEF Spec

\* The tables keep their shapes; in particular no challenge counts more attempts
\* than maximumVerificationAttempts (rejectOtpChallenge, confirmOtpChallenge).
THEOREM SpecTypeOK == Spec => []TypeOK
<1>1. IInv => TypeOK
  BY DEF IInv
<1> QED
  BY <1>1, SpecIInv, PTL

\* A session that was ended stays ended and its family gets no new token,
\* whatever refreshes were under way (rotateRefreshToken).
THEOREM SpecRevokedForGood == Spec => RevokedForGood
<1> DEFINE A == \A s \in SessionIds : sessions[s] = "REVOKED" =>
             sessions'[s] = "REVOKED" /\ families'[s] = "REVOKED" /\ TokensOf(s)' = TokensOf(s)
<1>1. IInv /\ [Next]_vars => [A]_vars
  BY SessionSteps, TokenSteps DEF IInv, Paired
<1> QED
  BY <1>1, SpecIInv, PTL DEF Spec, RevokedForGood

\* One confirmed challenge sets one password (confirmReset, confirmOtpChallenge).
THEOREM SpecOneResetPerChallenge == Spec => []OneResetPerChallenge
<1>1. IInv => OneResetPerChallenge
  BY DEF IInv, OneReplacement
<1> QED
  BY <1>1, SpecIInv, PTL

\* Whatever refreshes race, the tokens of a session are one chain: a used token
\* has one successor and only the last can be used (rotateRefreshToken).
THEOREM SpecTokensFormAChain == Spec => []TokensFormAChain
<1>1. IInv => TokensFormAChain
  BY ChainCounts DEF IInv
<1> QED
  BY <1>1, SpecIInv, PTL
===============================================================================
