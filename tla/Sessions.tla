------------------------------- MODULE Sessions --------------------------------
(***************************************************************************)
(* Module 01: the sessions of one identity, their refresh tokens, and what  *)
(* ends them: logout, the reuse of a token, a change of the identity's      *)
(* state and a password reset.                                              *)
(*                                                                          *)
(* The transactions of the repositories are steps; between the reads of a   *)
(* service and its transactions, and between one transaction and the next,  *)
(* others run and the process may die.  A session has version 1 while it is *)
(* ACTIVE and 2 afterwards, so a guard on its version says what a guard on  *)
(* its state says.  Expiry is left out: it only refuses.                    *)
(***************************************************************************)
EXTENDS Naturals, FiniteSets

CONSTANTS
  SessionIds, Tokens, Challenges, Calls,
  MaxAttempts     \* maximumVerificationAttempts

ASSUME AttemptsAssumption == MaxAttempts \in Nat \ {0}

VARIABLES
  identity,    \* [state, version]                      identities
  resets,      \* SUBSET [version, challenge]           credential_history_records
  challenges,  \* [Challenges -> [state, attempts]]     PASSWORD_RECOVERY challenges
  sessions,    \* [SessionIds -> row state]             sessions
  families,    \* [SessionIds -> row state]             refresh_token_families
  tokens,      \* [Tokens -> token row]                 refresh_token_records
  task         \* [Calls -> what a call is doing]

vars == <<identity, resets, challenges, sessions, families, tokens, task>>

IdentityStates == {"ACTIVE", "LOCKED", "SUSPENDED", "DISABLED"}

\* SESSION_PREVENTING_STATES
PreventingStates == {"LOCKED", "SUSPENDED", "DISABLED"}

Rows == {"NONE", "ACTIVE", "REVOKED"}

NoToken == [state |-> "NONE"]

\* The first token of a session is its own parent.
TokenRows == [state : {"ACTIVE", "USED"}, session : SessionIds, parent : Tokens]

ChallengeRows == [state : {"NONE", "CHALLENGE_ISSUED", "VERIFIED", "FAILED", "EXPIRED",
                           "CANCELLED"},
                  attempts : 0..MaxAttempts]

Idle == [pc |-> "idle"]

Tasks ==
  [pc : {"issue", "insertChallenge", "expire", "revoke"}]
  \cup [pc : {"rotate", "reuse"}, token : Tokens]
  \cup [pc : {"deliver"}, challenge : Challenges]
  \cup [pc : {"identity"}, challenge : Challenges, attempts : 0..MaxAttempts]
  \cup [pc : {"confirm", "reject", "replace"}, challenge : Challenges,
        attempts : 0..MaxAttempts, version : Nat]
  \cup [pc : {"change"}, to : IdentityStates, version : Nat]

TypeOK ==
  /\ identity \in [state : IdentityStates, version : Nat \ {0}]
  /\ resets \subseteq [version : Nat, challenge : Challenges]
  /\ challenges \in [Challenges -> ChallengeRows]
  /\ sessions \in [SessionIds -> Rows]
  /\ families \in [SessionIds -> Rows]
  /\ tokens \in [Tokens -> {NoToken} \cup TokenRows]
  /\ task \in [Calls -> {Idle} \cup Tasks]

Init ==
  /\ identity = [state |-> "ACTIVE", version |-> 1]
  /\ resets = {}
  /\ challenges = [c \in Challenges |-> [state |-> "NONE", attempts |-> 0]]
  /\ sessions = [s \in SessionIds |-> "NONE"]
  /\ families = [s \in SessionIds |-> "NONE"]
  /\ tokens = [k \in Tokens |-> NoToken]
  /\ task = [t \in Calls |-> Idle]

Go(t, next) == task' = [task EXCEPT ![t] = next]

Live(s) == sessions[s] = "ACTIVE" /\ families[s] = "ACTIVE"

-------------------------------------------------------------------------------
(* Faulty variants, each a bug the code could have.                           *)

\* the WHERE clause of the rotation does not name the state of the token
RotatableTwice(k) == Live(tokens[k].session)

\* the WHERE clause of the rotation does not look at family and session
RotatableAfterRevocation(k) == tokens[k].state = "ACTIVE"

\* the WHERE clause of the confirmation names only the challenge
ConfirmableTwice(t) == TRUE

\* the attempt that fails the challenge is counted once more
FailedTooLate(attempts) == IF attempts > MaxAttempts THEN "FAILED" ELSE "CHALLENGE_ISSUED"

-------------------------------------------------------------------------------
(* Logging in, refreshing and logging out.                                    *)

\* login, or the last step of a login with MFA: the identity may log in.
ReadIdentity(t) ==
  /\ task[t] = Idle
  /\ identity.state = "ACTIVE"
  /\ Go(t, [pc |-> "issue"])
  /\ UNCHANGED <<identity, resets, challenges, sessions, families, tokens>>

IssueSession(t, s, k) ==
  /\ task[t].pc = "issue"
  /\ sessions[s] = "NONE"
  /\ tokens[k] = NoToken
  /\ sessions' = [sessions EXCEPT ![s] = "ACTIVE"]
  /\ families' = [families EXCEPT ![s] = "ACTIVE"]
  /\ tokens' = [tokens EXCEPT ![k] =
       [state |-> "ACTIVE", session |-> s, parent |-> k]]
  /\ Go(t, Idle)
  /\ UNCHANGED <<identity, resets, challenges>>

\* refresh reads the token with its family and session.
ReadToken(t, k) ==
  /\ task[t] = Idle
  /\ tokens[k] # NoToken
  /\ \/ tokens[k].state = "USED" /\ Go(t, [pc |-> "reuse", token |-> k])
     \/ tokens[k].state = "ACTIVE" /\ Live(tokens[k].session) /\ Go(t, [pc |-> "rotate", token |-> k])
  /\ UNCHANGED <<identity, resets, challenges, sessions, families, tokens>>

\* The WHERE clause of rotateRefreshToken.
Rotatable(k) == tokens[k].state = "ACTIVE" /\ Live(tokens[k].session)

Rotate(t, successor) ==
  LET k == task[t].token
  IN /\ task[t].pc = "rotate"
     /\ Rotatable(k)
     /\ tokens[successor] = NoToken
     /\ tokens' = [tokens EXCEPT
          ![k].state = "USED",
          ![successor] = [state |-> "ACTIVE", session |-> tokens[k].session,
                          parent |-> k]]
     /\ Go(t, Idle)
     /\ UNCHANGED <<identity, resets, challenges, sessions, families>>

\* revokeRefreshTokenFamilyForReuse, which changes nothing when the family or
\* the session has ended before; when the reuse was seen is not modelled.
RevokeForReuse(t) ==
  LET k == task[t].token
  IN /\ task[t].pc = "reuse"
     /\ Live(tokens[k].session)
     /\ families' = [families EXCEPT ![tokens[k].session] = "REVOKED"]
     /\ sessions' = [sessions EXCEPT ![tokens[k].session] = "REVOKED"]
     /\ Go(t, Idle)
     /\ UNCHANGED <<identity, resets, challenges, tokens>>

End(rows, ended) == [s \in SessionIds |-> IF s \in ended /\ rows[s] = "ACTIVE" THEN "REVOKED" ELSE rows[s]]

\* logout, and revokeSession of a session the identity owns.
RevokeSession(s) ==
  /\ sessions[s] = "ACTIVE"
  /\ sessions' = End(sessions, {s})
  /\ families' = End(families, {s})
  /\ UNCHANGED <<identity, resets, challenges, tokens, task>>

ActiveSessions == {s \in SessionIds : sessions[s] = "ACTIVE"}

\* logoutAll, authorized by a session that is still ACTIVE.
RevokeAllSessions ==
  /\ ActiveSessions # {}
  /\ sessions' = End(sessions, ActiveSessions)
  /\ families' = End(families, ActiveSessions)
  /\ UNCHANGED <<identity, resets, challenges, tokens, task>>

\* revokeAllSessionsForRecovery, the last step of the two operations below.
RevokeAllSessionsForRecovery(t) ==
  /\ task[t].pc = "revoke"
  /\ sessions' = End(sessions, ActiveSessions)
  /\ families' = End(families, ActiveSessions)
  /\ Go(t, Idle)
  /\ UNCHANGED <<identity, resets, challenges, tokens>>

-------------------------------------------------------------------------------
(* Changing the state of the identity.                                        *)

\* APPROVED_TRANSITIONS of an identity that was verified.
ApprovedTransitions(from) == IF from = "ACTIVE" THEN PreventingStates ELSE {"ACTIVE"}

ReadForChange(t, to) ==
  /\ task[t] = Idle
  /\ to \in ApprovedTransitions(identity.state)
  /\ Go(t, [pc |-> "change", to |-> to, version |-> identity.version])
  /\ UNCHANGED <<identity, resets, challenges, sessions, families, tokens>>

ChangeIdentityState(t) ==
  /\ task[t].pc = "change"
  /\ identity.version = task[t].version
  /\ identity' = [state |-> task[t].to, version |-> identity.version + 1]
  /\ Go(t, IF task[t].to \in PreventingStates THEN [pc |-> "revoke"] ELSE Idle)
  /\ UNCHANGED <<resets, challenges, sessions, families, tokens>>

-------------------------------------------------------------------------------
(* Resetting the password.                                                    *)

Issued(c) == challenges[c].state = "CHALLENGE_ISSUED"

\* requestReset: an open challenge is given out again, else one is inserted and
\* its OTP delivered.
RequestReset(t) ==
  /\ task[t] = Idle
  /\ identity.state = "ACTIVE"
  /\ \A c \in Challenges : ~Issued(c)
  /\ Go(t, [pc |-> "insertChallenge"])
  /\ UNCHANGED <<identity, resets, challenges, sessions, families, tokens>>

InsertChallenge(t, c) ==
  /\ task[t].pc = "insertChallenge"
  /\ challenges[c].state = "NONE"
  /\ challenges' = [challenges EXCEPT ![c].state = "CHALLENGE_ISSUED"]
  /\ Go(t, [pc |-> "deliver", challenge |-> c])
  /\ UNCHANGED <<identity, resets, sessions, families, tokens>>

\* A row that still has the version it was inserted with: confirmations,
\* rejections and expiry raise it.
AsInserted(c) == challenges[c] = [state |-> "CHALLENGE_ISSUED", attempts |-> 0]

\* The OTP is delivered, or the delivery fails, maybe after the OTP went out, and
\* the challenge is cancelled under the version it was inserted with.
DeliverOtp(t) ==
  LET c == task[t].challenge
  IN /\ task[t].pc = "deliver"
     /\ \/ UNCHANGED challenges
        \/ /\ AsInserted(c)
           /\ challenges' = [challenges EXCEPT ![c].state = "CANCELLED"]
     /\ Go(t, Idle)
     /\ UNCHANGED <<identity, resets, sessions, families, tokens>>

\* confirmReset reads the challenge, then the identity.
ReadChallenge(t, c) ==
  /\ task[t] = Idle
  /\ Issued(c)
  /\ Go(t, [pc |-> "identity", challenge |-> c, attempts |-> challenges[c].attempts])
  /\ UNCHANGED <<identity, resets, challenges, sessions, families, tokens>>

\* The evidence matches, or it does not.
CompareEvidence(t) ==
  /\ task[t].pc = "identity"
  /\ identity.state = "ACTIVE"
  /\ \E next \in {"confirm", "reject"} :
       Go(t, [pc |-> next, challenge |-> task[t].challenge,
              attempts |-> task[t].attempts, version |-> identity.version])
  /\ UNCHANGED <<identity, resets, challenges, sessions, families, tokens>>

\* The WHERE clause of confirmOtpChallenge and rejectOtpChallenge; every
\* attempt is a new version.
Unchanged(t) == challenges[task[t].challenge] =
  [state |-> "CHALLENGE_ISSUED", attempts |-> task[t].attempts]

AfterRejection(attempts) == IF attempts >= MaxAttempts THEN "FAILED" ELSE "CHALLENGE_ISSUED"

RejectChallenge(t) ==
  LET attempts == task[t].attempts + 1
  IN /\ task[t].pc = "reject"
     /\ Unchanged(t)
     /\ challenges' = [challenges EXCEPT ![task[t].challenge] =
          [state |-> AfterRejection(attempts), attempts |-> attempts]]
     /\ Go(t, Idle)
     /\ UNCHANGED <<identity, resets, sessions, families, tokens>>

ConfirmChallenge(t) ==
  /\ task[t].pc = "confirm"
  /\ Unchanged(t)
  /\ challenges' = [challenges EXCEPT ![task[t].challenge] =
       [state |-> "VERIFIED", attempts |-> task[t].attempts + 1]]
  /\ Go(t, [task[t] EXCEPT !.pc = "replace"])
  /\ UNCHANGED <<identity, resets, sessions, families, tokens>>

\* The new credential, under the version of the identity read before.
ReplacePassword(t) ==
  /\ task[t].pc = "replace"
  /\ identity.version = task[t].version
  /\ identity' = [identity EXCEPT !.version = @ + 1]
  /\ resets' = resets \cup {[version |-> identity.version, challenge |-> task[t].challenge]}
  /\ Go(t, [pc |-> "expire"])
  /\ UNCHANGED <<challenges, sessions, families, tokens>>

ExpireChallenges(t) ==
  /\ task[t].pc = "expire"
  /\ challenges' = [c \in Challenges |->
       IF Issued(c) THEN [challenges[c] EXCEPT !.state = "EXPIRED"] ELSE challenges[c]]
  /\ Go(t, [pc |-> "revoke"])
  /\ UNCHANGED <<identity, resets, sessions, families, tokens>>

-------------------------------------------------------------------------------
\* A guard fails, the call is refused, or the process dies.
Drop(t) ==
  /\ task[t] # Idle
  /\ Go(t, Idle)
  /\ UNCHANGED <<identity, resets, challenges, sessions, families, tokens>>

Begin(t) ==
  \/ ReadIdentity(t)
  \/ \E k \in Tokens : ReadToken(t, k)
  \/ \E to \in IdentityStates : ReadForChange(t, to)
  \/ RequestReset(t)
  \/ \E c \in Challenges : ReadChallenge(t, c)

Continue(t) ==
  \/ \E s \in SessionIds, k \in Tokens : IssueSession(t, s, k)
  \/ \E k \in Tokens : Rotate(t, k)
  \/ RevokeForReuse(t)
  \/ RevokeAllSessionsForRecovery(t)
  \/ ChangeIdentityState(t)
  \/ \E c \in Challenges : InsertChallenge(t, c)
  \/ DeliverOtp(t)
  \/ CompareEvidence(t)
  \/ RejectChallenge(t)
  \/ ConfirmChallenge(t)
  \/ ReplacePassword(t)
  \/ ExpireChallenges(t)
  \/ Drop(t)

Next ==
  \/ \E t \in Calls : Begin(t) \/ Continue(t)
  \/ \E s \in SessionIds : RevokeSession(s)
  \/ RevokeAllSessions

Spec == Init /\ [][Next]_vars

-------------------------------------------------------------------------------
(* Properties.                                                                *)

TokensOf(s) == {k \in Tokens : tokens[k] # NoToken /\ tokens[k].session = s}

Successors(k) == {n \in TokensOf(tokens[k].session) : tokens[n].parent = k /\ n # k}

\* The tokens of a session are one chain, whatever refreshes race: each used
\* token has one successor, and only the end of the chain can be used.
TokensFormAChain ==
  \A s \in SessionIds :
    /\ sessions[s] # "NONE" =>
         Cardinality({k \in TokensOf(s) : tokens[k].state = "ACTIVE"}) = 1
    /\ \A k \in TokensOf(s) :
         Cardinality(Successors(k)) = IF tokens[k].state = "USED" THEN 1 ELSE 0

\* A session that was ended, for a reuse, a logout, a reset or a change of the
\* identity's state, stays ended, and a refresh that had already read its token
\* gets no new one.
RevokedForGood ==
  [][\A s \in SessionIds : sessions[s] = "REVOKED" =>
       sessions'[s] = "REVOKED" /\ families'[s] = "REVOKED" /\ TokensOf(s)' = TokensOf(s)]_vars

\* One confirmed challenge sets one password, whatever confirmations race, and a
\* challenge that set one is neither failed by a rejection, expired by another
\* reset nor cancelled by the request that could not tell its OTP was received.
OneResetPerChallenge ==
  /\ \A r1, r2 \in resets : r1.challenge = r2.challenge => r1 = r2
  /\ \A r \in resets : challenges[r.challenge].state = "VERIFIED"
===============================================================================
