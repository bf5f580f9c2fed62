------------------------------ MODULE AtMostOnce ------------------------------
(***************************************************************************)
(* What an idempotency key promises to its callers, without the table: a   *)
(* key is decided at most once, by one of the calls that carry it, and a    *)
(* call that gets a result gets the result of the deciding call.            *)
(***************************************************************************)
CONSTANTS Requests, Keys, None

VARIABLES
  decided,   \* [Keys -> Requests \cup {None}]      the call that took effect
  answer     \* [Requests -> Requests \cup {None}]  whose result a call got

Init ==
  /\ decided = [k \in Keys |-> None]
  /\ answer = [r \in Requests |-> None]

\* The operation of call r takes effect under key k.
Decide(k, r) ==
  /\ decided[k] = None
  /\ decided' = [decided EXCEPT ![k] = r]
  /\ UNCHANGED answer

\* Call r is answered with the result decided for key k.
Answer(k, r) ==
  /\ decided[k] # None
  /\ answer[r] = None
  /\ answer' = [answer EXCEPT ![r] = decided[k]]
  /\ UNCHANGED decided

Next == \E k \in Keys, r \in Requests : Decide(k, r) \/ Answer(k, r)

Spec == Init /\ [][Next]_<<decided, answer>>
===============================================================================
