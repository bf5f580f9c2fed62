------------------------------- MODULE StockPool -------------------------------
(***************************************************************************)
(* Module 05: InventoryApplicationService and InventoryReservationService   *)
(* over PrismaInventoryRepository.  Sellers adjust and administrators count *)
(* a SKU's stock, carts and orders reserve and release it.                  *)
(*                                                                          *)
(* A pool's row is locked for the whole of a mutation, so a mutation of an  *)
(* existing pool is one step.  A pool that does not exist cannot be locked: *)
(* its activation reads nothing and inserts in two steps, and only the      *)
(* unique (SKU, seller) pair stops a second one.  Acquiring and completing  *)
(* the idempotency row are atomic here; ApiIdempotency takes them apart.    *)
(* Ownership, grants and the state of the SKU are checked before the row is *)
(* acquired; they refuse a request and change nothing.                      *)
(***************************************************************************)
EXTENDS Integers, Sequences, StockPolicy, IdempotencyRecords

CONSTANTS
  Skus, Calls,
  Keys,    \* idempotency keys and correlation ids
  NoKey    \* a reservation without correlation id

ASSUME NoKeyAssumption == NoKey \notin Keys

VARIABLES
  pool,     \* [Skus -> row]           inventory_stock_pools
  ledger,   \* [Skus -> Seq(movement)] inventory_movement_records
  record,   \* [IdemKeys -> row]       api_idempotency_records
  task      \* [Calls -> what a call is doing]

vars == <<pool, ledger, record, task>>

\* No row: version 0 is what a caller that saw no pool expects.
NoPool == [onHand |-> 0, reserved |-> 0, version |-> 0]

\* The pool an activation starts from, before its first movement.
InitialPool == [onHand |-> 0, reserved |-> 0, version |-> 1]

Pools == [onHand : Units, reserved : Units, version : Nat]

Operations == {"inventory.adjust", "inventory.correct",
               "inventory.reserve", "inventory.release"}

IdemKeys == Skus \X Operations \X (Keys \cup {NoKey})

Prints == [movement : Movements, version : Nat] \cup [quantity : Deltas]

Results == {"APPLIED", "RESERVED", "DENIED", "FAILED"}

\* A movement record, with the call that made it and the quantities its author
\* saw (history fields).
Entries == [movement : Movements, delta : Deltas, resultingOnHand : Units,
            resultingReserved : Units, version : Nat, id : IdemKeys, seen : Pools]

Idle == [pc |-> "idle"]

MoveTasks == [pc : {"acquire", "move", "create", "abandon"}, id : IdemKeys,
              print : [movement : Movements, version : Nat], seen : Pools]

ReservationTasks == [pc : {"acquire", "inventory.reserve", "inventory.release"},
                     id : IdemKeys, print : [quantity : Deltas]]

CompleteTasks == [pc : {"complete"}, id : IdemKeys, print : Prints,
                  result : Results]

TypeOK ==
  /\ pool \in [Skus -> Pools]
  /\ ledger \in [Skus -> Seq(Entries)]
  /\ record \in [IdemKeys -> Rows(Calls, Prints, Results)]
  /\ task \in [Calls -> {Idle} \cup MoveTasks \cup ReservationTasks
                          \cup CompleteTasks]

Init ==
  /\ pool = [s \in Skus |-> NoPool]
  /\ ledger = [s \in Skus |-> <<>>]
  /\ record = [i \in IdemKeys |-> Absent]
  /\ task = [t \in Calls |-> Idle]

Goto(t, step) == task' = [task EXCEPT ![t].pc = step]

Finish(t) == task' = [task EXCEPT ![t] = Idle]

Sku(t) == task[t].id[1]

Operation(t) == task[t].id[2]

\* A reservation without a key has nothing to complete.
Conclude(t, result) ==
  task' = [task EXCEPT ![t] =
    IF task[t].id[3] = NoKey THEN Idle
    ELSE [pc |-> "complete", id |-> task[t].id, print |-> task[t].print,
          result |-> result]]

\* The movement of call t is applied to pool p: the row and its ledger entry are
\* written in one transaction.
Record(t, p) ==
  LET movement == task[t].print.movement
      moved == Moved(p, movement)
  IN  /\ pool' = [pool EXCEPT ![Sku(t)] = moved]
      /\ ledger' = [ledger EXCEPT ![Sku(t)] = Append(@,
           [movement |-> movement, delta |-> RecordedDelta(p.onHand, movement),
            resultingOnHand |-> moved.onHand, resultingReserved |-> moved.reserved,
            version |-> moved.version, id |-> task[t].id, seen |-> task[t].seen])]

-------------------------------------------------------------------------------
(* Faulty variants, each a bug the code could have.                           *)

\* no unique (SKU, seller) pair: the later activation replaces the earlier
CreateOverwrites(t) ==
  /\ task[t].pc = "create"
  /\ Record(t, InitialPool)
  /\ Conclude(t, "APPLIED")
  /\ UNCHANGED record

\* a restart clears the keys that were in progress
DropFreesKey(t) ==
  /\ task[t] # Idle
  /\ record' = [record EXCEPT ![task[t].id] =
       IF OwnProcessingRow(@, t) THEN Absent ELSE @]
  /\ Finish(t)
  /\ UNCHANGED <<pool, ledger>>

-------------------------------------------------------------------------------
(* adjustStock and adminCorrectStock                                          *)

\* A seller or an administrator acts on the pool it sees.
RequestMovement(t, s, movement, k) ==
  /\ task[t] = Idle
  /\ task' = [task EXCEPT ![t] =
       [pc |-> "acquire",
        id |-> <<s, IF movement.type = "COUNT_CORRECTION" THEN "inventory.correct"
                    ELSE "inventory.adjust", k>>,
        print |-> [movement |-> movement, version |-> pool[s].version],
        seen |-> pool[s]]]
  /\ UNCHANGED <<pool, ledger, record>>

Acquire(t) ==
  /\ task[t].pc = "acquire"
  /\ LET outcome == AcquireOutcome(record[task[t].id], task[t].print) IN
       \/ /\ outcome = "ACQUIRED"
          /\ record' = [record EXCEPT ![task[t].id] = Processing(t, task[t].print)]
          /\ Goto(t, IF Operation(t) \in {"inventory.reserve", "inventory.release"}
                       THEN Operation(t) ELSE "move")
       \/ /\ outcome # "ACQUIRED"
          /\ Finish(t)
          /\ UNCHANGED record
  /\ UNCHANGED <<pool, ledger>>

\* No pool was found to lock: an activation is built, if the caller expects none.
FindNoPool(t) ==
  /\ task[t].pc = "move"
  /\ pool[Sku(t)] = NoPool
  /\ IF /\ task[t].print.version = 0
        /\ MovementPermitted(InitialPool, task[t].print.movement)
       THEN Goto(t, "create") ELSE Goto(t, "abandon")
  /\ UNCHANGED <<pool, ledger, record>>

\* The activation is inserted, unless another one was meanwhile.
CreatePool(t) ==
  /\ task[t].pc = "create"
  /\ \/ /\ pool[Sku(t)] = NoPool
        /\ Record(t, InitialPool)
        /\ Conclude(t, "APPLIED")
     \/ /\ pool[Sku(t)] # NoPool
        /\ Goto(t, "abandon")
        /\ UNCHANGED <<pool, ledger>>
  /\ UNCHANGED record

\* The locked pool is the one the caller expects, and the policy accepts.
ApplyMovement(t) ==
  /\ task[t].pc = "move"
  /\ LET p == pool[Sku(t)]
         accepted == /\ p.version = task[t].print.version
                     /\ MovementPermitted(p, task[t].print.movement)
     IN  /\ p # NoPool
         /\ \/ /\ accepted
               /\ Record(t, p)
               /\ Conclude(t, "APPLIED")
            \/ /\ ~accepted
               /\ Goto(t, "abandon")
               /\ UNCHANGED <<pool, ledger>>
  /\ UNCHANGED record

-------------------------------------------------------------------------------
(* InventoryReservationPort: reserve and release                              *)

\* Carts and orders ask; with a correlation id the answer is kept under it.
RequestReservation(t, s, operation, quantity, k) ==
  /\ task[t] = Idle
  /\ operation \in {"inventory.reserve", "inventory.release"}
  /\ task' = [task EXCEPT ![t] =
       [pc |-> IF k = NoKey THEN operation ELSE "acquire",
        id |-> <<s, operation, k>>, print |-> [quantity |-> quantity]]]
  /\ UNCHANGED <<pool, ledger, record>>

\* An answer is a result, never an error: a denial is kept like a success.
Reserve(t) ==
  /\ task[t].pc = "inventory.reserve"
  /\ LET p == pool[Sku(t)]
         q == task[t].print.quantity
     IN  \/ /\ p # NoPool /\ ReservePermitted(p, q)
            /\ pool' = [pool EXCEPT ![Sku(t)] = Raised(p, q)]
            /\ Conclude(t, "RESERVED")
         \/ /\ ~(p # NoPool /\ ReservePermitted(p, q))
            /\ Conclude(t, "DENIED")
            /\ UNCHANGED pool
  /\ UNCHANGED <<ledger, record>>

Release(t) ==
  /\ task[t].pc = "inventory.release"
  /\ LET p == pool[Sku(t)]
         q == task[t].print.quantity
     IN  \/ /\ p # NoPool /\ ReleasePermitted(p, q)
            /\ pool' = [pool EXCEPT ![Sku(t)] = Lowered(p, q)]
            /\ Conclude(t, "RESERVED")
         \/ /\ ~(p # NoPool /\ ReleasePermitted(p, q))
            /\ Conclude(t, "DENIED")
            /\ UNCHANGED pool
  /\ UNCHANGED <<ledger, record>>

\* The transaction fails and rolls back: FAILED is the answer, and is kept too.
ReservationFails(t) ==
  /\ task[t].pc \in {"inventory.reserve", "inventory.release"}
  /\ Conclude(t, "FAILED")
  /\ UNCHANGED <<pool, ledger, record>>

-------------------------------------------------------------------------------
(* How a call ends                                                            *)

\* The operation threw: the call's own PROCESSING row is deleted.
Abandon(t) ==
  /\ task[t].pc = "abandon"
  /\ record' = [record EXCEPT ![task[t].id] =
       IF OwnProcessingRow(@, t) THEN Absent ELSE @]
  /\ Finish(t)
  /\ UNCHANGED <<pool, ledger>>

\* The operation returned: its result is stored and sent.
Complete(t) ==
  /\ task[t].pc = "complete"
  /\ OwnProcessingRow(record[task[t].id], t)
  /\ record' = [record EXCEPT ![task[t].id] =
       Completed(task[t].print, task[t].result)]
  /\ Finish(t)
  /\ UNCHANGED <<pool, ledger>>

\* The process serving the call dies between two steps; nothing is undone.
Drop(t) ==
  /\ task[t] # Idle
  /\ Finish(t)
  /\ UNCHANGED <<pool, ledger, record>>

Next ==
  \E t \in Calls :
    \/ \E s \in Skus, movement \in Movements, k \in Keys :
         RequestMovement(t, s, movement, k)
    \/ \E s \in Skus, operation \in Operations, quantity \in Deltas,
          k \in Keys \cup {NoKey} : RequestReservation(t, s, operation, quantity, k)
    \/ Acquire(t)
    \/ FindNoPool(t)
    \/ CreatePool(t)
    \/ ApplyMovement(t)
    \/ Reserve(t)
    \/ Release(t)
    \/ ReservationFails(t)
    \/ Abandon(t)
    \/ Complete(t)
    \/ Drop(t)

Spec == Init /\ [][Next]_vars

-------------------------------------------------------------------------------

\* D-02: whatever sellers take out while carts and orders reserve, what is
\* available is never negative.
NeverOversold == \A s \in Skus : pool[s].reserved <= pool[s].onHand

\* The stock before the i-th movement of s.
Before(s, i) == IF i = 1 THEN 0 ELSE ledger[s][i-1].resultingOnHand

\* The i-th movement of s starts from the quantity the one before left.
Follows(s, i) ==
  LET entry == ledger[s][i] IN
  /\ entry.resultingOnHand = Resulting(Before(s, i), entry.movement)
  /\ entry.delta = Distance(entry.resultingOnHand, Before(s, i))
  /\ entry.version <= pool[s].version
  /\ i > 1 => ledger[s][i-1].version < entry.version

\* The ledger explains the stock: each movement starts from the quantity the
\* one before left, with nothing lost between them, and the last one left what
\* the pool holds.  A lost update or a second activation would break it.
LedgerExplainsStock ==
  \A s \in Skus :
    /\ pool[s] = NoPool <=> ledger[s] = <<>>
    /\ pool[s].onHand = Before(s, Len(ledger[s]) + 1)
    /\ \A i \in 1..Len(ledger[s]) : Follows(s, i)

\* A movement only ever lands on the pool its author saw when asking for it: no
\* movement, reservation or release came between.
MovementsActOnWhatWasSeen ==
  \A s \in Skus : \A i \in DOMAIN ledger[s] :
    LET entry == ledger[s][i] IN
    /\ entry.seen.onHand = Before(s, i)
    /\ entry.seen.reserved = entry.resultingReserved

\* However often a movement is asked for under one key, and wherever earlier
\* attempts were interrupted, it is applied once.
OneMovementPerKey ==
  \A s \in Skus : \A i, j \in DOMAIN ledger[s] :
    ledger[s][i].id = ledger[s][j].id => i = j

\* Read through its two quantities, the pool behaves like the abstract stock.
Abstract == INSTANCE Stock WITH
  onHand <- [s \in Skus |-> pool[s].onHand],
  reserved <- [s \in Skus |-> pool[s].reserved]

ImplementsStock == Abstract!Spec
===============================================================================
