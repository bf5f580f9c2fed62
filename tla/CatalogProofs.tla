----------------------------- MODULE CatalogProofs -----------------------------
(***************************************************************************)
(* Proofs about Catalog for any number of products, SKUs, administrators    *)
(* and calls.  All rests on one fact about the version guard: a call that   *)
(* may save has read the product as it is.                                  *)
(***************************************************************************)
EXTENDS Catalog, TLAPS

\* What a call has read is the product, or an older version of it.
Fits(x) ==
  x.pc # "idle" =>
    /\ products[x.product] # NoProduct
    /\ x.seen.version <= products[x.product].version
    /\ x.seen.version = products[x.product].version => x.seen = products[x.product]

\* What a call is going to do is allowed in the state it has read.
Allowed(x) ==
  /\ x.pc \in {"check", "move"} => <<x.seen.state, x.to>> \in Transitions
  /\ x.pc \in {"update", "addSku"} => x.seen.state \in Updatable
  /\ x.pc = "closeSku" => x.seen.state # "PUBLISHED"

\* The SKU that is going to be closed is one of the product.
Owned(x) ==
  x.pc = "closeSku" => skus[x.sku] # NoSku /\ skus[x.sku].product = x.product

SeenInv == \A t \in Calls : Fits(task[t]) /\ Allowed(task[t]) /\ Owned(task[t])

\* A SKU belongs to a product that exists.
SkuInv == \A k \in Skus : skus[k] # NoSku => products[skus[k].product] # NoProduct

\* The log of a product ends with the product.
LogInv ==
  \A p \in Products :
    /\ products[p] = NoProduct => log[p] = {}
    /\ products[p] # NoProduct =>
         /\ products[p].revision <= products[p].version
         /\ \A e \in log[p] : e.version <= products[p].version

WasReviewed(p) ==
  \E review \in Reviews(p), approval \in log[p] :
    /\ \A e \in Reviews(p) : e.version <= review.version
    /\ approval.to = "APPROVED"
    /\ approval.version > review.version
    /\ approval.actor # review.actor
    /\ products[p].revision < review.version

ReviewInv ==
  \A p \in Products :
    /\ products[p].state = "UNDER_REVIEW" =>
         \E r \in Reviews(p) :
           r.version = products[p].version /\ products[p].revision < r.version
    /\ products[p].state \in {"APPROVED", "PUBLISHED"} => WasReviewed(p)

\* The check of an approval stays true until the product moves.
CheckInv ==
  \A t \in Calls :
    (/\ task[t].pc = "move"
     /\ task[t].to = "APPROVED"
     /\ task[t].seen.version = products[task[t].product].version) =>
       \E e \in LatestReview(task[t].product) : e.actor # task[t].actor

IInv == TypeOK /\ SeenInv /\ SkuInv /\ LogInv /\ ReviewInv /\ CheckInv

-------------------------------------------------------------------------------
MediaTasks == [pc : {"countMedia", "recordMedia"}, product : Products, seen : ProductRows]

LEMMA TaskShapes ==
  ASSUME NEW x \in {Idle} \cup Tasks
  PROVE  /\ x = Idle <=> x.pc = "idle"
         /\ x.pc # "idle" => x \in Tasks /\ x.product \in Products /\ x.seen \in ProductRows
         /\ x.pc \in {"check", "move"} =>
              /\ x \in [pc : {"check", "move"}, product : Products, seen : ProductRows,
                        to : ProductStates, actor : Identities]
              /\ x.to \in ProductStates
              /\ x.actor \in Identities
         /\ x.pc = "closeSku" => x.sku \in Skus
         /\ x.pc \in {"countMedia", "recordMedia"} => x \in MediaTasks
  BY DEF Idle, Tasks, MediaTasks

LEMMA GoOn ==
  ASSUME TypeOK, NEW t \in Calls, NEW x \in {Idle} \cup Tasks, Go(t, x)
  PROVE  /\ task' \in [Calls -> {Idle} \cup Tasks]
         /\ task'[t] = x
         /\ \A u \in Calls : u # t => task'[u] = task[u]
  BY DEF TypeOK, Go

LEMMA MovedRow ==
  ASSUME NEW seen \in ProductRows, NEW to \in ProductStates
  PROVE  /\ Moved(seen, to) \in ProductRows
         /\ Moved(seen, to).state = to
         /\ Moved(seen, to).version = seen.version + 1
         /\ Moved(seen, to).revision = seen.revision
         /\ Moved(seen, to) # NoProduct
         /\ seen.version \in Nat
         /\ seen.revision \in Nat
  BY DEF Moved, ProductRows, NoProduct

\* A product that exists has a row.
LEMMA Exists ==
  ASSUME TypeOK, NEW p \in Products, products[p] # NoProduct
  PROVE  /\ products[p] \in ProductRows
         /\ products[p].state \in ProductStates
         /\ products[p].version \in Nat
         /\ products[p].revision \in Nat
  BY DEF TypeOK, ProductRows

\* The version guard: a call that may save has read the product as it is.
LEMMA SavedAsRead ==
  ASSUME TypeOK, SeenInv, NEW t \in Calls, task[t].pc # "idle", Savable(t)
  PROVE  /\ task[t].product \in Products
         /\ task[t].seen = products[task[t].product]
         /\ products[task[t].product] # NoProduct
         /\ products[task[t].product] \in ProductRows
<1>1. task[t].product \in Products /\ task[t].seen \in ProductRows
  BY TaskShapes DEF TypeOK
<1>2. /\ products[task[t].product] # NoProduct
      /\ task[t].seen = products[task[t].product]
  BY DEF SeenInv, Fits, Savable
<1> QED
  BY <1>1, <1>2

-------------------------------------------------------------------------------
(* What a step does to the rows.                                              *)

\* A row with another state or revision has another version.
LEMMA ProductSteps ==
  ASSUME TypeOK, SeenInv, [Next]_vars, NEW p \in Products
  PROVE  /\ products' \in [Products -> {NoProduct} \cup ProductRows]
         /\ products[p] # NoProduct =>
              /\ products'[p] # NoProduct
              /\ \/ products'[p] = products[p] /\ log'[p] = log[p]
                 \/ products'[p].version = products[p].version + 1
<1> DEFINE Ok ==
      /\ products' \in [Products -> {NoProduct} \cup ProductRows]
      /\ products[p] # NoProduct =>
           /\ products'[p] # NoProduct
           /\ \/ products'[p] = products[p] /\ log'[p] = log[p]
              \/ products'[p].version = products[p].version + 1
<1>1. ASSUME NEW q \in Products, NEW new \in SUBSET Skus, CreateProduct(q, new)
      PROVE  Ok
  <2>1. [state |-> "DRAFT", version |-> 1, revision |-> 1] \in ProductRows
    BY DEF ProductRows, ProductStates
  <2>2. /\ products' \in [Products -> {NoProduct} \cup ProductRows]
        /\ q # p => products'[p] = products[p] /\ log'[p] = log[p]
        /\ products[q] = NoProduct
    BY <1>1, <2>1 DEF CreateProduct, TypeOK
  <2> QED BY <2>2
<1>2. ASSUME NEW t \in Calls, Move(t)
      PROVE  Ok
  <2> DEFINE q == task[t].product
  <2> DEFINE row == Moved(task[t].seen, task[t].to)
  <2>1. /\ q \in Products
        /\ task[t].seen = products[q]
        /\ task[t].seen \in ProductRows
        /\ task[t].to \in ProductStates
    BY <1>2, SavedAsRead, TaskShapes DEF Move, At, TypeOK
  <2>2. row \in ProductRows /\ row.version = products[q].version + 1 /\ row # NoProduct
    BY <2>1, MovedRow
  <2>3. /\ products' = [products EXCEPT ![q] = row]
        /\ \E e : log' = [log EXCEPT ![q] = log[q] \cup {e}]
    BY <1>2 DEF Move
  <2> HIDE DEF row, q
  <2>4. products' \in [Products -> {NoProduct} \cup ProductRows]
    BY <2>1, <2>2, <2>3 DEF TypeOK
  <2>5. q # p => products'[p] = products[p] /\ log'[p] = log[p]
    BY <2>1, <2>3 DEF TypeOK
  <2>6. q = p => products'[p] = row
    BY <2>1, <2>3 DEF TypeOK
  <2> QED BY <2>2, <2>4, <2>5, <2>6
<1>3. ASSUME NEW t \in Calls, NEW new \in SUBSET Skus, Update(t, new)
      PROVE  Ok
  <2> DEFINE q == task[t].product
  <2> DEFINE row == [state |-> task[t].seen.state, version |-> task[t].seen.version + 1,
                     revision |-> task[t].seen.version + 1]
  <2>1. q \in Products /\ task[t].seen = products[q] /\ task[t].seen \in ProductRows
    BY <1>3, SavedAsRead DEF Update, At
  <2>2. row \in ProductRows /\ row.version = products[q].version + 1 /\ row # NoProduct
    BY <2>1 DEF ProductRows, NoProduct
  <2>3. products' = [products EXCEPT ![q] = row] /\ log' = log
    BY <1>3 DEF Update
  <2> HIDE DEF row, q
  <2>4. /\ products' \in [Products -> {NoProduct} \cup ProductRows]
        /\ q # p => products'[p] = products[p]
        /\ q = p => products'[p] = row
    BY <2>1, <2>2, <2>3 DEF TypeOK
  <2> QED BY <2>2, <2>3, <2>4
<1>4. ASSUME NEW t \in Calls,
             CloseSku(t) \/ RecordMedia(t) \/ \E k \in Skus : AddSku(t, k)
      PROVE  Ok
  <2>1. /\ products' = [products EXCEPT ![task[t].product] = task[t].seen]
        /\ task[t].seen = products[task[t].product]
        /\ log' = log
    BY <1>4, SavedAsRead DEF CloseSku, RecordMedia, AddSku, At
  <2>2. products' = products
    BY <2>1 DEF TypeOK
  <2> QED BY <2>1, <2>2 DEF TypeOK
<1>5. CASE UNCHANGED <<products, log>>
  BY <1>5 DEF TypeOK
<1> QED
  BY <1>1, <1>2, <1>3, <1>4, <1>5
  DEF Next, vars, ReadForMove, Check, ReadForUpdate, ReadForClosing, ReadForMedia,
      CountMedia, Drop

\* A SKU stays with its product; a new one is given to a product that is there.
LEMMA SkuSteps ==
  ASSUME TypeOK, SeenInv, SkuInv, [Next]_vars, NEW k \in Skus
  PROVE  /\ skus' \in [Skus -> {NoSku} \cup SkuRows]
         /\ skus[k] # NoSku => skus'[k] # NoSku /\ skus'[k].product = skus[k].product
         /\ (skus[k] = NoSku /\ skus'[k] # NoSku) => products'[skus'[k].product] # NoProduct
<1> DEFINE Ok ==
      /\ skus' \in [Skus -> {NoSku} \cup SkuRows]
      /\ skus[k] # NoSku => skus'[k] # NoSku /\ skus'[k].product = skus[k].product
      /\ (skus[k] = NoSku /\ skus'[k] # NoSku) => products'[skus'[k].product] # NoProduct
<1>1. ASSUME NEW p \in Products, NEW new, new \subseteq Fresh, Added(new, p),
             products'[p] # NoProduct
      PROVE  Ok
  <2> DEFINE row == [state |-> "ACTIVE", product |-> p]
  <2>1. row \in SkuRows /\ row # NoSku /\ row.product = p
    BY DEF SkuRows, NoSku
  <2>2. skus' = [j \in Skus |-> IF j \in new THEN row ELSE skus[j]]
    BY <1>1 DEF Added
  <2> HIDE DEF row
  <2>3. /\ skus' \in [Skus -> {NoSku} \cup SkuRows]
        /\ k \in new => skus[k] = NoSku /\ skus'[k] = row
        /\ k \notin new => skus'[k] = skus[k]
    BY <1>1, <2>1, <2>2 DEF Fresh, TypeOK
  <2> QED BY <1>1, <2>1, <2>3
<1>2. ASSUME NEW p \in Products, NEW new \in SUBSET Skus, CreateProduct(p, new)
      PROVE  Ok
  <2>1. products'[p] # NoProduct
    BY <1>2 DEF CreateProduct, NoProduct, TypeOK
  <2> QED BY <1>1, <1>2, <2>1 DEF CreateProduct
<1>3. ASSUME NEW t \in Calls, NEW new, Update(t, new) \/ \E j \in new : new = {j} /\ AddSku(t, j)
      PROVE  Ok
  <2>1. /\ task[t].product \in Products
        /\ products[task[t].product] # NoProduct
        /\ new \subseteq Fresh
        /\ Added(new, task[t].product)
    BY <1>3, SavedAsRead DEF Update, AddSku, At
  <2> QED BY <1>1, <2>1, ProductSteps
<1>4. ASSUME NEW t \in Calls, CloseSku(t)
      PROVE  Ok
  <2> DEFINE j == task[t].sku
  <2>1. j \in Skus /\ skus[j] # NoSku
    BY <1>4, TaskShapes DEF CloseSku, At, SeenInv, Owned, TypeOK
  <2>2. skus[j] \in SkuRows
    BY <2>1 DEF TypeOK
  <2> DEFINE row == [skus[j] EXCEPT !.state = "CLOSED"]
  <2>3. row \in SkuRows /\ row.product = skus[j].product /\ row # NoSku
    BY <2>2 DEF SkuRows, NoSku
  <2>4. skus' = [skus EXCEPT ![j] = row]
    BY <1>4 DEF CloseSku
  <2> HIDE DEF row, j
  <2> QED BY <2>1, <2>3, <2>4 DEF TypeOK
<1>5. ASSUME NEW t \in Calls, NEW j \in Skus, AddSku(t, j)
      PROVE  Ok
  <2>1. \E new : \E i \in new : new = {i} /\ AddSku(t, i)
    BY <1>5
  <2> QED BY <1>3, <2>1
<1>6. CASE UNCHANGED skus
  BY <1>6, SMTT(30) DEF TypeOK
<1> QED
  BY <1>2, <1>3, <1>4, <1>5, <1>6
  DEF Next, vars, ReadForMove, Check, Move, ReadForUpdate, ReadForClosing, ReadForMedia,
      CountMedia, RecordMedia, Drop

\* What a call is doing after a step: it goes on, or it has just read a product.
LEMMA TaskSteps ==
  ASSUME TypeOK, SeenInv, SkuInv, [Next]_vars, NEW t \in Calls
  PROVE  /\ task'[t] \in {Idle} \cup Tasks
         /\ \/ task'[t] = task[t]
            \/ task'[t] = Idle
            \/ /\ Check(t)
               /\ task'[t] = [task[t] EXCEPT !.pc = "move"]
            \/ /\ CountMedia(t)
               /\ task'[t] = [task[t] EXCEPT !.pc = "recordMedia"]
            \/ /\ task'[t].pc \in {"check", "update", "addSku", "closeSku", "countMedia"}
               /\ task'[t].product \in Products
               /\ products[task'[t].product] # NoProduct
               /\ task'[t].seen = products[task'[t].product]
               /\ UNCHANGED <<products, skus>>
               /\ Allowed(task'[t])
               /\ Owned(task'[t])
<1> DEFINE Ok ==
      /\ task'[t] \in {Idle} \cup Tasks
      /\ \/ task'[t] = task[t]
         \/ task'[t] = Idle
         \/ /\ Check(t)
            /\ task'[t] = [task[t] EXCEPT !.pc = "move"]
         \/ /\ CountMedia(t)
            /\ task'[t] = [task[t] EXCEPT !.pc = "recordMedia"]
         \/ /\ task'[t].pc \in {"check", "update", "addSku", "closeSku", "countMedia"}
            /\ task'[t].product \in Products
            /\ products[task'[t].product] # NoProduct
            /\ task'[t].seen = products[task'[t].product]
            /\ UNCHANGED <<products, skus>>
            /\ Allowed(task'[t])
            /\ Owned(task'[t])
<1>0. CASE task'[t] = task[t]
  BY <1>0 DEF TypeOK
<1>1. ASSUME Go(t, Idle)
      PROVE  Ok
  BY <1>1, GoOn
<1>2. ASSUME NEW p \in Products, NEW to \in ProductStates, NEW actor \in Identities,
             ReadForMove(t, p, to, actor)
      PROVE  Ok
  <2> DEFINE x == [pc |-> "check", product |-> p, seen |-> products[p], to |-> to,
                   actor |-> actor]
  <2>1. products[p] # NoProduct /\ products[p] \in ProductRows
    BY <1>2, Exists DEF ReadForMove
  <2>2. x \in Tasks /\ Allowed(x) /\ Owned(x)
    BY <1>2, <2>1 DEF Tasks, Allowed, Owned, ReadForMove
  <2>3. task'[t] = x
    BY <1>2, <2>2, GoOn DEF ReadForMove
  <2> QED BY <1>2, <2>1, <2>2, <2>3 DEF ReadForMove
<1>3. ASSUME NEW p \in Products, ReadForUpdate(t, p)
      PROVE  Ok
  <2>1. PICK pc \in {"update", "addSku"} :
          Go(t, [pc |-> pc, product |-> p, seen |-> products[p]])
    BY <1>3 DEF ReadForUpdate
  <2> DEFINE x == [pc |-> pc, product |-> p, seen |-> products[p]]
  <2>2. products[p] # NoProduct /\ products[p] \in ProductRows
    BY <1>3, Exists DEF ReadForUpdate, NoProduct, Updatable
  <2>3. x \in Tasks /\ Allowed(x) /\ Owned(x)
    BY <1>3, <2>2 DEF Tasks, Allowed, Owned, ReadForUpdate
  <2>4. task'[t] = x
    BY <2>1, <2>3, GoOn
  <2> QED BY <1>3, <2>2, <2>3, <2>4 DEF ReadForUpdate
<1>4. ASSUME NEW k \in Skus, ReadForClosing(t, k)
      PROVE  Ok
  <2> DEFINE p == skus[k].product
  <2> DEFINE x == [pc |-> "closeSku", product |-> p, seen |-> products[p], sku |-> k]
  <2>1. p \in Products
    BY <1>4 DEF ReadForClosing, TypeOK, SkuRows
  <2>2. products[p] # NoProduct /\ products[p] \in ProductRows
    BY <1>4, <2>1, Exists DEF SkuInv, ReadForClosing
  <2>3. x \in Tasks /\ Allowed(x) /\ Owned(x)
    BY <1>4, <2>1, <2>2 DEF Tasks, Allowed, Owned, ReadForClosing
  <2>4. task'[t] = x
    BY <1>4, <2>3, GoOn DEF ReadForClosing
  <2> QED BY <1>4, <2>1, <2>2, <2>3, <2>4 DEF ReadForClosing
<1>5. ASSUME Check(t)
      PROVE  Ok
  <2>1. task[t] \in [pc : {"check", "move"}, product : Products, seen : ProductRows,
                     to : ProductStates, actor : Identities]
    BY <1>5, TaskShapes DEF Check, At, TypeOK
  <2>2. [task[t] EXCEPT !.pc = "move"] \in Tasks
    BY <2>1 DEF Tasks
  <2> QED BY <1>5, <2>2, GoOn DEF Check
<1>6. ASSUME NEW p \in Products, ReadForMedia(t, p)
      PROVE  Ok
  <2> DEFINE x == [pc |-> "countMedia", product |-> p, seen |-> products[p]]
  <2>1. products[p] # NoProduct /\ products[p] \in ProductRows
    BY <1>6, Exists DEF ReadForMedia
  <2>2. x \in Tasks /\ Allowed(x) /\ Owned(x)
    BY <2>1 DEF Tasks, Allowed, Owned
  <2>3. task'[t] = x
    BY <1>6, <2>2, GoOn DEF ReadForMedia
  <2> QED BY <1>6, <2>1, <2>2, <2>3 DEF ReadForMedia
<1>7. ASSUME CountMedia(t)
      PROVE  Ok
  <2>1. task[t] \in MediaTasks
    BY <1>7, TaskShapes DEF CountMedia, At, TypeOK
  <2>2. [task[t] EXCEPT !.pc = "recordMedia"] \in Tasks
    BY <2>1 DEF Tasks, MediaTasks
  <2> QED BY <1>7, <2>2, GoOn DEF CountMedia
<1> QED
  <2>1. ASSUME NEW u \in Calls, u # t, NEW x, Go(u, x)
        PROVE  Ok
    BY <1>0, <2>1 DEF Go, TypeOK
  <2>2. CASE \/ \E p \in Products, to \in ProductStates, actor \in Identities :
                  ReadForMove(t, p, to, actor)
             \/ Check(t)
             \/ Move(t)
             \/ \E p \in Products : ReadForUpdate(t, p)
             \/ \E new \in SUBSET Skus : Update(t, new)
             \/ \E k \in Skus : AddSku(t, k)
             \/ \E k \in Skus : ReadForClosing(t, k)
             \/ CloseSku(t)
             \/ \E p \in Products : ReadForMedia(t, p)
             \/ CountMedia(t)
             \/ RecordMedia(t)
             \/ Drop(t)
    BY <1>1, <1>2, <1>3, <1>4, <1>5, <1>6, <1>7, <2>2
    DEF Move, Update, AddSku, CloseSku, RecordMedia, Drop
  <2>3. CASE task' = task
    BY <1>0, <2>3
  <2> QED
    BY <2>1, <2>2, <2>3, ZenonT(60)
    DEF Next, vars, CreateProduct, ReadForMove, Check, Move, ReadForUpdate, Update, AddSku,
        ReadForClosing, CloseSku, ReadForMedia, CountMedia, RecordMedia, Drop

-------------------------------------------------------------------------------
(* The parts of the invariant.                                                *)

LEMMA NextTypeOK ==
  ASSUME TypeOK, SeenInv, SkuInv, [Next]_vars
  PROVE  TypeOK'
<1>1. products' \in [Products -> {NoProduct} \cup ProductRows]
  <2>1. CASE Products = {}
    <3>1. products' = products
      BY <2>1, SavedAsRead, TaskShapes
      DEF Next, vars, ReadForMove, Check, Move, ReadForUpdate, Update, AddSku,
          ReadForClosing, CloseSku, ReadForMedia, CountMedia, RecordMedia, Drop, At,
          TypeOK, CreateProduct
    <3> QED BY <3>1 DEF TypeOK
  <2>2. CASE Products # {}
    BY <2>2, ProductSteps
  <2> QED BY <2>1, <2>2
<1>2. skus' \in [Skus -> {NoSku} \cup SkuRows]
  <2>1. CASE Skus = {}
    <3>1. skus' = skus \/ skus' = [k \in Skus |-> skus'[k]]
      BY <2>1 DEF Next, vars, ReadForMove, Check, Move, ReadForUpdate, Update, AddSku,
          ReadForClosing, CloseSku, ReadForMedia, CountMedia, RecordMedia, Drop,
          CreateProduct, Added, TypeOK
    <3> QED BY <2>1, <3>1 DEF TypeOK
  <2>2. CASE Skus # {}
    BY <2>2, SkuSteps
  <2> QED BY <2>1, <2>2
<1>3. log' \in [Products -> SUBSET Episodes]
  <2>1. ASSUME NEW p \in Products, NEW new \in SUBSET Skus, CreateProduct(p, new)
        PROVE  log' \in [Products -> SUBSET Episodes]
    <3>1. [to |-> "DRAFT", version |-> 1, actor |-> Owner] \in Episodes
      BY DEF Episodes, ProductStates, Identities
    <3> QED BY <2>1, <3>1 DEF CreateProduct, TypeOK
  <2>2. ASSUME NEW t \in Calls, Move(t)
        PROVE  log' \in [Products -> SUBSET Episodes]
    <3> DEFINE e == [to |-> task[t].to, version |-> Moved(task[t].seen, task[t].to).version,
                     actor |-> task[t].actor]
    <3>1. /\ task[t].seen \in ProductRows
          /\ task[t].to \in ProductStates
          /\ task[t].actor \in Identities
          /\ task[t].product \in Products
      BY <2>2, TaskShapes DEF Move, At, TypeOK
    <3>2. Moved(task[t].seen, task[t].to).version \in Nat
      BY <3>1, MovedRow
    <3>3. e \in Episodes
      BY <3>1, <3>2 DEF Episodes
    <3>4. log' = [log EXCEPT ![task[t].product] = log[task[t].product] \cup {e}]
      BY <2>2 DEF Move
    <3> HIDE DEF e
    <3> QED BY <3>1, <3>3, <3>4 DEF TypeOK
  <2>3. CASE log' = log
    BY <2>3 DEF TypeOK
  <2> QED
    BY <2>1, <2>2, <2>3 DEF Next, vars, ReadForMove, Check, ReadForUpdate, Update, AddSku,
      ReadForClosing, CloseSku, ReadForMedia, CountMedia, RecordMedia, Drop
<1>4. task' \in [Calls -> {Idle} \cup Tasks]
  <2>1. ASSUME NEW t \in Calls, \E x : Go(t, x)
        PROVE  task' = [u \in Calls |-> task'[u]]
    BY <2>1 DEF Go, TypeOK
  <2>2. task' = [u \in Calls |-> task'[u]]
    BY <2>1 DEF Next, vars, ReadForMove, Check, Move, ReadForUpdate, Update, AddSku,
      ReadForClosing, CloseSku, ReadForMedia, CountMedia, RecordMedia, Drop, CreateProduct,
      TypeOK
  <2> QED BY <2>2, TaskSteps
<1>5. media' \in [Products -> Nat]
  <2>1. ASSUME NEW t \in Calls, RecordMedia(t)
        PROVE  media' \in [Products -> Nat]
    <3>1. task[t].product \in Products
      BY <2>1, TaskShapes DEF RecordMedia, At, TypeOK
    <3>2. media' = [media EXCEPT ![task[t].product] = media[task[t].product] + 1]
      BY <2>1 DEF RecordMedia
    <3> QED BY <3>1, <3>2 DEF TypeOK
  <2>2. CASE media' = media
    BY <2>2 DEF TypeOK
  <2> QED
    BY <2>1, <2>2 DEF Next, vars, CreateProduct, ReadForMove, Check, Move, ReadForUpdate,
      Update, AddSku, ReadForClosing, CloseSku, ReadForMedia, CountMedia, Drop
<1> QED
  BY <1>1, <1>2, <1>3, <1>4, <1>5 DEF TypeOK

LEMMA NextSeenInv ==
  ASSUME TypeOK, TypeOK', SeenInv, SkuInv, [Next]_vars
  PROVE  SeenInv'
<1> SUFFICES ASSUME NEW t \in Calls
             PROVE  /\ Fits(task[t])'
                    /\ Allowed(task'[t])
                    /\ Owned(task[t])'
  BY DEF SeenInv, Allowed
<1>0. ASSUME NEW x \in {Idle} \cup Tasks, Fits(x)
      PROVE  Fits(x)'
  <2>1. SUFFICES ASSUME x.pc # "idle"
                 PROVE  /\ products'[x.product] # NoProduct
                        /\ x.seen.version <= products'[x.product].version
                        /\ x.seen.version = products'[x.product].version =>
                             x.seen = products'[x.product]
    BY DEF Fits
  <2>2. x.product \in Products /\ x.seen \in ProductRows
    BY <2>1, TaskShapes
  <2>3. /\ products[x.product] # NoProduct
        /\ x.seen.version <= products[x.product].version
        /\ x.seen.version = products[x.product].version => x.seen = products[x.product]
    BY <1>0, <2>1 DEF Fits
  <2>4. x.seen.version \in Nat /\ products[x.product].version \in Nat
    BY <2>2, <2>3, Exists DEF ProductRows
  <2>5. /\ products'[x.product] # NoProduct
        /\ \/ products'[x.product] = products[x.product]
           \/ products'[x.product].version = products[x.product].version + 1
    BY <2>2, <2>3, ProductSteps
  <2> QED BY <2>3, <2>4, <2>5
<1>1. ASSUME NEW x \in {Idle} \cup Tasks, Owned(x)
      PROVE  Owned(x)'
  BY <1>1, TaskShapes, SkuSteps DEF Owned
<1>2. CASE task'[t] = task[t]
  <2>1. task[t] \in {Idle} \cup Tasks /\ Fits(task[t]) /\ Allowed(task[t]) /\ Owned(task[t])
    BY DEF TypeOK, SeenInv
  <2>2. PICK x \in {Idle} \cup Tasks : x = task[t]
    BY <2>1
  <2>3. Fits(x)' /\ Owned(x)' /\ Allowed(x)
    BY <1>0, <1>1, <2>1, <2>2
  <2>4. task'[t] = x
    BY <1>2, <2>2
  <2> QED BY <2>3, <2>4 DEF Fits, Owned
<1>3. CASE task'[t] = Idle
  BY <1>3 DEF Idle, Fits, Allowed, Owned
<1>4. CASE Check(t) /\ task'[t] = [task[t] EXCEPT !.pc = "move"]
  <2>1. task[t] \in [pc : {"check", "move"}, product : Products, seen : ProductRows,
                     to : ProductStates, actor : Identities]
    BY <1>4, TaskShapes DEF Check, At, TypeOK
  <2>2. /\ task'[t].pc = "move"
        /\ task'[t].product = task[t].product
        /\ task'[t].seen = task[t].seen
        /\ task'[t].to = task[t].to
    BY <1>4, <2>1
  <2>3. /\ task[t].pc = "check"
        /\ products' = products
        /\ Fits(task[t])
        /\ Allowed(task[t])
    BY <1>4 DEF Check, At, SeenInv
  <2> QED BY <2>2, <2>3 DEF Fits, Allowed, Owned
<1>6. CASE CountMedia(t) /\ task'[t] = [task[t] EXCEPT !.pc = "recordMedia"]
  <2>1. task[t] \in MediaTasks
    BY <1>6, TaskShapes DEF CountMedia, At, TypeOK
  <2>2. /\ task'[t].pc = "recordMedia"
        /\ task'[t].product = task[t].product
        /\ task'[t].seen = task[t].seen
    BY <1>6, <2>1 DEF MediaTasks
  <2>3. /\ task[t].pc = "countMedia"
        /\ products' = products
        /\ Fits(task[t])
    BY <1>6 DEF CountMedia, At, SeenInv
  <2> QED BY <2>2, <2>3 DEF Fits, Allowed, Owned
<1>5. CASE /\ task'[t].pc \in {"check", "update", "addSku", "closeSku", "countMedia"}
           /\ task'[t].product \in Products
           /\ products[task'[t].product] # NoProduct
           /\ task'[t].seen = products[task'[t].product]
           /\ UNCHANGED <<products, skus>>
           /\ Allowed(task'[t])
           /\ Owned(task'[t])
  <2>1. products[task'[t].product].version \in Nat
    BY <1>5, Exists
  <2> QED BY <1>5, <2>1 DEF Fits, Owned
<1> QED
  BY <1>2, <1>3, <1>4, <1>5, <1>6, TaskSteps

LEMMA NextSkuInv ==
  ASSUME TypeOK, SeenInv, SkuInv, [Next]_vars
  PROVE  SkuInv'
<1> SUFFICES ASSUME NEW k \in Skus, skus'[k] # NoSku
             PROVE  products'[skus'[k].product] # NoProduct
  BY DEF SkuInv
<1>1. CASE skus[k] = NoSku
  BY <1>1, SkuSteps
<1>2. CASE skus[k] # NoSku
  <2>1. skus[k].product \in Products /\ products[skus[k].product] # NoProduct
    BY <1>2 DEF TypeOK, SkuRows, SkuInv
  <2>2. skus'[k].product = skus[k].product
    BY <1>2, SkuSteps
  <2> QED BY <2>1, <2>2, ProductSteps
<1> QED
  BY <1>1, <1>2

\* What a move leaves behind.
LEMMA MoveSteps ==
  ASSUME TypeOK, SeenInv, NEW t \in Calls, Move(t), NEW p \in Products, p = task[t].product
  PROVE  /\ products[p] # NoProduct
         /\ products[p] \in ProductRows
         /\ task[t].seen = products[p]
         /\ <<products[p].state, task[t].to>> \in Transitions
         /\ products'[p].state = task[t].to
         /\ products'[p].version = products[p].version + 1
         /\ products'[p].revision = products[p].revision
         /\ log'[p] = log[p] \cup {[to |-> task[t].to, version |-> products[p].version + 1,
                                    actor |-> task[t].actor]}
         /\ \A q \in Products : q # p => products'[q] = products[q] /\ log'[q] = log[q]
<1>1. /\ task[t].seen = products[p]
      /\ products[p] # NoProduct
      /\ products[p] \in ProductRows
      /\ task[t].to \in ProductStates
      /\ <<products[p].state, task[t].to>> \in Transitions
  BY SavedAsRead, TaskShapes DEF Move, At, SeenInv, Allowed, TypeOK
<1> DEFINE row == Moved(task[t].seen, task[t].to)
<1>2. /\ row.state = task[t].to
      /\ row.version = products[p].version + 1
      /\ row.revision = products[p].revision
  BY <1>1, MovedRow
<1>3. /\ products' = [products EXCEPT ![p] = row]
      /\ log' = [log EXCEPT ![p] = log[p] \cup
           {[to |-> task[t].to, version |-> row.version, actor |-> task[t].actor]}]
  BY DEF Move
<1> HIDE DEF row
<1>4. /\ products'[p] = row
      /\ log'[p] = log[p] \cup
           {[to |-> task[t].to, version |-> row.version, actor |-> task[t].actor]}
      /\ \A q \in Products : q # p => products'[q] = products[q] /\ log'[q] = log[q]
  BY <1>3 DEF TypeOK
<1> QED
  BY <1>1, <1>2, <1>4

\* A row changes with a move, with an edit, or when the product is created.
LEMMA RowSteps ==
  ASSUME TypeOK, SeenInv, [Next]_vars, NEW p \in Products
  PROVE  \/ products'[p] = products[p] /\ log'[p] = log[p]
         \/ /\ products[p] = NoProduct
            /\ products'[p] = [state |-> "DRAFT", version |-> 1, revision |-> 1]
            /\ log'[p] = {[to |-> "DRAFT", version |-> 1, actor |-> Owner]}
         \/ /\ products[p] \in ProductRows
            /\ products'[p].state \in Updatable
            /\ products'[p].version = products[p].version + 1
            /\ products'[p].revision = products[p].version + 1
            /\ log'[p] = log[p]
         \/ \E t \in Calls : Move(t) /\ task[t].product = p
<1> DEFINE Ok ==
      \/ products'[p] = products[p] /\ log'[p] = log[p]
      \/ /\ products[p] = NoProduct
         /\ products'[p] = [state |-> "DRAFT", version |-> 1, revision |-> 1]
         /\ log'[p] = {[to |-> "DRAFT", version |-> 1, actor |-> Owner]}
      \/ /\ products[p] \in ProductRows
         /\ products'[p].state \in Updatable
         /\ products'[p].version = products[p].version + 1
         /\ products'[p].revision = products[p].version + 1
         /\ log'[p] = log[p]
      \/ \E t \in Calls : Move(t) /\ task[t].product = p
<1>1. ASSUME NEW q \in Products, NEW new \in SUBSET Skus, CreateProduct(q, new)
      PROVE  Ok
  <2>1. CASE p = q
    BY <1>1, <2>1 DEF CreateProduct, TypeOK
  <2>2. CASE p # q
    BY <1>1, <2>2 DEF CreateProduct, TypeOK
  <2> QED BY <2>1, <2>2
<1>2. ASSUME NEW t \in Calls, NEW new \in SUBSET Skus, Update(t, new)
      PROVE  Ok
  <2> DEFINE q == task[t].product
  <2>1. /\ q \in Products
        /\ task[t].seen = products[q]
        /\ products[q] \in ProductRows
        /\ task[t].seen.state \in Updatable
    BY <1>2, SavedAsRead DEF Update, At, SeenInv, Allowed
  <2> DEFINE row == [state |-> task[t].seen.state, version |-> task[t].seen.version + 1,
                     revision |-> task[t].seen.version + 1]
  <2>2. row.state \in Updatable /\ row.version = products[q].version + 1
          /\ row.revision = products[q].version + 1
    BY <2>1
  <2>3. products' = [products EXCEPT ![q] = row] /\ log' = log
    BY <1>2 DEF Update
  <2> HIDE DEF row, q
  <2>4. CASE p = q
    BY <2>1, <2>2, <2>3, <2>4 DEF TypeOK
  <2>5. CASE p # q
    BY <2>3, <2>5 DEF TypeOK
  <2> QED BY <2>4, <2>5
<1>3. ASSUME NEW t \in Calls,
             CloseSku(t) \/ RecordMedia(t) \/ \E k \in Skus : AddSku(t, k)
      PROVE  Ok
  <2>1. /\ products' = [products EXCEPT ![task[t].product] = task[t].seen]
        /\ task[t].seen = products[task[t].product]
        /\ log' = log
    BY <1>3, SavedAsRead DEF CloseSku, RecordMedia, AddSku, At
  <2> QED BY <2>1 DEF TypeOK
<1>4. ASSUME NEW t \in Calls, Move(t)
      PROVE  Ok
  <2>1. task[t].product \in Products
    BY <1>4, TaskShapes DEF Move, At, TypeOK
  <2> QED BY <1>4, <2>1, MoveSteps
<1>5. CASE UNCHANGED <<products, log>>
  BY <1>5
<1> QED
  BY <1>1, <1>2, <1>3, <1>4, <1>5
  DEF Next, vars, ReadForMove, Check, ReadForUpdate, ReadForClosing, ReadForMedia,
      CountMedia, Drop

LEMMA NextLogInv ==
  ASSUME TypeOK, SeenInv, LogInv, [Next]_vars
  PROVE  LogInv'
<1> DEFINE Ends(p) ==
      /\ products'[p] = NoProduct => log'[p] = {}
      /\ products'[p] # NoProduct =>
           /\ products'[p].revision <= products'[p].version
           /\ \A e \in log'[p] : e.version <= products'[p].version
<1> SUFFICES ASSUME NEW p \in Products
             PROVE  Ends(p)
  BY DEF LogInv
<1>1. CASE products'[p] = products[p] /\ log'[p] = log[p]
  BY <1>1 DEF LogInv
<1>2. CASE /\ products[p] = NoProduct
           /\ products'[p] = [state |-> "DRAFT", version |-> 1, revision |-> 1]
           /\ log'[p] = {[to |-> "DRAFT", version |-> 1, actor |-> Owner]}
  BY <1>2 DEF NoProduct
<1>v. ASSUME products[p] # NoProduct
      PROVE  /\ products[p].version \in Nat
             /\ products[p].revision \in Nat
             /\ products'[p] # NoProduct
             /\ products[p].revision <= products[p].version
             /\ \A e \in log[p] : e.version \in Nat /\ e.version <= products[p].version
  <2>1. \A e \in log[p] : e.version \in Nat
    BY DEF TypeOK, Episodes
  <2> QED BY <1>v, <2>1, Exists, ProductSteps DEF LogInv
<1>3. CASE /\ products[p] \in ProductRows
           /\ products'[p].version = products[p].version + 1
           /\ products'[p].revision = products[p].version + 1
           /\ log'[p] = log[p]
  <2>1. products[p] # NoProduct
    BY <1>3 DEF ProductRows, NoProduct
  <2>2. /\ products[p].version \in Nat
        /\ products'[p] # NoProduct
        /\ \A e \in log[p] : e.version \in Nat /\ e.version <= products[p].version
    BY <1>v, <2>1
  <2> QED BY <1>3, <2>2
<1>4. ASSUME NEW t \in Calls, Move(t), task[t].product = p
      PROVE  Ends(p)
  <2> DEFINE new == [to |-> task[t].to, version |-> products[p].version + 1,
                     actor |-> task[t].actor]
  <2>1. /\ products[p] # NoProduct
        /\ products'[p].version = products[p].version + 1
        /\ products'[p].revision = products[p].revision
        /\ log'[p] = log[p] \cup {new}
    BY <1>4, MoveSteps
  <2>2. /\ products[p].version \in Nat
        /\ products[p].revision \in Nat
        /\ products'[p] # NoProduct
        /\ products[p].revision <= products[p].version
        /\ \A e \in log[p] : e.version \in Nat /\ e.version <= products[p].version
    BY <1>v, <2>1
  <2>3. new.version = products[p].version + 1
    OBVIOUS
  <2> HIDE DEF new
  <2> QED BY <2>1, <2>2, <2>3
<1> QED
  BY <1>1, <1>2, <1>3, <1>4, RowSteps

\* The check finds the last claim of the review it is about.
LEMMA NextCheckInv ==
  ASSUME TypeOK, TypeOK', SeenInv, SkuInv, CheckInv, [Next]_vars
  PROVE  CheckInv'
<1> SUFFICES ASSUME NEW t \in Calls,
                    task'[t].pc = "move",
                    task'[t].to = "APPROVED",
                    task'[t].seen.version = products'[task'[t].product].version
             PROVE  \E e \in LatestReview(task[t].product)' : e.actor # task'[t].actor
  BY DEF CheckInv
<1>0. task'[t].product \in Products
  BY TaskShapes DEF TypeOK
<1>1. ASSUME task'[t] = task[t]
      PROVE  \E e \in LatestReview(task[t].product)' : e.actor # task'[t].actor
  <2> DEFINE p == task[t].product
  <2>1. /\ p \in Products
        /\ task[t].pc = "move"
        /\ task[t].to = "APPROVED"
        /\ task[t].seen.version = products'[p].version
    BY <1>0, <1>1
  <2>2. /\ products[p] # NoProduct
        /\ task[t].seen.version <= products[p].version
        /\ products[p].version \in Nat
    BY <2>1, Exists DEF SeenInv, Fits
  <2>3. products'[p] = products[p] /\ log'[p] = log[p]
    BY <2>1, <2>2, ProductSteps
  <2>4. \E e \in LatestReview(p) : e.actor # task[t].actor
    BY <2>1, <2>3 DEF CheckInv
  <2>5. log'[task'[t].product] = log[task[t].product]
    BY <1>1, <2>3
  <2>6. LatestReview(task[t].product)' = LatestReview(p)
    BY <2>5 DEF LatestReview, Reviews
  <2> QED BY <1>1, <2>4, <2>6
<1>2. ASSUME Check(t), task'[t] = [task[t] EXCEPT !.pc = "move"]
      PROVE  \E e \in LatestReview(task[t].product)' : e.actor # task'[t].actor
  <2>1. task[t] \in [pc : {"check", "move"}, product : Products, seen : ProductRows,
                     to : ProductStates, actor : Identities]
    BY <1>2, TaskShapes DEF Check, At, TypeOK
  <2>2. /\ task'[t].product = task[t].product
        /\ task'[t].actor = task[t].actor
        /\ task'[t].to = task[t].to
    BY <1>2, <2>1
  <2>3. <<task[t].seen.state, "APPROVED">> \in Transitions
    BY <1>2, <2>2 DEF Check, At, SeenInv, Allowed
  <2>4. task[t].seen.state = "UNDER_REVIEW"
    BY <2>3 DEF Transitions
  <2>5. \E e \in LatestReview(task[t].product) : e.actor # task[t].actor
    BY <1>2, <2>2, <2>4 DEF Check
  <2>6. log'[task'[t].product] = log[task[t].product]
    BY <1>2, <2>2 DEF Check
  <2>7. LatestReview(task[t].product)' = LatestReview(task[t].product)
    BY <2>6 DEF LatestReview, Reviews
  <2> QED BY <2>2, <2>5, <2>7
<1>3. task'[t] # Idle
  BY DEF Idle
<1>4. ~(CountMedia(t) /\ task'[t] = [task[t] EXCEPT !.pc = "recordMedia"])
  BY TaskShapes DEF CountMedia, At, TypeOK, MediaTasks
<1> QED
  BY <1>1, <1>2, <1>3, <1>4, TaskSteps

LEMMA NextReviewInv ==
  ASSUME TypeOK, SeenInv, LogInv, ReviewInv, CheckInv, [Next]_vars
  PROVE  ReviewInv'
<1> DEFINE Ok(p) ==
      /\ products'[p].state = "UNDER_REVIEW" =>
           \E r \in Reviews(p)' :
             r.version = products'[p].version /\ products'[p].revision < r.version
      /\ products'[p].state \in {"APPROVED", "PUBLISHED"} => WasReviewed(p)'
<1> SUFFICES ASSUME NEW p \in Products
             PROVE  Ok(p)
  BY DEF ReviewInv
<1>1. CASE products'[p] = products[p] /\ log'[p] = log[p]
  BY <1>1 DEF ReviewInv, Reviews, WasReviewed
<1>2. CASE products'[p] = [state |-> "DRAFT", version |-> 1, revision |-> 1]
  BY <1>2
<1>3. CASE products'[p].state \in Updatable
  BY <1>3 DEF Updatable
<1>4. ASSUME NEW t \in Calls, Move(t), task[t].product = p
      PROVE  Ok(p)
  <2> DEFINE v == products[p].version
  <2> DEFINE to == task[t].to
  <2> DEFINE actor == task[t].actor
  <2> DEFINE new == [to |-> to, version |-> v + 1, actor |-> actor]
  <2>1. /\ products[p] # NoProduct
        /\ task[t].seen = products[p]
        /\ <<products[p].state, to>> \in Transitions
        /\ products'[p].state = to
        /\ products'[p].version = v + 1
        /\ products'[p].revision = products[p].revision
        /\ log'[p] = log[p] \cup {new}
    BY <1>4, MoveSteps
  <2>2. /\ v \in Nat
        /\ products[p].revision \in Nat
        /\ products[p].revision <= v
        /\ \A e \in log[p] : e.version \in Nat /\ e.version <= v
    BY <2>1, Exists DEF LogInv, TypeOK, Episodes
  <2>3. new.to = to /\ new.version = v + 1 /\ new.actor = actor
    OBVIOUS
  <2>4. task[t].pc = "move" /\ task[t].seen.version = products[task[t].product].version
    BY <1>4, <2>1 DEF Move, At
  <2> HIDE DEF new
  <2>5. CASE to = "UNDER_REVIEW"
    <3>1. new \in Reviews(p)'
      BY <2>1, <2>3, <2>5 DEF Reviews
    <3>2. products'[p].revision < new.version /\ new.version = products'[p].version
      BY <2>1, <2>2, <2>3
    <3> QED BY <2>1, <2>5, <3>1, <3>2
  <2>6. to # "UNDER_REVIEW" => Reviews(p)' = Reviews(p)
    BY <2>1, <2>3 DEF Reviews
  <2>7. CASE to = "APPROVED"
    <3>1. PICK e \in LatestReview(p) : e.actor # actor
      BY <1>4, <2>4, <2>7 DEF CheckInv
    <3>2. products[p].state = "UNDER_REVIEW"
      BY <2>1, <2>7 DEF Transitions
    <3>3. PICK r \in Reviews(p) : r.version = v /\ products[p].revision < r.version
      BY <3>2 DEF ReviewInv
    <3>4. /\ e \in Reviews(p)
          /\ e \in log[p]
          /\ \A other \in Reviews(p) : e.version >= other.version
      BY <3>1 DEF LatestReview, Reviews
    <3>5. \A other \in Reviews(p) : other \in log[p]
      BY DEF Reviews
    <3>6. e.version = v
      BY <2>2, <3>3, <3>4
    <3>7. \A other \in Reviews(p) : other.version <= e.version
      BY <2>2, <3>4, <3>5
    <3>8. new.version > e.version /\ products'[p].revision < e.version /\ new.actor # e.actor
      BY <2>1, <2>2, <2>3, <3>1, <3>3, <3>6
    <3>9. Reviews(p)' = Reviews(p) /\ new \in log'[p]
      BY <2>1, <2>6, <2>7
    <3>10. WasReviewed(p)'
      BY <2>3, <2>7, <3>4, <3>7, <3>8, <3>9 DEF WasReviewed
    <3> QED BY <2>1, <2>7, <3>10
  <2>8. CASE to = "PUBLISHED"
    <3>1. products[p].state = "APPROVED"
      BY <2>1, <2>8 DEF Transitions
    <3>2. WasReviewed(p)
      BY <3>1 DEF ReviewInv
    <3>3. Reviews(p)' = Reviews(p) /\ log[p] \subseteq log'[p]
      BY <2>1, <2>6, <2>8
    <3>4. WasReviewed(p)'
      BY <2>1, <3>2, <3>3 DEF WasReviewed
    <3> QED BY <2>1, <2>8, <3>4
  <2> QED BY <2>1, <2>5, <2>7, <2>8
<1> QED
  BY <1>1, <1>2, <1>3, <1>4, RowSteps

\* Whoever changes the SKUs of a product has read it as it is, and not PUBLISHED.
LEMMA FrozenSteps ==
  ASSUME TypeOK, SeenInv, [Next]_vars, NEW p \in Products, products[p].state = "PUBLISHED"
  PROVE  SkusOf(p)' = SkusOf(p) /\ ActiveSkus(p)' = ActiveSkus(p)
<1> DEFINE Same == \A k \in Skus :
      \/ skus'[k] = skus[k]
      \/ (skus[k] = NoSku \/ skus[k].product # p) /\ skus'[k] # NoSku /\ skus'[k].product # p
<1>1. ASSUME NEW q \in Products, NEW new, new \subseteq Fresh, Added(new, q), q # p
      PROVE  Same
  <2> DEFINE row == [state |-> "ACTIVE", product |-> q]
  <2>1. row # NoSku /\ row.product # p
    BY <1>1 DEF NoSku
  <2>2. skus' = [k \in Skus |-> IF k \in new THEN row ELSE skus[k]]
    BY <1>1 DEF Added
  <2> HIDE DEF row
  <2> QED BY <1>1, <2>1, <2>2 DEF Fresh, TypeOK
<1>2. ASSUME NEW q \in Products, NEW new \in SUBSET Skus, CreateProduct(q, new)
      PROVE  Same
  BY <1>1, <1>2 DEF CreateProduct, NoProduct
<1>3. ASSUME NEW t \in Calls, NEW new,
             Update(t, new) \/ \E j \in new : new = {j} /\ AddSku(t, j)
      PROVE  Same
  <2>1. /\ task[t].product \in Products
        /\ task[t].seen = products[task[t].product]
        /\ task[t].seen.state \in Updatable
        /\ new \subseteq Fresh
        /\ Added(new, task[t].product)
    BY <1>3, SavedAsRead DEF Update, AddSku, At, SeenInv, Allowed
  <2> QED BY <1>1, <2>1 DEF Updatable
<1>4. ASSUME NEW t \in Calls, NEW j \in Skus, AddSku(t, j)
      PROVE  Same
  <2>1. \E new : \E i \in new : new = {i} /\ AddSku(t, i)
    BY <1>4
  <2> QED BY <1>3, <2>1
<1>5. ASSUME NEW t \in Calls, CloseSku(t)
      PROVE  Same
  <2> DEFINE j == task[t].sku
  <2>1. /\ j \in Skus
        /\ skus[j] # NoSku
        /\ skus[j].product = task[t].product
        /\ task[t].product # p
    BY <1>5, TaskShapes, SavedAsRead DEF CloseSku, At, SeenInv, Owned, Allowed, TypeOK
  <2>2. skus[j] \in SkuRows
    BY <2>1 DEF TypeOK
  <2> DEFINE row == [skus[j] EXCEPT !.state = "CLOSED"]
  <2>3. row.product = skus[j].product /\ row # NoSku
    BY <2>2 DEF SkuRows, NoSku
  <2>4. skus' = [skus EXCEPT ![j] = row]
    BY <1>5 DEF CloseSku
  <2> HIDE DEF row, j
  <2>5. skus'[j] = row /\ \A k \in Skus : k # j => skus'[k] = skus[k]
    BY <2>1, <2>4 DEF TypeOK
  <2> QED BY <2>1, <2>3, <2>5
<1>6. ASSUME UNCHANGED skus
      PROVE  Same
  BY <1>6
<1>7. Same
  BY <1>2, <1>3, <1>4, <1>5, <1>6
  DEF Next, vars, ReadForMove, Check, Move, ReadForUpdate, ReadForClosing, ReadForMedia,
      CountMedia, RecordMedia, Drop
<1>8. SkusOf(p)' = SkusOf(p)
  BY <1>7 DEF SkusOf
<1>9. ActiveSkus(p)' = ActiveSkus(p)
  <2>1. [state |-> "ACTIVE", product |-> p].product = p /\ [state |-> "ACTIVE", product |-> p] # NoSku
    BY DEF NoSku
  <2> DEFINE row == [state |-> "ACTIVE", product |-> p]
  <2>2. row.product = p /\ row # NoSku
    BY <2>1
  <2>3. ActiveSkus(p) = {k \in Skus : skus[k] = row}
    BY DEF ActiveSkus
  <2>4. ActiveSkus(p)' = {k \in Skus : skus'[k] = row}
    BY DEF ActiveSkus
  <2> HIDE DEF row
  <2>5. \A k \in Skus : skus'[k] = row <=> skus[k] = row
    BY <1>7, <2>2
  <2> QED BY <2>3, <2>4, <2>5
<1> QED
  BY <1>8, <1>9

-------------------------------------------------------------------------------
(* The inductive invariant and what follows from it.                          *)

LEMMA InitIInv == Init => IInv
<1> SUFFICES ASSUME Init PROVE IInv
  OBVIOUS
<1>1. TypeOK
  BY DEF Init, TypeOK
<1>2. SeenInv /\ CheckInv
  BY DEF Init, SeenInv, CheckInv, Fits, Allowed, Owned, Idle
<1>3. SkuInv /\ LogInv
  BY DEF Init, SkuInv, LogInv
<1>4. ReviewInv
  BY DEF Init, ReviewInv, NoProduct
<1> QED
  BY <1>1, <1>2, <1>3, <1>4 DEF IInv

LEMMA NextIInv == IInv /\ [Next]_vars => IInv'
<1> SUFFICES ASSUME IInv, [Next]_vars PROVE IInv'
  OBVIOUS
<1> USE DEF IInv
<1>1. TypeOK'
  BY NextTypeOK
<1> QED
  BY <1>1, NextSeenInv, NextSkuInv, NextLogInv, NextCheckInv, NextReviewInv

\* Every reachable state satisfies the inductive invariant.
THEOREM SpecIInv == Spec => []IInv
  BY InitIInv, NextIInv, PTL DEF Spec

\* The tables and the calls keep their shapes (save and persistOwnedRecords of
\* the product repository).
THEOREM SpecTypeOK == Spec => []TypeOK
<1>1. IInv => TypeOK
  BY DEF IInv
<1> QED
  BY <1>1, SpecIInv, PTL

\* The data of what is published were approved as they were reviewed, by somebody
\* other than the reviewer of the last review (decideApproval, resolveReviewer,
\* updateProduct).  SKUs and media are not part of the data, and the theorem says
\* nothing of them.
THEOREM SpecPublishedDataWasReviewed == Spec => []PublishedDataWasReviewed
<1>1. IInv => PublishedDataWasReviewed
  BY DEF IInv, ReviewInv, WasReviewed, PublishedDataWasReviewed
<1> QED
  BY <1>1, SpecIInv, PTL

\* The SKUs of a published product do not change, also not by calls that read the
\* product before (addSku, closeSku, updateProduct).
THEOREM SpecPublishedSkusAreFrozen == Spec => PublishedSkusAreFrozen
<1> DEFINE A == \A p \in Products : products[p].state = "PUBLISHED" =>
             SkusOf(p)' = SkusOf(p) /\ ActiveSkus(p)' = ActiveSkus(p)
<1>1. IInv /\ [Next]_vars => [A]_vars
  BY FrozenSteps DEF IInv
<1> QED
  BY <1>1, SpecIInv, PTL DEF Spec, PublishedSkusAreFrozen
===============================================================================
