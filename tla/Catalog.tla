-------------------------------- MODULE Catalog --------------------------------
(***************************************************************************)
(* Module 04: the products of a seller, from the draft over the moderation  *)
(* to publication, and the SKUs that are sold under them.                   *)
(*                                                                          *)
(* Every operation reads the product at the version its caller expects,     *)
(* checks, and saves under that version; what it checks of the SKUs or the  *)
(* transition log is read in between, and others commit at any point.       *)
(* Changes of SKUs save the product as it was read, version included.       *)
(*                                                                          *)
(* A product's own data (name, category, price) is its revision: the        *)
(* version at which it was last edited.  SKUs and media are outside of it:  *)
(* closing a SKU and recording a media reference change neither the data    *)
(* nor the version, and are accepted while a product is in review, closing  *)
(* until it is published and recording in every state.  The rows of media   *)
(* are counted, not told apart.                                             *)
(*                                                                          *)
(* Codes of SKUs, variants' own data and attributes are left out, as are    *)
(* permissions, which only refuse.                                          *)
(***************************************************************************)
EXTENDS Naturals

CONSTANTS
  Products, Skus, Calls,
  Owner,      \* the OWNER of the seller
  Admins,     \* identities granted product.review.decide, the owner among them or not
  MediaLimit  \* the images a product may have: 10 in assertValidMedia

ASSUME MediaLimitAssumption == MediaLimit \in Nat

VARIABLES
  products,   \* [Products -> product row]     products
  skus,       \* [Skus -> SKU row]             product_skus
  log,        \* [Products -> SUBSET episode]  product_state_transitions
  media,      \* [Products -> number of rows]  product_media
  task        \* [Calls -> what a call is doing]

vars == <<products, skus, log, media, task>>

ProductStates ==
  {"DRAFT", "SUBMITTED", "UNDER_REVIEW", "APPROVED", "PUBLISHED",
   "CORRECTIONS_REQUESTED", "UNPUBLISHED", "REJECTED", "CLOSED"}

Identities == Admins \cup {Owner, "SYSTEM"}

ProductRows == [state : ProductStates, version : Nat, revision : Nat]

NoProduct == [state |-> "NONE"]

SkuRows == [state : {"ACTIVE", "CLOSED"}, product : Products]

NoSku == [state |-> "NONE"]

Episodes == [to : ProductStates, version : Nat, actor : Identities]

Idle == [pc |-> "idle"]

\* seen is the product a call has read.
Tasks ==
  [pc : {"check", "move"}, product : Products, seen : ProductRows,
   to : ProductStates, actor : Identities]
  \cup [pc : {"update", "addSku", "countMedia", "recordMedia"},
        product : Products, seen : ProductRows]
  \cup [pc : {"closeSku"}, product : Products, seen : ProductRows, sku : Skus]

TypeOK ==
  /\ products \in [Products -> {NoProduct} \cup ProductRows]
  /\ skus \in [Skus -> {NoSku} \cup SkuRows]
  /\ log \in [Products -> SUBSET Episodes]
  /\ media \in [Products -> Nat]
  /\ task \in [Calls -> {Idle} \cup Tasks]

Init ==
  /\ products = [p \in Products |-> NoProduct]
  /\ skus = [k \in Skus |-> NoSku]
  /\ log = [p \in Products |-> {}]
  /\ media = [p \in Products |-> 0]
  /\ task = [t \in Calls |-> Idle]

Go(t, next) == task' = [task EXCEPT ![t] = next]

At(t, pc) == task[t].pc = pc

\* The SKUs of a product that can be sold.
ActiveSkus(p) == {k \in Skus : skus[k] = [state |-> "ACTIVE", product |-> p]}

Reviews(p) == {e \in log[p] : e.to = "UNDER_REVIEW"}

-------------------------------------------------------------------------------
(* Faulty variants, each a bug the code could have.                           *)

\* the version is not part of the WHERE clause
SavableAlways(t) == TRUE

\* the log is searched from its beginning
EarliestReview(p) == {e \in Reviews(p) : \A other \in Reviews(p) : e.version <= other.version}

-------------------------------------------------------------------------------
(* The lifecycle.                                                             *)

\* TRANSITION_TABLE, less the two transitions out of PUBLISHED that no operation
\* asks for.
Transitions ==
  {<<"DRAFT", "SUBMITTED">>,
   <<"CORRECTIONS_REQUESTED", "SUBMITTED">>, <<"UNPUBLISHED", "SUBMITTED">>,
   <<"SUBMITTED", "UNDER_REVIEW">>, <<"UNDER_REVIEW", "CORRECTIONS_REQUESTED">>,
   <<"UNDER_REVIEW", "APPROVED">>, <<"APPROVED", "PUBLISHED">>,
   <<"SUBMITTED", "REJECTED">>, <<"UNDER_REVIEW", "REJECTED">>,
   <<"CORRECTIONS_REQUESTED", "REJECTED">>,
   <<"APPROVED", "CLOSED">>, <<"PUBLISHED", "CLOSED">>, <<"UNPUBLISHED", "CLOSED">>}

\* updatedProduct
Moved(seen, to) == [state |-> to, version |-> seen.version + 1, revision |-> seen.revision]

\* assertCanUpdate
Updatable == {"DRAFT", "CORRECTIONS_REQUESTED", "UNPUBLISHED"}

\* The version guard of save.
Savable(t) == products[task[t].product].version = task[t].seen.version

-------------------------------------------------------------------------------
(* Moving a product: submitProduct, resubmitProduct, closeProduct,            *)
(* claimReview, requestCorrections, decideApproval, decideRejection,          *)
(* publishApproved.                                                           *)

ReadForMove(t, p, to, actor) ==
  /\ task[t] = Idle
  /\ products[p] # NoProduct
  /\ <<products[p].state, to>> \in Transitions
  /\ actor \in CASE to \in {"SUBMITTED", "CLOSED"} -> {Owner}
                 [] to = "PUBLISHED" -> {"SYSTEM"}
                 [] OTHER -> Admins
  /\ Go(t, [pc |-> "check", product |-> p, seen |-> products[p], to |-> to, actor |-> actor])
  /\ UNCHANGED <<products, skus, log, media>>

\* resolveReviewer
LatestReview(p) == {e \in Reviews(p) : \A other \in Reviews(p) : e.version >= other.version}

\* isSubmissionComplete, for the first submission only, and
\* assertSeparationOfDuties, of a decision over a review; every decision but a
\* request for corrections needs some review to be in the log.
Check(t) ==
  LET p == task[t].product
      seen == task[t].seen
      to == task[t].to
  IN /\ At(t, "check")
     /\ seen.state = "DRAFT" => ActiveSkus(p) # {}
     /\ to \in {"APPROVED", "REJECTED"} =>
          \E e \in LatestReview(p) : seen.state = "UNDER_REVIEW" => e.actor # task[t].actor
     /\ Go(t, [task[t] EXCEPT !.pc = "move"])
     /\ UNCHANGED <<products, skus, log, media>>

Move(t) ==
  LET p == task[t].product
      to == task[t].to
      moved == Moved(task[t].seen, to)
  IN /\ At(t, "move")
     /\ Savable(t)
     /\ products' = [products EXCEPT ![p] = moved]
     /\ log' = [log EXCEPT ![p] = @ \cup
          {[to |-> to, version |-> moved.version, actor |-> task[t].actor]}]
     /\ Go(t, Idle)
     /\ UNCHANGED <<skus, media>>

-------------------------------------------------------------------------------
(* Its content: createProduct, updateProduct, addVariant, addSku, closeSku.   *)

Added(new, p) ==
  skus' = [k \in Skus |-> IF k \in new THEN [state |-> "ACTIVE", product |-> p] ELSE skus[k]]

Fresh == {k \in Skus : skus[k] = NoSku}

CreateProduct(p, new) ==
  /\ products[p] = NoProduct
  /\ new \subseteq Fresh
  /\ products' = [products EXCEPT ![p] =
       [state |-> "DRAFT", version |-> 1, revision |-> 1]]
  /\ log' = [log EXCEPT ![p] = {[to |-> "DRAFT", version |-> 1, actor |-> Owner]}]
  /\ Added(new, p)
  /\ UNCHANGED <<media, task>>

ReadForUpdate(t, p) ==
  /\ task[t] = Idle
  /\ products[p].state \in Updatable
  /\ \E pc \in {"update", "addSku"} :
       Go(t, [pc |-> pc, product |-> p, seen |-> products[p]])
  /\ UNCHANGED <<products, skus, log, media>>

\* updateProduct, with the SKUs it brings.
Update(t, new) ==
  LET p == task[t].product
      version == task[t].seen.version + 1
  IN /\ At(t, "update")
     /\ Savable(t)
     /\ new \subseteq Fresh
     /\ products' = [products EXCEPT ![p] =
          [state |-> task[t].seen.state, version |-> version, revision |-> version]]
     /\ Added(new, p)
     /\ Go(t, Idle)
     /\ UNCHANGED <<log, media>>

\* addSku, and addVariant with the SKU of the variant.
AddSku(t, k) ==
  /\ At(t, "addSku")
  /\ Savable(t)
  /\ k \in Fresh
  /\ products' = [products EXCEPT ![task[t].product] = task[t].seen]
  /\ Added({k}, task[t].product)
  /\ Go(t, Idle)
  /\ UNCHANGED <<log, media>>

\* assertSkuMutable: a product that is in review is not PUBLISHED.
ReadForClosing(t, k) ==
  /\ task[t] = Idle
  /\ skus[k] # NoSku
  /\ skus[k].state = "ACTIVE"
  /\ products[skus[k].product].state # "PUBLISHED"
  /\ Go(t, [pc |-> "closeSku", product |-> skus[k].product,
            seen |-> products[skus[k].product], sku |-> k])
  /\ UNCHANGED <<products, skus, log, media>>

CloseSku(t) ==
  /\ At(t, "closeSku")
  /\ Savable(t)
  /\ products' = [products EXCEPT ![task[t].product] = task[t].seen]
  /\ skus' = [skus EXCEPT ![task[t].sku].state = "CLOSED"]
  /\ Go(t, Idle)
  /\ UNCHANGED <<log, media>>

-------------------------------------------------------------------------------
(* Its media: recordMediaReference.                                           *)

\* In whatever state the product is.
ReadForMedia(t, p) ==
  /\ task[t] = Idle
  /\ products[p] # NoProduct
  /\ Go(t, [pc |-> "countMedia", product |-> p, seen |-> products[p]])
  /\ UNCHANGED <<products, skus, log, media>>

\* assertValidMedia: the rows are counted before the save, and the version does
\* not tell of a row that another call has added since.
CountMedia(t) ==
  /\ At(t, "countMedia")
  /\ media[task[t].product] < MediaLimit
  /\ Go(t, [task[t] EXCEPT !.pc = "recordMedia"])
  /\ UNCHANGED <<products, skus, log, media>>

RecordMedia(t) ==
  /\ At(t, "recordMedia")
  /\ Savable(t)
  /\ products' = [products EXCEPT ![task[t].product] = task[t].seen]
  /\ media' = [media EXCEPT ![task[t].product] = @ + 1]
  /\ Go(t, Idle)
  /\ UNCHANGED <<skus, log>>

-------------------------------------------------------------------------------
\* A check fails, the version is stale, or the process dies.
Drop(t) ==
  /\ task[t] # Idle
  /\ Go(t, Idle)
  /\ UNCHANGED <<products, skus, log, media>>

-------------------------------------------------------------------------------
Next ==
  \/ \E p \in Products, new \in SUBSET Skus : CreateProduct(p, new)
  \/ \E t \in Calls :
       \/ \E p \in Products, to \in ProductStates, actor \in Identities :
            ReadForMove(t, p, to, actor)
       \/ Check(t)
       \/ Move(t)
       \/ \E p \in Products : ReadForUpdate(t, p)
       \/ \E new \in SUBSET Skus : Update(t, new)
       \/ \E k \in Skus : AddSku(t, k)
       \/ \E k \in Skus : ReadForClosing(t, k)
       \/ CloseSku(t)
       \/ \E p \in Products : ReadForMedia(t, p)
       \/ CountMedia(t)
       \/ RecordMedia(t)
       \/ Drop(t)

Spec == Init /\ [][Next]_vars

-------------------------------------------------------------------------------
(* Properties.                                                                *)

\* The data of a published product were reviewed: they were not edited after the
\* last review was claimed, and somebody other than the reviewer approved them in
\* that review, whatever edits, reviews and decisions raced before.  Nothing of
\* the kind holds of its SKUs and its media, nor that the owner is neither of the
\* two: the code checks none of it.
PublishedDataWasReviewed ==
  \A p \in Products : products[p].state = "PUBLISHED" =>
    \E review \in Reviews(p), approval \in log[p] :
      /\ \A e \in Reviews(p) : e.version <= review.version
      /\ approval.to = "APPROVED"
      /\ approval.version > review.version
      /\ approval.actor # review.actor
      /\ products[p].revision < review.version

SkusOf(p) == {k \in Skus : skus[k] # NoSku /\ skus[k].product = p}

\* The SKUs of a published product are frozen, also for a call that read the
\* product before its publication.
PublishedSkusAreFrozen ==
  [][\A p \in Products : products[p].state = "PUBLISHED" =>
       SkusOf(p)' = SkusOf(p) /\ ActiveSkus(p)' = ActiveSkus(p)]_vars
===============================================================================
