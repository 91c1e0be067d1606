----------------------------- MODULE ProductSync -----------------------------
(***************************************************************************)
(* What SyncService.sync_products_for_account does to the product master   *)
(* and to the listings of the stores.  (Its log, cursor and sync_state are *)
(* those of OrderSync.)                                                    *)
(*                                                                         *)
(* A request looks up the first product it can store without a lock; the   *)
(* flush of that product takes the write lock, and from there to its one   *)
(* commit nobody else writes, so the rest of the run is one step.  A SKU   *)
(* is unique over all users, while the search for a master is per user:    *)
(* the INSERT refused then leaves the session unusable, later products     *)
(* fail, the account can no longer be read, and the request dies with its  *)
(* log at "running".  sync_all_products is a sequence of such runs.        *)
(***************************************************************************)
EXTENDS Integers, Sequences, FiniteSets

CONSTANTS Requests,  \* requests that may be served at the same time
          Owner,     \* user_id of each store
          Ids,       \* platform product ids
          Skus,      \* seller SKUs
          NoSku,     \* a product that carries none
          Values,    \* title, price, stock: what a listing copies
          Refused,   \* one of them is missing
          Feeds,     \* what a platform may return: sequences without duplicates
          MaxBegun   \* bound on runs and user operations of a behaviour

Stores == DOMAIN Owner
Users == {Owner[s] : s \in Stores}
Item == [id : Ids, sku : Skus \cup {NoSku}, value : Values \cup {Refused}]

ASSUME ProductAssumption ==
  /\ IsFiniteSet(Requests)
  /\ NoSku \notin Skus /\ Refused \notin Values
  /\ Feeds \subseteq Seq(Item)
  /\ \A f \in Feeds : \A m, n \in DOMAIN f : f[m].id = f[n].id => m = n
  /\ MaxBegun \in Nat

VARIABLES products,  \* in the order of their inserts
          listings,  \* likewise
          run,       \* the requests
          begun

vars == <<products, listings, run, begun>>

\* The SKU given to a product that carries none: PLAT-<platform>-<store>-<id>.
PlatformSku(s, i) == <<s, i>>
AllSkus == Skus \cup {PlatformSku(s, i) : s \in Stores, i \in Ids}

Product == [user : Users, sku : AllSkus, live : BOOLEAN]

\* sku: the one the listing was inserted under (raw_data of that run).
Listing == [store : Stores, id : Ids, product : Nat \ {0}, value : Values,
            sku : Skus \cup {NoSku}]

Statuses == {"none", "running", "success", "partial_failed", "failed"}
Run == [pc : {"idle"}, log : Statuses]  \* log: how the last run ended
  \cup [pc : {"fetch", "look", "master", "write"}, log : {"running"}, store : Stores,
        feed : Feeds \cup {<<>>},
        at : Nat, failed : Nat,     \* the product in hand, failures so far
        found : Nat, seen : Values \cup {Refused},  \* its listing, when looked up
        master : Nat,               \* the product found for it; 0 for None
        known : Nat]                \* history: the products there were at the look-up

TypeOK ==
  /\ products \in Seq(Product) /\ listings \in Seq(Listing)
  /\ \A k \in DOMAIN listings : listings[k].product \in DOMAIN products
  /\ DOMAIN run \subseteq Requests /\ run \in [DOMAIN run -> Run]
  /\ \A r \in DOMAIN run : run[r].pc # "idle" =>
       /\ run[r].found \in 0 .. Len(listings) /\ run[r].master \in 0 .. Len(products)
       /\ run[r].pc \in {"master", "write"} => run[r].at \in DOMAIN run[r].feed
  /\ begun \in 0 .. MaxBegun

Idle(log) == [pc |-> "idle", log |-> log]

Init ==
  /\ products = <<>> /\ listings = <<>> /\ begun = 0
  /\ \E R \in (SUBSET Requests) \ {{}} : run = [r \in R |-> Idle("none")]

-----------------------------------------------------------------------------
(* Look-ups, in tables as a session sees them.                             *)

\* Mutant: the look-up never finds anything.
ListedNever(ls, s, i) == {}

\* The listings of a platform product in its store; the code asks for at most one.
Listed(ls, s, i) == {k \in DOMAIN ls : ls[k].store = s /\ ls[k].id = i}

\* Mutant: the master is not looked up.
MasterForgotten(ps, u, sku) == 0

\* _find_product_master_for_remote: 0 for None.
Master(ps, u, sku) ==
  LET found == {p \in DOMAIN ps : ps[p].live /\ ps[p].user = u /\ ps[p].sku = sku}
  IN IF sku = NoSku \/ found = {} THEN 0 ELSE CHOOSE p \in found : TRUE

\* The product of the listing found, or the master.
ProductOf(ps, ls, s, item, found) ==
  IF found # 0 /\ ps[ls[found].product].live THEN ls[found].product
  ELSE Master(ps, Owner[s], item.sku)

\* Mutant: a product is always created under its platform SKU.
SkuAlwaysPlatform(s, item) == PlatformSku(s, item.id)

SkuOf(s, item) == IF item.sku = NoSku THEN PlatformSku(s, item.id) ELSE item.sku

Taken(ps, sku) == \E p \in DOMAIN ps : ps[p].live /\ ps[p].sku = sku

-----------------------------------------------------------------------------
(* _upsert_platform_product on the tables of the transaction.              *)

\* product.id: that of the product found, or of the one just flushed.
ListedProduct(ps, master) == IF master = 0 THEN Len(ps) + 1 ELSE master

\* The statements for one product, given what its look-ups returned.  seen: the value
\* loaded with the listing; UPDATE names only what differs from it.
Stored(T, s, item, found, seen, master) ==
  LET clash == master = 0 /\ Taken(T.products, SkuOf(s, item))
      row == [user |-> Owner[s], sku |-> SkuOf(s, item), live |-> TRUE]
      listing == [store |-> s, id |-> item.id, product |-> ListedProduct(T.products, master),
                  value |-> item.value, sku |-> item.sku]
  IN [T EXCEPT
        !.clash = @ \/ clash,
        !.products = IF master = 0 THEN Append(@, row) ELSE @,
        !.listings = IF found = 0 THEN Append(@, listing)
                     ELSE IF item.value = seen THEN @
                     ELSE [@ EXCEPT ![found].value = item.value]]

\* A product that is refused, or that several listings stand for, is counted and skipped.
Skipped(ls, s, item) == item.value = Refused \/ Cardinality(Listed(ls, s, item.id)) > 1

FoundListing(ls, s, item) ==
  IF Listed(ls, s, item.id) = {} THEN 0 ELSE CHOOSE k \in Listed(ls, s, item.id) : TRUE

\* One turn of the loop under the lock.
Upserted(T, s, item) ==
  IF Skipped(T.listings, s, item) THEN [T EXCEPT !.failed = @ + 1]
  ELSE LET found == FoundListing(T.listings, s, item) IN
       Stored(T, s, item, found, IF found = 0 THEN Refused ELSE T.listings[found].value,
              ProductOf(T.products, T.listings, s, item, found))

\* What the transaction of r has done when it is about to commit.
Outcome(r) ==
  LET R == run[r]
      first == Stored([products |-> products, listings |-> listings, failed |-> R.failed,
                       clash |-> FALSE],
                      R.store, R.feed[R.at], R.found, R.seen, R.master)
      after[n \in R.at .. Len(R.feed)] ==
        IF n = R.at THEN first ELSE Upserted(after[n - 1], R.store, R.feed[n])
  IN after[Len(R.feed)]

\* Mutant: a run that stored something is a success.
StatusLenient(failed, all) == IF failed > 0 /\ failed = all THEN "failed" ELSE "success"

\* log.status
Status(failed, all) ==
  IF failed > 0 /\ failed = all THEN "failed"
  ELSE IF failed > 0 THEN "partial_failed" ELSE "success"

-----------------------------------------------------------------------------
(* One run.                                                                *)

End(r, log) == run' = [run EXCEPT ![r] = Idle(log)]

\* The log is committed as running before anything is fetched.
Begin(r, s) ==
  /\ run[r].pc = "idle" /\ begun < MaxBegun
  /\ run' = [run EXCEPT ![r] =
       [pc |-> "fetch", log |-> "running", store |-> s, feed |-> <<>>, at |-> 1,
        failed |-> 0, found |-> 0, seen |-> Refused, master |-> 0, known |-> 0]]
  /\ begun' = begun + 1
  /\ UNCHANGED <<products, listings>>

Fetch(r, feed) ==
  /\ run[r].pc = "fetch"
  /\ run' = [run EXCEPT ![r].pc = "look", ![r].feed = feed]
  /\ UNCHANGED <<products, listings, begun>>

\* No client, no authentication, or a page that raises: the outer handler.
FetchFails(r) ==
  /\ run[r].pc = "fetch" /\ End(r, "failed")
  /\ UNCHANGED <<products, listings, begun>>

InHand(r) == run[r].feed[run[r].at]
Looking(r) == run[r].pc = "look" /\ run[r].at \in DOMAIN run[r].feed

Skip(r) ==
  /\ Looking(r) /\ Skipped(listings, run[r].store, InHand(r))
  /\ run' = [run EXCEPT ![r].at = @ + 1, ![r].failed = @ + 1]
  /\ UNCHANGED <<products, listings, begun>>

\* The listing, read without a lock.
LookUp(r) ==
  /\ Looking(r) /\ ~Skipped(listings, run[r].store, InHand(r))
  /\ LET k == FoundListing(listings, run[r].store, InHand(r)) IN
       run' = [run EXCEPT ![r].pc = "master", ![r].found = k, ![r].known = Len(products),
                          ![r].seen = IF k = 0 THEN Refused ELSE listings[k].value]
  /\ UNCHANGED <<products, listings, begun>>

\* Its product, or a master; a product that is gone does not come back, so that
\* db.get and the search that may follow it are one step.
FindMaster(r) ==
  /\ run[r].pc = "master"
  /\ run' = [run EXCEPT ![r].pc = "write",
               ![r].master = ProductOf(products, listings, run[r].store, InHand(r), run[r].found)]
  /\ UNCHANGED <<products, listings, begun>>

\* The lock is taken, the rest of the feed stored, and the run committed.
Write(r) ==
  /\ run[r].pc = "write" /\ ~Outcome(r).clash
  /\ products' = Outcome(r).products /\ listings' = Outcome(r).listings
  /\ End(r, Status(Outcome(r).failed, Len(run[r].feed)))
  /\ UNCHANGED begun

\* An INSERT is refused (products.sku is unique): nothing is kept, the log stays open.
Clash(r) ==
  /\ run[r].pc = "write" /\ Outcome(r).clash /\ End(r, "running")
  /\ UNCHANGED <<products, listings, begun>>

\* Nothing could be stored, or there was nothing.
WriteNothing(r) ==
  /\ run[r].pc = "look" /\ run[r].at > Len(run[r].feed)
  /\ End(r, Status(run[r].failed, Len(run[r].feed)))
  /\ UNCHANGED <<products, listings, begun>>

\* A crash, or a time-out on the lock.
Abandon(r) ==
  /\ run[r].pc # "idle" /\ End(r, "running")
  /\ UNCHANGED <<products, listings, begun>>

-----------------------------------------------------------------------------
(* The users of the product library.                                       *)

\* create_product under a seller SKU nobody has (another one is generated, or the INSERT
\* is refused, otherwise).
CreateProduct(u, sku) ==
  /\ begun < MaxBegun /\ ~Taken(products, sku)
  /\ products' = Append(products, [user |-> u, sku |-> sku, live |-> TRUE])
  /\ begun' = begun + 1
  /\ UNCHANGED <<listings, run>>

\* delete_product: its listings stay, and go on naming it.
DeleteProduct(p) ==
  /\ begun < MaxBegun /\ products[p].live
  /\ products' = [products EXCEPT ![p].live = FALSE]
  /\ begun' = begun + 1
  /\ UNCHANGED <<listings, run>>

\* The bound is reached and every run has ended.
Quiet ==
  /\ begun = MaxBegun /\ \A r \in DOMAIN run : run[r].pc = "idle"
  /\ UNCHANGED vars

Next ==
  \/ \E r \in DOMAIN run :
       \/ \E s \in Stores : Begin(r, s)
       \/ \E feed \in Feeds : Fetch(r, feed)
       \/ FetchFails(r) \/ Skip(r) \/ LookUp(r) \/ FindMaster(r)
       \/ Write(r) \/ Clash(r) \/ WriteNothing(r) \/ Abandon(r)
  \/ \E u \in Users, sku \in Skus : CreateProduct(u, sku)
  \/ \E p \in DOMAIN products : DeleteProduct(p)
  \/ Quiet

Spec == Init /\ [][Next]_vars

-----------------------------------------------------------------------------

Copies(s, i) == {k \in DOMAIN listings : listings[k].store = s /\ listings[k].id = i}

\* Overlapping runs can insert the same listing once each, after look-ups that found
\* none; runs one after the other never insert a second one.
CopiesBoundedByOverlap ==
  \A s \in Stores, i \in Ids : Cardinality(Copies(s, i)) <= Cardinality(DOMAIN run)

\* Stores of one user share the product of a seller SKU: "Find an existing product master
\* by seller/internal SKU before creating a new one".
SharedMaster ==
  \A k, l \in DOMAIN listings :
    LET p == products[listings[k].product]  q == products[listings[l].product] IN
      (/\ listings[k].sku # NoSku /\ listings[k].sku = listings[l].sku
       /\ Owner[listings[k].store] = Owner[listings[l].store]
       /\ p.live /\ q.live) => listings[k].product = listings[l].product

\* A run that reports success holds every product the platform returned; if no other run
\* overlapped, with the values it returned.
SuccessHoldsAll == [][
  \A r \in DOMAIN run : (run[r].pc # "idle" /\ run'[r].log = "success") =>
    \A n \in DOMAIN run[r].feed : \E k \in DOMAIN listings' :
      /\ listings'[k].store = run[r].store /\ listings'[k].id = run[r].feed[n].id
      /\ DOMAIN run = {r} => listings'[k].value = run[r].feed[n].value]_vars

\* A run is refused for a SKU only if (1) it is a product of another user, (2) it is the
\* platform SKU of a listing whose product was deleted and created anew, or (3) somebody
\* has taken it since the look-up that preceded the lock.
ClashOnlyBy ==
  \A r \in DOMAIN run : run[r].pc = "write" /\ Outcome(r).clash =>
    LET s == run[r].store IN
    \E n \in DOMAIN run[r].feed, p \in DOMAIN products :
      LET item == run[r].feed[n] IN
      /\ products[p].live /\ products[p].sku = SkuOf(s, item)
      /\ \/ products[p].user # Owner[s]
         \/ item.sku = NoSku /\ \E k \in Copies(s, item.id) :
                                  ~products[listings[k].product].live
         \/ n = run[r].at /\ p > run[r].known

===============================================================================
