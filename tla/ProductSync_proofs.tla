-------------------------- MODULE ProductSync_proofs --------------------------
(***************************************************************************)
(* Proofs about ProductSync for any number of stores, users, requests and  *)
(* products and for feeds of any length.  A run stores the rest of its     *)
(* feed in one transaction, which the model computes by recursion over the *)
(* feed (Outcome); what that recursion preserves is proved by induction    *)
(* over the naturals, stated for a set and derived from the                *)
(* well-foundedness of <.                                                  *)
(***************************************************************************)
EXTENDS ProductSync, SequenceTheorems, FiniteSetTheorems, WellFoundedInduction, TLAPS

USE ProductAssumption

-----------------------------------------------------------------------------
(* Induction over the naturals.                                            *)

Less == {pair \in Nat \X Nat : pair[1] < pair[2]}

LEMMA LessWellFounded == IsWellFoundedOn(Less, Nat)
BY NatLessThanWellFounded, Zenon DEF OpToRel, Less

\* A set of naturals that is not empty has a least element.
LEMMA LeastNat ==
  ASSUME NEW T \in SUBSET Nat, T # {}
  PROVE  \E m \in T : \A n \in T : m <= n
<1>1. PICK m \in T : \A n \in T : ~ (<<n, m>> \in Less)
  BY LessWellFounded, WFMin
<1>2. ASSUME NEW n \in T PROVE m <= n
  <2>1. n \in Nat /\ m \in Nat /\ ~ (<<n, m>> \in Less)
    BY <1>1
  <2>2. n < m => <<n, m>> \in Less
    BY <2>1 DEF Less
  <2>3. QED
    BY <2>1, <2>2
<1>3. QED
  BY <1>2

\* What holds at a, and at n + 1 when it holds at n, holds up to b.
LEMMA TurnByTurn ==
  ASSUME NEW a \in Nat, NEW b \in Nat, NEW S, a \in S,
         \A n \in Nat : a <= n /\ n < b /\ n \in S => n + 1 \in S
  PROVE  \A n \in a .. b : n \in S
<1> DEFINE T == (a .. b) \ S
<1> SUFFICES ASSUME T # {} PROVE FALSE
  OBVIOUS
<1>1. T \in SUBSET Nat
  OBVIOUS
<1>2. PICK m \in T : \A n \in T : m <= n
  BY <1>1, LeastNat
<1>3. m \in Nat /\ a <= m /\ m <= b /\ m \notin S /\ m # a
  OBVIOUS
<1>4. m - 1 \in Nat /\ a <= m - 1 /\ m - 1 < b /\ ~(m <= m - 1)
  BY <1>3
<1>5. m - 1 \in S
  BY <1>2, <1>4
<1>6. (m - 1) + 1 \in S
  BY <1>4, <1>5
<1>7. QED
  BY <1>3, <1>6

-----------------------------------------------------------------------------
(* What one product does to the tables.                                    *)

Tables == [products : Seq(Product), listings : Seq(Listing), failed : Nat, clash : BOOLEAN]

\* Tables in which every listing names a product that is there, if perhaps deleted.
TablesOK(T) ==
  /\ T \in Tables
  /\ \A k \in DOMAIN T.listings : T.listings[k].product \in DOMAIN T.products

LEMMA MasterType ==
  ASSUME NEW ps \in Seq(Product), NEW u, NEW sku
  PROVE  LET p == Master(ps, u, sku) IN
         /\ p = 0 \/ (p \in DOMAIN ps /\ ps[p].live /\ ps[p].user = u /\ ps[p].sku = sku
                        /\ sku # NoSku)
         /\ p = 0 /\ sku # NoSku =>
              ~ \E q \in DOMAIN ps : ps[q].live /\ ps[q].user = u /\ ps[q].sku = sku
<1> DEFINE found == {p \in DOMAIN ps : ps[p].live /\ ps[p].user = u /\ ps[p].sku = sku}
<1>1. 0 \notin DOMAIN ps
  OBVIOUS
<1>2. CASE sku = NoSku \/ found = {}
  BY <1>2 DEF Master
<1>3. CASE ~(sku = NoSku \/ found = {})
  <2>1. PICK p \in found : p = Master(ps, u, sku)
    BY <1>3 DEF Master
  <2>2. QED
    BY <1>1, <1>3, <2>1
<1>4. QED
  BY <1>2, <1>3

\* What the product found for an item is: that of its listing, or a master.
ProductFound(ps, ls, s, item, found, p) ==
  /\ p \in 0 .. Len(ps)
  /\ p # 0 /\ found = 0 =>
       ps[p].user = Owner[s] /\ ps[p].sku = item.sku /\ item.sku # NoSku
  /\ p = 0 /\ found # 0 => ~ps[ls[found].product].live
  /\ p = 0 /\ item.sku # NoSku =>
       ~ \E q \in DOMAIN ps : ps[q].live /\ ps[q].user = Owner[s] /\ ps[q].sku = item.sku
  /\ found # 0 /\ ps[ls[found].product].live => p = ls[found].product

LEMMA ProductOfType ==
  ASSUME NEW ps \in Seq(Product), NEW ls \in Seq(Listing), NEW s, NEW item,
         NEW found \in 0 .. Len(ls),
         \A k \in DOMAIN ls : ls[k].product \in DOMAIN ps
  PROVE  ProductFound(ps, ls, s, item, found, ProductOf(ps, ls, s, item, found))
<1> USE DEF ProductFound
<1>1. DOMAIN ps = 1 .. Len(ps) /\ Len(ps) \in Nat
  OBVIOUS
<1>2. CASE found # 0 /\ ps[ls[found].product].live
  <2>1. ProductOf(ps, ls, s, item, found) = ls[found].product
    BY <1>2 DEF ProductOf
  <2>2. ls[found].product \in DOMAIN ps
    <3>1. found \in DOMAIN ls
      BY <1>2
    <3>2. QED
      BY <3>1
  <2>3. QED
    BY <1>1, <1>2, <2>1, <2>2
<1>3. CASE ~(found # 0 /\ ps[ls[found].product].live)
  <2>1. ProductOf(ps, ls, s, item, found) = Master(ps, Owner[s], item.sku)
    BY <1>3, Zenon DEF ProductOf
  <2>2. QED
    BY <1>1, <1>3, <2>1, MasterType
<1>4. QED
  BY <1>2, <1>3

LEMMA SkuType ==
  ASSUME NEW s \in Stores, NEW item \in Item
  PROVE  SkuOf(s, item) \in AllSkus /\ item.id \in Ids /\ item.sku \in Skus \cup {NoSku}
         /\ item.value \in Values \cup {Refused}
BY DEF SkuOf, AllSkus, Item

\* A listing inserted, or its value written; a product inserted when there was none.
StoredEffect(T, s, item, found, seen, master, New) ==
  LET row == [user |-> Owner[s], sku |-> SkuOf(s, item), live |-> TRUE]
      listing == [store |-> s, id |-> item.id, product |-> ListedProduct(T.products, master),
                  value |-> item.value, sku |-> item.sku]
  IN /\ New.failed = T.failed
     /\ New.clash = (T.clash \/ (master = 0 /\ Taken(T.products, SkuOf(s, item))))
     /\ New.products = IF master = 0 THEN Append(T.products, row) ELSE T.products
     /\ New.listings = IF found = 0 THEN Append(T.listings, listing)
                       ELSE IF item.value = seen THEN T.listings
                       ELSE [T.listings EXCEPT ![found].value = item.value]

LEMMA StoredIs ==
  ASSUME NEW T, TablesOK(T), NEW s \in Stores, NEW item \in Item, item.value # Refused,
         NEW found \in 0 .. Len(T.listings), NEW seen, NEW master \in 0 .. Len(T.products)
  PROVE  LET New == Stored(T, s, item, found, seen, master) IN
         TablesOK(New) /\ StoredEffect(T, s, item, found, seen, master, New)
<1> DEFINE New == Stored(T, s, item, found, seen, master)
           row == [user |-> Owner[s], sku |-> SkuOf(s, item), live |-> TRUE]
           listing == [store |-> s, id |-> item.id,
                       product |-> ListedProduct(T.products, master),
                       value |-> item.value, sku |-> item.sku]
           ps == IF master = 0 THEN Append(T.products, row) ELSE T.products
           ls == IF found = 0 THEN Append(T.listings, listing)
                 ELSE IF item.value = seen THEN T.listings
                 ELSE [T.listings EXCEPT ![found].value = item.value]
           clash == (T.clash \/ (master = 0 /\ Taken(T.products, SkuOf(s, item))))
<1>1. /\ T.products \in Seq(Product) /\ T.listings \in Seq(Listing) /\ T.failed \in Nat
      /\ T.clash \in BOOLEAN
      /\ Len(T.products) \in Nat /\ DOMAIN T.products = 1 .. Len(T.products)
      /\ Len(T.listings) \in Nat /\ DOMAIN T.listings = 1 .. Len(T.listings)
      /\ \A k \in DOMAIN T.listings : T.listings[k] \in Listing
      /\ \A k \in DOMAIN T.listings : T.listings[k].product \in DOMAIN T.products
  BY DEF TablesOK, Tables
<1>2. row \in Product
  BY SkuType DEF Product, Users
<1>3. listing \in Listing /\ listing.product = ListedProduct(T.products, master)
      /\ ListedProduct(T.products, master) \in Nat \ {0}
  BY <1>1, SkuType DEF Listing, ListedProduct
<1>4. New = [T EXCEPT !.clash = clash, !.products = ps, !.listings = ls]
  BY DEF Stored
<1> HIDE DEF row, listing
<1>5. ps \in Seq(Product) /\ Len(ps) = (IF master = 0 THEN Len(T.products) + 1 ELSE Len(T.products))
      /\ DOMAIN ps = 1 .. Len(ps)
  BY <1>1, <1>2
<1>6. /\ ls \in Seq(Listing)
      /\ \A k \in DOMAIN ls : ls[k].product \in DOMAIN T.products
                              \/ ls[k].product = ListedProduct(T.products, master)
  <2>1. CASE found = 0
    <3>1. ls = Append(T.listings, listing)
      BY <2>1
    <3>2. QED
      BY <1>1, <1>3, <3>1
  <2>2. CASE found # 0 /\ item.value = seen
    BY <1>1, <2>2
  <2>3. CASE found # 0 /\ item.value # seen
    <3>1. item.value \in Values /\ found \in DOMAIN T.listings
      BY <1>1, <2>3, SkuType
    <3>2. [T.listings[found] EXCEPT !.value = item.value] \in Listing
      BY <1>1, <3>1 DEF Listing
    <3>3. ls = [T.listings EXCEPT ![found] = [T.listings[found] EXCEPT !.value = item.value]]
      BY <2>3
    <3>4. QED
      BY <1>1, <3>1, <3>2, <3>3
  <2>4. QED
    BY <2>1, <2>2, <2>3
<1>7. ListedProduct(T.products, master) \in 1 .. Len(ps)
      /\ \A p \in DOMAIN T.products : p \in DOMAIN ps
  BY <1>1, <1>5 DEF ListedProduct
<1> HIDE DEF ps, ls
<1>8. clash \in BOOLEAN
  BY <1>1
<1> HIDE DEF clash
<1>9. New \in Tables /\ New.products = ps /\ New.listings = ls /\ New.clash = clash
      /\ New.failed = T.failed
  BY <1>4, <1>5, <1>6, <1>8 DEF TablesOK, Tables
<1> HIDE DEF New
<1>10. TablesOK(New)
  BY <1>5, <1>6, <1>7, <1>9 DEF TablesOK
<1>11. QED
  BY <1>9, <1>10 DEF StoredEffect, New, ps, ls, clash, row, listing

\* Tables that hold what was there: rows are added, products deleted, values written.
Grown(ps, ls, ps2, ls2) ==
  /\ Len(ps) <= Len(ps2) /\ Len(ls) <= Len(ls2)
  /\ \A p \in DOMAIN ps : /\ ps2[p].user = ps[p].user /\ ps2[p].sku = ps[p].sku
                          /\ ps2[p].live => ps[p].live
  /\ \A k \in DOMAIN ls : /\ ls2[k].store = ls[k].store /\ ls2[k].id = ls[k].id
                          /\ ls2[k].product = ls[k].product /\ ls2[k].sku = ls[k].sku

LEMMA GrownTwice ==
  ASSUME NEW p1 \in Seq(Product), NEW l1 \in Seq(Listing),
         NEW p2 \in Seq(Product), NEW l2 \in Seq(Listing),
         NEW p3 \in Seq(Product), NEW l3 \in Seq(Listing),
         Grown(p1, l1, p2, l2), Grown(p2, l2, p3, l3)
  PROVE  Grown(p1, l1, p3, l3)
<1>1. /\ Len(p1) \in Nat /\ Len(p2) \in Nat /\ Len(p3) \in Nat
      /\ Len(l1) \in Nat /\ Len(l2) \in Nat /\ Len(l3) \in Nat
  OBVIOUS
<1>2. Len(p1) <= Len(p2) /\ Len(l1) <= Len(l2)
  BY DEF Grown
<1>3. \A p \in DOMAIN p1 : p \in DOMAIN p2
  BY <1>1, <1>2
<1>4. \A k \in DOMAIN l1 : k \in DOMAIN l2
  BY <1>1, <1>2
<1>5. Len(p1) <= Len(p3) /\ Len(l1) <= Len(l3)
  BY <1>1 DEF Grown
<1>6. QED
  BY <1>3, <1>4, <1>5 DEF Grown

\* Two live products never have the same SKU; a listing inserted under a SKU names a
\* product that has it.
OneLive(ps) ==
  \A p, q \in DOMAIN ps : ps[p].live /\ ps[q].live /\ ps[p].sku = ps[q].sku => p = q

Linked(ps, ls) ==
  \A k \in DOMAIN ls : ls[k].sku # NoSku =>
    /\ ps[ls[k].product].user = Owner[ls[k].store]
    /\ ps[ls[k].product].sku = ls[k].sku

LEMMA StoredKeeps ==
  ASSUME NEW T, TablesOK(T), NEW s \in Stores, NEW item \in Item, item.value # Refused,
         NEW found \in 0 .. Len(T.listings), NEW seen, NEW master \in 0 .. Len(T.products),
         master # 0 /\ found = 0 => /\ T.products[master].user = Owner[s]
                                    /\ T.products[master].sku = item.sku
  PROVE  LET New == Stored(T, s, item, found, seen, master) IN
         /\ Grown(T.products, T.listings, New.products, New.listings)
         /\ \A p \in DOMAIN T.products : New.products[p] = T.products[p]
         /\ T.clash => New.clash
         /\ ~New.clash /\ OneLive(T.products) => OneLive(New.products)
         /\ Linked(T.products, T.listings) => Linked(New.products, New.listings)
<1> DEFINE New == Stored(T, s, item, found, seen, master)
           row == [user |-> Owner[s], sku |-> SkuOf(s, item), live |-> TRUE]
           listing == [store |-> s, id |-> item.id,
                       product |-> ListedProduct(T.products, master),
                       value |-> item.value, sku |-> item.sku]
<1>1. /\ TablesOK(New)
      /\ New.clash = (T.clash \/ (master = 0 /\ Taken(T.products, SkuOf(s, item))))
      /\ New.products = IF master = 0 THEN Append(T.products, row) ELSE T.products
      /\ New.listings = IF found = 0 THEN Append(T.listings, listing)
                        ELSE IF item.value = seen THEN T.listings
                        ELSE [T.listings EXCEPT ![found].value = item.value]
  <2>1. TablesOK(New) /\ StoredEffect(T, s, item, found, seen, master, New)
    BY StoredIs
  <2> HIDE DEF New
  <2>2. QED
    BY <2>1 DEF StoredEffect
<1> HIDE DEF New
<1>2. /\ T.products \in Seq(Product) /\ T.listings \in Seq(Listing)
      /\ Len(T.products) \in Nat /\ DOMAIN T.products = 1 .. Len(T.products)
      /\ Len(T.listings) \in Nat /\ DOMAIN T.listings = 1 .. Len(T.listings)
      /\ \A k \in DOMAIN T.listings : T.listings[k] \in Listing
      /\ \A k \in DOMAIN T.listings : T.listings[k].product \in DOMAIN T.products
      /\ New.products \in Seq(Product) /\ New.listings \in Seq(Listing)
  <2>1. New.products \in Seq(Product) /\ New.listings \in Seq(Listing)
    BY <1>1 DEF TablesOK, Tables
  <2>2. T.products \in Seq(Product) /\ T.listings \in Seq(Listing)
    BY DEF TablesOK, Tables
  <2>3. \A k \in DOMAIN T.listings : T.listings[k].product \in DOMAIN T.products
    BY DEF TablesOK
  <2>4. QED
    BY <2>1, <2>2, <2>3
<1>3. /\ Len(T.products) <= Len(New.products)
      /\ \A p \in DOMAIN T.products : New.products[p] = T.products[p]
      /\ master # 0 => New.products = T.products
      /\ master = 0 => /\ DOMAIN New.products = 1 .. Len(T.products) + 1
                       /\ New.products[Len(T.products) + 1] = row
  <2> HIDE DEF row
  <2>1. QED
    BY <1>1, <1>2
<1>4. /\ Len(T.listings) <= Len(New.listings)
      /\ \A k \in DOMAIN T.listings :
           /\ New.listings[k].store = T.listings[k].store
           /\ New.listings[k].id = T.listings[k].id
           /\ New.listings[k].product = T.listings[k].product
           /\ New.listings[k].sku = T.listings[k].sku
      /\ found # 0 => DOMAIN New.listings = DOMAIN T.listings
      /\ found = 0 => /\ DOMAIN New.listings = 1 .. Len(T.listings) + 1
                      /\ New.listings[Len(T.listings) + 1] = listing
  <2> HIDE DEF listing
  <2>1. CASE found = 0
    BY <1>1, <1>2, <2>1
  <2>2. CASE found # 0 /\ item.value = seen
    BY <1>1, <1>2, <2>2
  <2>3. CASE found # 0 /\ item.value # seen
    <3>1. /\ New.listings = [T.listings EXCEPT ![found].value = item.value]
          /\ found \in DOMAIN T.listings
      BY <1>1, <1>2, <2>3
    <3>2. ASSUME NEW k \in DOMAIN T.listings
          PROVE  /\ New.listings[k].store = T.listings[k].store
                 /\ New.listings[k].id = T.listings[k].id
                 /\ New.listings[k].product = T.listings[k].product
                 /\ New.listings[k].sku = T.listings[k].sku
      <4>1. PICK ls, v : ls = T.listings /\ v = item.value
        OBVIOUS
      <4>2. New.listings = [ls EXCEPT ![found].value = v] /\ k \in DOMAIN ls /\ ls[k] \in Listing
        BY <1>2, <3>1, <4>1
      <4>3. New.listings[k] = IF k = found THEN [ls[k] EXCEPT !.value = v] ELSE ls[k]
        BY <4>2
      <4>4. QED
        BY <4>1, <4>2, <4>3 DEF Listing
    <3>3. DOMAIN New.listings = DOMAIN T.listings /\ Len(New.listings) = Len(T.listings)
      BY <1>2, <3>1
    <3>4. QED
      BY <1>2, <2>3, <3>2, <3>3
  <2>4. QED
    BY <2>1, <2>2, <2>3
<1>5. Grown(T.products, T.listings, New.products, New.listings)
  BY <1>3, <1>4 DEF Grown
<1>6. ASSUME ~New.clash, OneLive(T.products) PROVE OneLive(New.products)
  <2>1. CASE master # 0
    BY <1>3, <1>6, <2>1
  <2>2. CASE master = 0
    <3>1. ~Taken(T.products, SkuOf(s, item))
      BY <1>1, <1>6, <2>2, Zenon
    <3>2. \A p \in DOMAIN T.products : ~(T.products[p].live /\ T.products[p].sku = row.sku)
      BY <3>1 DEF Taken
    <3> HIDE DEF row
    <3>3. ASSUME NEW p \in DOMAIN New.products
          PROVE  p \in DOMAIN T.products \/ (New.products[p] = row /\ p = Len(T.products) + 1)
      BY <1>2, <1>3, <2>2
    <3>4. QED
      BY <1>3, <1>6, <3>2, <3>3 DEF OneLive
  <2>3. QED
    BY <2>1, <2>2
<1>7. ASSUME Linked(T.products, T.listings) PROVE Linked(New.products, New.listings)
  <2> SUFFICES ASSUME NEW k \in DOMAIN New.listings, New.listings[k].sku # NoSku
               PROVE  /\ New.products[New.listings[k].product].user = Owner[New.listings[k].store]
                      /\ New.products[New.listings[k].product].sku = New.listings[k].sku
    BY DEF Linked
  <2>1. CASE k \in DOMAIN T.listings
    <3>1. /\ New.listings[k].product = T.listings[k].product
          /\ T.listings[k].product \in DOMAIN T.products
          /\ New.listings[k].sku = T.listings[k].sku
          /\ New.listings[k].store = T.listings[k].store
      BY <1>2, <1>4, <2>1
    <3>2. T.listings[k].sku # NoSku
      BY <3>1
    <3>3. /\ T.products[T.listings[k].product].user = Owner[T.listings[k].store]
          /\ T.products[T.listings[k].product].sku = T.listings[k].sku
      BY <1>7, <2>1, <3>2, Zenon DEF Linked
    <3>4. New.products[New.listings[k].product] = T.products[T.listings[k].product]
      BY <1>3, <3>1
    <3>5. QED
      BY <3>1, <3>3, <3>4, Zenon
  <2>2. CASE k \notin DOMAIN T.listings
    <3>1. found = 0 /\ k = Len(T.listings) + 1 /\ New.listings[k] = listing
      BY <1>2, <1>4, <2>2
    <3>2. item.sku # NoSku /\ SkuOf(s, item) = item.sku
      BY <3>1 DEF SkuOf
    <3>3. CASE master = 0
      <4>1. New.listings[k].product = Len(T.products) + 1
        BY <3>1, <3>3 DEF ListedProduct
      <4>2. New.products[New.listings[k].product] = row
        BY <1>3, <3>3, <4>1
      <4>3. QED
        BY <3>1, <3>2, <4>2
    <3>4. CASE master # 0
      <4>1. New.listings[k].product = master /\ master \in DOMAIN T.products
        BY <1>2, <3>1, <3>4 DEF ListedProduct
      <4>2. QED
        BY <1>3, <3>1, <3>4, <4>1
    <3>5. QED
      BY <3>3, <3>4
  <2>3. QED
    BY <2>1, <2>2
<1>8. T.clash => New.clash
  BY <1>1
<1>9. QED
  BY <1>3, <1>5, <1>6, <1>7, <1>8 DEF New

\* A product that is not skipped stands in one listing at most: the one found.
LEMMA FoundIn ==
  ASSUME NEW ls \in Seq(Listing), NEW s, NEW item, ~Skipped(ls, s, item)
  PROVE  LET k == FoundListing(ls, s, item) IN
         /\ item.value # Refused /\ k \in 0 .. Len(ls)
         /\ k = 0 => Listed(ls, s, item.id) = {}
         /\ k # 0 => Listed(ls, s, item.id) = {k}
<1> DEFINE L == Listed(ls, s, item.id)
<1>1. L \subseteq 1 .. Len(ls) /\ Len(ls) \in Nat
  BY DEF Listed
<1>2. item.value # Refused /\ ~(Cardinality(L) > 1)
  BY DEF Skipped
<1>3. IsFiniteSet(L)
  <2>1. IsFiniteSet(1 .. Len(ls))
    BY <1>1, FS_Interval
  <2>2. QED
    BY <1>1, <2>1, FS_Subset
<1>4. FoundListing(ls, s, item) = IF L = {} THEN 0 ELSE CHOOSE k \in L : TRUE
  BY DEF FoundListing
<1> HIDE DEF L
<1>5. CASE L = {}
  BY <1>1, <1>2, <1>4, <1>5 DEF L
<1>6. CASE L # {}
  <2>1. FoundListing(ls, s, item) \in L
    BY <1>4, <1>6
  <2>2. Cardinality(L) = 1
    BY <1>2, <1>3, <1>6, FS_CardinalityType, FS_EmptySet
  <2>3. PICK k : L = {k}
    BY <1>3, <2>2, FS_Singleton
  <2>4. QED
    BY <1>1, <1>2, <2>1, <2>3 DEF L
<1>7. QED
  BY <1>5, <1>6

\* What every turn of the loop keeps.
Turned(T, New) ==
  /\ TablesOK(New)
  /\ Grown(T.products, T.listings, New.products, New.listings)
  /\ \A p \in DOMAIN T.products : New.products[p] = T.products[p]
  /\ T.clash => New.clash
  /\ ~New.clash /\ OneLive(T.products) => OneLive(New.products)
  /\ Linked(T.products, T.listings) => Linked(New.products, New.listings)

LEMMA TurnedTwice ==
  ASSUME NEW T1, TablesOK(T1), NEW T2, TablesOK(T2), NEW T3, Turned(T1, T2), Turned(T2, T3)
  PROVE  Turned(T1, T3)
<1>1. /\ T1.products \in Seq(Product) /\ T1.listings \in Seq(Listing)
      /\ T2.products \in Seq(Product) /\ T2.listings \in Seq(Listing)
      /\ T3.products \in Seq(Product) /\ T3.listings \in Seq(Listing)
  BY DEF Turned, TablesOK, Tables
<1>2. Grown(T1.products, T1.listings, T3.products, T3.listings)
  BY <1>1, GrownTwice DEF Turned
<1>3. \A p \in DOMAIN T1.products : p \in DOMAIN T2.products
  BY <1>1 DEF Turned, Grown
<1>4. \A p \in DOMAIN T1.products : T3.products[p] = T1.products[p]
  BY <1>3 DEF Turned
<1>5. QED
  BY <1>2, <1>4 DEF Turned

\* A turn of the loop: the product is skipped, or stored with what the look-ups find.
LEMMA UpsertedIs ==
  ASSUME NEW T, TablesOK(T), NEW s \in Stores, NEW item \in Item
  PROVE  LET New == Upserted(T, s, item)
             found == FoundListing(T.listings, s, item)
             master == ProductOf(T.products, T.listings, s, item, found)
             seen == IF found = 0 THEN Refused ELSE T.listings[found].value
         IN /\ Turned(T, New)
            /\ Skipped(T.listings, s, item) => New = [T EXCEPT !.failed = @ + 1]
            /\ ~Skipped(T.listings, s, item) =>
                 /\ New = Stored(T, s, item, found, seen, master)
                 /\ found \in 0 .. Len(T.listings) /\ master \in 0 .. Len(T.products)
                 /\ item.value # Refused
<1> DEFINE New == Upserted(T, s, item)
           found == FoundListing(T.listings, s, item)
           master == ProductOf(T.products, T.listings, s, item, found)
           seen == IF found = 0 THEN Refused ELSE T.listings[found].value
<1>1. /\ T.products \in Seq(Product) /\ T.listings \in Seq(Listing) /\ T.failed \in Nat
      /\ T.clash \in BOOLEAN /\ T \in Tables
      /\ \A k \in DOMAIN T.listings : T.listings[k].product \in DOMAIN T.products
  BY DEF TablesOK, Tables
<1>2. CASE Skipped(T.listings, s, item)
  <2>1. New = [T EXCEPT !.failed = @ + 1]
    BY <1>2 DEF Upserted
  <2> HIDE DEF New
  <2>2. /\ New \in Tables /\ New.products = T.products /\ New.listings = T.listings
        /\ New.clash = T.clash
    <3>1. New = [products |-> T.products, listings |-> T.listings, failed |-> T.failed + 1,
                 clash |-> T.clash]
      BY <1>1, <2>1 DEF Tables
    <3>2. QED
      BY <1>1, <3>1 DEF Tables
  <2>3. TablesOK(New)
    BY <1>1, <2>2 DEF TablesOK
  <2>4. Grown(T.products, T.listings, New.products, New.listings)
    BY <1>1, <2>2 DEF Grown
  <2>5. Turned(T, New)
    BY <2>2, <2>3, <2>4 DEF Turned
  <2>6. QED
    BY <1>2, <2>1, <2>5 DEF New
<1>3. CASE ~Skipped(T.listings, s, item)
  <2>1. item.value # Refused /\ found \in 0 .. Len(T.listings)
    BY <1>1, <1>3, FoundIn
  <2>2. New = Stored(T, s, item, found, seen, master)
    BY <1>3 DEF Upserted
  <2> HIDE DEF New, found, seen, master
  <2>3. /\ master \in 0 .. Len(T.products)
        /\ master # 0 /\ found = 0 => /\ T.products[master].user = Owner[s]
                                      /\ T.products[master].sku = item.sku
    <3>1. /\ T.products \in Seq(Product) /\ T.listings \in Seq(Listing)
          /\ \A k \in DOMAIN T.listings : T.listings[k].product \in DOMAIN T.products
      BY <1>1
    <3>2. ProductFound(T.products, T.listings, s, item, found,
                       ProductOf(T.products, T.listings, s, item, found))
      BY <2>1, <3>1, ProductOfType
    <3>3. QED
      BY <3>2 DEF ProductFound, master
  <2>4. TablesOK(Stored(T, s, item, found, seen, master))
    BY <2>1, <2>3, StoredIs
  <2>5. Turned(T, Stored(T, s, item, found, seen, master))
    BY <2>1, <2>3, <2>4, StoredKeeps DEF Turned
  <2>6. QED
    BY <1>3, <2>1, <2>2, <2>3, <2>5 DEF New, found, seen, master
<1>4. QED
  BY <1>2, <1>3

-----------------------------------------------------------------------------
(* The transaction of a run.                                               *)

Before(R) == [products |-> products, listings |-> listings, failed |-> R.failed, clash |-> FALSE]

FirstTables(R) == Stored(Before(R), R.store, R.feed[R.at], R.found, R.seen, R.master)

\* The tables after each product of the feed, up to n.
After(R, n, f) ==
  f = [k \in R.at .. n |->
         IF k = R.at THEN FirstTables(R) ELSE Upserted(f[k - 1], R.store, R.feed[k])]

LEMMA AfterExists ==
  ASSUME NEW R, R.at \in Nat, NEW b \in Nat, R.at <= b
  PROVE  \E f : After(R, b, f)
<1> DEFINE S == {n \in Nat : \E f : After(R, n, f)}
           a == R.at
<1>1. a \in S
  <2> DEFINE f == [k \in a .. a |-> FirstTables(R)]
  <2>1. After(R, a, f)
    BY DEF After
  <2>2. QED
    BY <2>1
<1>2. ASSUME NEW n \in Nat, a <= n, n \in S PROVE n + 1 \in S
  <2>1. PICK f : After(R, n, f)
    BY <1>2
  <2> DEFINE last == Upserted(f[n], R.store, R.feed[n + 1])
             g == [k \in a .. n + 1 |-> IF k = n + 1 THEN last ELSE f[k]]
  <2> HIDE DEF last
  <2>2. ASSUME NEW k \in a .. n + 1
        PROVE  g[k] = IF k = a THEN FirstTables(R) ELSE Upserted(g[k - 1], R.store, R.feed[k])
    <3>1. CASE k = n + 1
      <4>1. g[k] = last /\ g[k - 1] = f[n] /\ k # a
        BY <1>2, <3>1
      <4>2. QED
        BY <3>1, <4>1 DEF last
    <3>2. CASE k # n + 1
      <4>1. k \in a .. n /\ g[k] = f[k] /\ (k # a => g[k - 1] = f[k - 1])
        BY <1>2, <3>2
      <4>2. f[k] = IF k = a THEN FirstTables(R) ELSE Upserted(f[k - 1], R.store, R.feed[k])
        BY <2>1, <4>1 DEF After
      <4>3. QED
        BY <4>1, <4>2
    <3>3. QED
      BY <3>1, <3>2
  <2>3. g = [k \in a .. n + 1 |-> g[k]]
    OBVIOUS
  <2> HIDE DEF g
  <2>4. After(R, n + 1, g)
    BY <2>2, <2>3 DEF After
  <2>5. QED
    BY <2>4
<1> HIDE DEF S
<1>3. b \in a .. b
  OBVIOUS
<1>4. b \in S
  BY <1>1, <1>2, <1>3, TurnByTurn
<1>5. QED
  BY <1>4 DEF S

\* Outcome is the last of them.
LEMMA OutcomeIs ==
  ASSUME NEW r, run[r].at \in Nat, Len(run[r].feed) \in Nat, run[r].at <= Len(run[r].feed)
  PROVE  \E f : After(run[r], Len(run[r].feed), f) /\ Outcome(r) = f[Len(run[r].feed)]
<1> DEFINE f == CHOOSE f : After(run[r], Len(run[r].feed), f)
<1>1. After(run[r], Len(run[r].feed), f)
  BY AfterExists
<1>2. Outcome(r) = f[Len(run[r].feed)]
  BY Zenon DEF Outcome, After, FirstTables, Before
<1>3. QED
  BY <1>1, <1>2

-----------------------------------------------------------------------------
(* What a run knows, and what stays true of it while others write.         *)

\* The run has looked up the listing of the product in hand, and its master.
Upserting == {"master", "write"}

RunOK(q, ps, ls) ==
  /\ q \in Run
  /\ q.pc # "idle" =>
       /\ q.at \in Nat \ {0} /\ q.failed = q.at - 1
       /\ q.found \in 0 .. Len(ls) /\ q.master \in 0 .. Len(ps) /\ q.known \in 0 .. Len(ps)
  /\ q.pc \in Upserting =>
       /\ q.at \in DOMAIN q.feed /\ q.feed[q.at].value # Refused
       /\ q.found # 0 => ls[q.found].store = q.store /\ ls[q.found].id = q.feed[q.at].id
  /\ q.pc = "write" =>
       /\ q.master # 0 /\ q.found = 0 => /\ ps[q.master].user = Owner[q.store]
                                         /\ ps[q.master].sku = q.feed[q.at].sku
       /\ q.master = 0 /\ q.found # 0 => ~ps[ls[q.found].product].live
       /\ q.master = 0 /\ q.feed[q.at].sku # NoSku =>
            ~ \E p \in DOMAIN ps : /\ p <= q.known /\ ps[p].live
                                   /\ ps[p].user = Owner[q.store] /\ ps[p].sku = q.feed[q.at].sku

StoreInv ==
  /\ TablesOK([products |-> products, listings |-> listings, failed |-> 0, clash |-> FALSE])
  /\ OneLive(products) /\ Linked(products, listings)
  /\ DOMAIN run \subseteq Requests /\ run = [r \in DOMAIN run |-> run[r]]
  /\ \A r \in DOMAIN run : RunOK(run[r], products, listings)
  /\ begun \in 0 .. MaxBegun

\* A run under way.
Active == [pc : {"fetch", "look", "master", "write"}, log : {"running"}, store : Stores,
           feed : Feeds \cup {<<>>}, at : Nat, failed : Nat,
           found : Nat, seen : Values \cup {Refused}, master : Nat, known : Nat]

LEMMA ActiveRuns == Active \subseteq Run /\ \A q \in Run : q.pc # "idle" => q \in Active
BY DEF Active, Run

LEMMA RunKinds ==
  ASSUME NEW q \in Run
  PROVE  /\ q.pc \in {"idle", "fetch", "look", "master", "write"} /\ q.log \in Statuses
         /\ q.pc # "idle" =>
              /\ q.store \in Stores /\ q.feed \in Seq(Item)
              /\ \A n \in DOMAIN q.feed : q.feed[n] \in Item
              /\ \A m, n \in DOMAIN q.feed : q.feed[m].id = q.feed[n].id => m = n
              /\ q.log = "running"
              /\ q.feed \in Feeds \cup {<<>>} /\ q.at \in Nat /\ q.failed \in Nat
              /\ q.found \in Nat /\ q.seen \in Values \cup {Refused}
              /\ q.master \in Nat /\ q.known \in Nat
<1>1. CASE q.pc = "idle"
  BY <1>1 DEF Run, Statuses
<1>2. CASE q.pc # "idle"
  <2>1. q \in Active
    BY <1>2, ActiveRuns
  <2>2. q.feed \in Seq(Item)
    <3>1. q.feed \in Feeds \/ q.feed = <<>>
      BY <2>1 DEF Active
    <3>2. Feeds \subseteq Seq(Item) /\ <<>> \in Seq(Item)
      OBVIOUS
    <3>3. QED
      BY <3>1, <3>2, Zenon
  <2>3. \A n \in DOMAIN q.feed : q.feed[n] \in Item
    BY <2>2
  <2>4. \A m, n \in DOMAIN q.feed : q.feed[m].id = q.feed[n].id => m = n
    BY <2>1 DEF Active
  <2>5. QED
    BY <2>1, <2>2, <2>3, <2>4 DEF Statuses, Active
<1>3. QED
  BY <1>1, <1>2

LEMMA InvType ==
  ASSUME StoreInv
  PROVE  /\ products \in Seq(Product) /\ listings \in Seq(Listing)
         /\ Len(products) \in Nat /\ DOMAIN products = 1 .. Len(products)
         /\ Len(listings) \in Nat /\ DOMAIN listings = 1 .. Len(listings)
         /\ \A k \in DOMAIN listings : listings[k] \in Listing
         /\ \A k \in DOMAIN listings : listings[k].product \in DOMAIN products
BY DEF StoreInv, TablesOK, Tables

LEMMA InvImpliesType == StoreInv => TypeOK
<1> SUFFICES ASSUME StoreInv PROVE TypeOK
  OBVIOUS
<1>1. \A r \in DOMAIN run : run[r] \in Run
  BY DEF StoreInv, RunOK
<1>2. run \in [DOMAIN run -> Run]
  BY <1>1 DEF StoreInv
<1>3. \A r \in DOMAIN run : run[r].pc # "idle" =>
        /\ run[r].found \in 0 .. Len(listings) /\ run[r].master \in 0 .. Len(products)
        /\ run[r].pc \in {"master", "write"} => run[r].at \in DOMAIN run[r].feed
  BY DEF StoreInv, RunOK, Upserting
<1>4. QED
  BY <1>2, <1>3, InvType DEF TypeOK, StoreInv

\* What a run knows stays true while products and listings are added or deleted.
LEMMA RunStays ==
  ASSUME NEW ps \in Seq(Product), NEW ls \in Seq(Listing),
         NEW ps2 \in Seq(Product), NEW ls2 \in Seq(Listing), Grown(ps, ls, ps2, ls2),
         \A k \in DOMAIN ls : ls[k].product \in DOMAIN ps,
         NEW q, RunOK(q, ps, ls)
  PROVE  RunOK(q, ps2, ls2)
<1>1. /\ Len(ps) \in Nat /\ Len(ls) \in Nat /\ Len(ps2) \in Nat /\ Len(ls2) \in Nat
      /\ DOMAIN ps = 1 .. Len(ps) /\ DOMAIN ls = 1 .. Len(ls)
      /\ Len(ps) <= Len(ps2) /\ Len(ls) <= Len(ls2)
  BY DEF Grown
<1>2. q \in Run
  BY DEF RunOK
<1>3. ASSUME q.pc # "idle"
      PROVE  /\ q.at \in Nat \ {0} /\ q.failed = q.at - 1
             /\ q.found \in 0 .. Len(ls2) /\ q.master \in 0 .. Len(ps2)
             /\ q.known \in 0 .. Len(ps2)
             /\ q.found # 0 => q.found \in DOMAIN ls
             /\ q.master # 0 => q.master \in DOMAIN ps
             /\ q.known \in Nat /\ q.known <= Len(ps)
  BY <1>1, <1>3 DEF RunOK
<1>4. ASSUME q.pc \in Upserting
      PROVE  /\ q.at \in DOMAIN q.feed /\ q.feed[q.at].value # Refused
             /\ q.found # 0 => ls2[q.found].store = q.store /\ ls2[q.found].id = q.feed[q.at].id
  <2>1. q.pc # "idle"
    BY <1>4 DEF Upserting
  <2>2. QED
    BY <1>3, <1>4, <2>1 DEF RunOK, Grown
<1>5. ASSUME q.pc = "write"
      PROVE  /\ q.master # 0 /\ q.found = 0 => /\ ps2[q.master].user = Owner[q.store]
                                               /\ ps2[q.master].sku = q.feed[q.at].sku
             /\ q.master = 0 /\ q.found # 0 => ~ps2[ls2[q.found].product].live
             /\ q.master = 0 /\ q.feed[q.at].sku # NoSku =>
                  ~ \E p \in DOMAIN ps2 : /\ p <= q.known /\ ps2[p].live
                                          /\ ps2[p].user = Owner[q.store]
                                          /\ ps2[p].sku = q.feed[q.at].sku
  <2>1. q.pc # "idle"
    BY <1>5
  <2>2. q.master # 0 /\ q.found = 0 => /\ ps2[q.master].user = Owner[q.store]
                                       /\ ps2[q.master].sku = q.feed[q.at].sku
    BY <1>3, <1>5, <2>1 DEF RunOK, Grown
  <2>3. q.master = 0 /\ q.found # 0 => ~ps2[ls2[q.found].product].live
    <3> SUFFICES ASSUME q.master = 0, q.found # 0 PROVE ~ps2[ls2[q.found].product].live
      OBVIOUS
    <3>1. q.found \in DOMAIN ls /\ ~ps[ls[q.found].product].live
      BY <1>3, <1>5, <2>1 DEF RunOK
    <3>2. ls2[q.found].product = ls[q.found].product /\ ls[q.found].product \in DOMAIN ps
      BY <3>1 DEF Grown
    <3>3. QED
      BY <3>1, <3>2 DEF Grown
  <2>4. ASSUME q.master = 0, q.feed[q.at].sku # NoSku, NEW p \in DOMAIN ps2, p <= q.known,
               ps2[p].live, ps2[p].user = Owner[q.store], ps2[p].sku = q.feed[q.at].sku
        PROVE  FALSE
    <3>1. p \in DOMAIN ps
      BY <1>1, <1>3, <2>1, <2>4
    <3>2. ps[p].live /\ ps[p].user = Owner[q.store] /\ ps[p].sku = q.feed[q.at].sku
      BY <2>4, <3>1 DEF Grown
    <3>3. QED
      BY <1>5, <2>4, <3>1, <3>2 DEF RunOK
  <2>5. QED
    BY <2>2, <2>3, <2>4
<1>6. QED
  BY <1>2, <1>3, <1>4, <1>5 DEF RunOK

\* Nothing that leaves the tables alone, or lets them grow in good order, disturbs a run.
LEMMA RunsStay ==
  ASSUME StoreInv, NEW r \in DOMAIN run, NEW new, run' = [run EXCEPT ![r] = new],
         TablesOK([products |-> products', listings |-> listings', failed |-> 0, clash |-> FALSE]),
         Grown(products, listings, products', listings'),
         OneLive(products'), Linked(products', listings'),
         RunOK(new, products', listings'), begun' \in 0 .. MaxBegun
  PROVE  StoreInv'
<1>1. products' \in Seq(Product) /\ listings' \in Seq(Listing)
  BY DEF TablesOK, Tables
<1>2. run' = [i \in DOMAIN run |-> IF i = r THEN new ELSE run[i]]
  BY DEF StoreInv
<1>3. /\ DOMAIN run' = DOMAIN run /\ run' = [i \in DOMAIN run' |-> run'[i]]
      /\ run'[r] = new /\ \A i \in DOMAIN run : i # r => run'[i] = run[i]
  BY <1>2
<1>4. \A i \in DOMAIN run : RunOK(run[i], products', listings')
  BY <1>1, InvType, RunStays DEF StoreInv
<1>5. \A i \in DOMAIN run' : RunOK(run'[i], products', listings')
  BY <1>3, <1>4
<1>6. DOMAIN run' \subseteq Requests
  BY <1>3 DEF StoreInv
<1>7. QED
  BY <1>3, <1>5, <1>6 DEF StoreInv

\* A step of a run that writes nothing.
LEMMA RunMoves ==
  ASSUME StoreInv, NEW r \in DOMAIN run, NEW new, run' = [run EXCEPT ![r] = new],
         UNCHANGED <<products, listings>>, RunOK(new, products, listings),
         begun' \in 0 .. MaxBegun
  PROVE  StoreInv'
<1>1. Grown(products, listings, products, listings)
  BY InvType DEF Grown
<1>2. QED
  BY <1>1, RunsStay DEF StoreInv

LEMMA IdleOK ==
  ASSUME NEW log \in Statuses, NEW ps, NEW ls
  PROVE  RunOK(Idle(log), ps, ls)
BY DEF RunOK, Idle, Run, Upserting

LEMMA StoreInit == Init => StoreInv
<1> SUFFICES ASSUME Init PROVE StoreInv
  OBVIOUS
<1>1. products = <<>> /\ listings = <<>> /\ begun = 0
  BY DEF Init
<1>2. PICK R \in SUBSET Requests : run = [r \in R |-> Idle("none")]
  BY DEF Init
<1>3. \A r \in DOMAIN run : RunOK(run[r], products, listings)
  BY <1>2, IdleOK DEF Statuses
<1>4. DOMAIN run \subseteq Requests /\ run = [r \in DOMAIN run |-> run[r]]
  BY <1>2
<1>5. TablesOK([products |-> products, listings |-> listings, failed |-> 0, clash |-> FALSE])
  BY <1>1 DEF TablesOK, Tables
<1>6. OneLive(products) /\ Linked(products, listings)
  BY <1>1 DEF OneLive, Linked
<1>7. QED
  BY <1>1, <1>3, <1>4, <1>5, <1>6 DEF StoreInv

LEMMA StoreBegins ==
  ASSUME StoreInv, NEW r \in DOMAIN run, NEW s \in Stores, Begin(r, s)
  PROVE  StoreInv'
<1> DEFINE new == [pc |-> "fetch", log |-> "running", store |-> s, feed |-> <<>>, at |-> 1,
                   failed |-> 0, found |-> 0, seen |-> Refused, master |-> 0, known |-> 0]
<1>1. new \in Run
  BY DEF Run
<1>2. RunOK(new, products, listings)
  BY <1>1, InvType DEF RunOK, Upserting
<1>3. run' = [run EXCEPT ![r] = new] /\ UNCHANGED <<products, listings>>
      /\ begun' \in 0 .. MaxBegun
  BY DEF Begin, StoreInv
<1> HIDE DEF new
<1>4. QED
  BY <1>2, <1>3, RunMoves

LEMMA StoreFetches ==
  ASSUME StoreInv, NEW r \in DOMAIN run, NEW feed \in Feeds, Fetch(r, feed)
  PROVE  StoreInv'
<1> DEFINE q == run[r]  new == [q EXCEPT !.pc = "look", !.feed = feed]
<1>1. RunOK(q, products, listings) /\ q.pc = "fetch" /\ q \in Run
  BY DEF StoreInv, Fetch, RunOK
<1>2. run' = [run EXCEPT ![r] = new] /\ UNCHANGED <<products, listings>>
      /\ begun' \in 0 .. MaxBegun
  BY DEF Fetch, StoreInv
<1> HIDE DEF q
<1>3. /\ new \in Run /\ new.pc = "look" /\ new.at = q.at /\ new.failed = q.failed
      /\ new.found = q.found /\ new.master = q.master /\ new.known = q.known
  <2>1. q \in Active
    BY <1>1, ActiveRuns
  <2>2. new \in Active
    BY <2>1 DEF Active
  <2>3. new \in Run
    BY <2>2, ActiveRuns
  <2>4. QED
    BY <2>1, <2>3 DEF Active
<1> HIDE DEF new
<1>4. RunOK(new, products, listings)
  BY <1>1, <1>3 DEF RunOK, Upserting
<1>5. QED
  BY <1>2, <1>4, RunMoves

LEMMA StoreSkips ==
  ASSUME StoreInv, NEW r \in DOMAIN run, Skip(r)
  PROVE  StoreInv'
<1> DEFINE q == run[r]  at == q.at + 1  failed == q.failed + 1
           new == [q EXCEPT !.at = at, !.failed = failed]
<1>1. RunOK(q, products, listings) /\ q.pc = "look" /\ q \in Run
  BY DEF StoreInv, Skip, Looking, RunOK
<1>2. run' = [run EXCEPT ![r] = new] /\ UNCHANGED <<products, listings>>
      /\ begun' \in 0 .. MaxBegun
  BY DEF Skip, StoreInv
<1> HIDE DEF q
<1>3. /\ new \in Run /\ new.pc = "look" /\ new.at = q.at + 1 /\ new.failed = q.failed + 1
      /\ new.found = q.found /\ new.master = q.master /\ new.known = q.known
  <2>1. q \in Active
    BY <1>1, ActiveRuns
  <2>2. at \in Nat /\ failed \in Nat
    BY <2>1 DEF Active
  <2> HIDE DEF at, failed
  <2>3. new \in Active
    BY <2>1, <2>2 DEF Active
  <2>4. new \in Run
    BY <2>3, ActiveRuns
  <2>5. QED
    BY <1>1, <2>1, <2>4 DEF Active, at, failed
<1> HIDE DEF new
<1>4. RunOK(new, products, listings)
  BY <1>1, <1>3 DEF RunOK, Upserting
<1>5. QED
  BY <1>2, <1>4, RunMoves

LEMMA StoreLooksUp ==
  ASSUME StoreInv, NEW r \in DOMAIN run, LookUp(r)
  PROVE  StoreInv'
<1> DEFINE q == run[r]
           k == FoundListing(listings, q.store, q.feed[q.at])
           seen == IF k = 0 THEN Refused ELSE listings[k].value
           known == Len(products)
           new == [q EXCEPT !.pc = "master", !.found = k, !.known = known, !.seen = seen]
<1>1. /\ RunOK(q, products, listings) /\ q.pc = "look" /\ q \in Run /\ q.at \in DOMAIN q.feed
      /\ ~Skipped(listings, q.store, q.feed[q.at])
  BY DEF StoreInv, LookUp, Looking, RunOK, InHand
<1>2. run' = [run EXCEPT ![r] = new] /\ UNCHANGED <<products, listings>>
      /\ begun' \in 0 .. MaxBegun
  <2>1. run' = [run EXCEPT ![r] = new]
    BY Zenon DEF LookUp, InHand
  <2>2. QED
    BY <2>1 DEF LookUp, StoreInv
<1> HIDE DEF q
<1>3. /\ q.feed[q.at].value # Refused /\ k \in 0 .. Len(listings)
      /\ k # 0 => Listed(listings, q.store, q.feed[q.at].id) = {k}
  BY <1>1, InvType, FoundIn
<1> HIDE DEF k
<1>4. k # 0 => /\ k \in DOMAIN listings /\ listings[k].store = q.store
               /\ listings[k].id = q.feed[q.at].id
  <2>1. k # 0 => k \in Listed(listings, q.store, q.feed[q.at].id)
    BY <1>3
  <2>2. QED
    BY <2>1 DEF Listed
<1>5. seen \in Values \cup {Refused}
  BY <1>4, InvType DEF Listing
<1> HIDE DEF seen
<1>6. /\ new \in Run /\ new.pc = "master" /\ new.at = q.at /\ new.failed = q.failed
      /\ new.found = k /\ new.master = q.master /\ new.known = Len(products)
      /\ new.feed = q.feed /\ new.store = q.store
  <2>1. q \in Active
    BY <1>1, ActiveRuns
  <2>2. k \in Nat /\ known \in Nat
    BY <1>3, InvType DEF known
  <2> HIDE DEF known
  <2>3. new \in Active
    BY <1>5, <2>1, <2>2 DEF Active
  <2>4. new \in Run
    BY <2>3, ActiveRuns
  <2>5. QED
    BY <2>1, <2>4 DEF Active, known
<1> HIDE DEF new
<1>7. RunOK(new, products, listings)
  BY <1>1, <1>3, <1>4, <1>6, InvType DEF RunOK, Upserting
<1>8. QED
  BY <1>2, <1>7, RunMoves

LEMMA StoreFindsMaster ==
  ASSUME StoreInv, NEW r \in DOMAIN run, FindMaster(r)
  PROVE  StoreInv'
<1> DEFINE q == run[r]
           p == ProductOf(products, listings, q.store, q.feed[q.at], q.found)
           new == [q EXCEPT !.pc = "write", !.master = p]
<1>1. RunOK(q, products, listings) /\ q.pc = "master" /\ q \in Run
  BY DEF StoreInv, FindMaster, RunOK
<1>2. run' = [run EXCEPT ![r] = new] /\ UNCHANGED <<products, listings>>
      /\ begun' \in 0 .. MaxBegun
  BY DEF FindMaster, StoreInv, InHand
<1> HIDE DEF q
<1>3. q.found \in 0 .. Len(listings)
  BY <1>1 DEF RunOK
<1>4. ProductFound(products, listings, q.store, q.feed[q.at], q.found, p)
  BY <1>3, InvType, ProductOfType
<1> HIDE DEF p
<1>5. p \in 0 .. Len(products)
  BY <1>4 DEF ProductFound
<1>6. /\ new \in Run /\ new.pc = "write" /\ new.at = q.at /\ new.failed = q.failed
      /\ new.found = q.found /\ new.master = p /\ new.known = q.known
      /\ new.feed = q.feed /\ new.store = q.store
  <2>1. q \in Active
    BY <1>1, ActiveRuns
  <2>2. p \in Nat
    BY <1>5, InvType
  <2>3. new \in Active
    BY <2>1, <2>2 DEF Active
  <2>4. new \in Run
    BY <2>3, ActiveRuns
  <2>5. QED
    BY <2>1, <2>4 DEF Active
<1> HIDE DEF new
<1>7. RunOK(new, products, listings)
  BY <1>1, <1>4, <1>5, <1>6 DEF RunOK, Upserting, ProductFound
<1>8. QED
  BY <1>2, <1>7, RunMoves

\* Where the transaction of a run begins, and what its first product does.
LEMMA FirstTurn ==
  ASSUME StoreInv, NEW r \in DOMAIN run, run[r].pc = "write"
  PROVE  LET q == run[r]  item == q.feed[q.at] IN
         /\ q \in Active /\ q.at \in DOMAIN q.feed /\ item \in Item /\ q.store \in Stores
         /\ q.at \in Nat \ {0} /\ Len(q.feed) \in Nat /\ q.at <= Len(q.feed)
         /\ DOMAIN q.feed = 1 .. Len(q.feed)
         /\ item.value # Refused
         /\ q.found \in 0 .. Len(listings) /\ q.master \in 0 .. Len(products)
         /\ TablesOK(Before(q)) /\ Turned(Before(q), FirstTables(q))
         /\ StoredEffect(Before(q), q.store, item, q.found, q.seen, q.master, FirstTables(q))
<1> DEFINE q == run[r]  item == q.feed[q.at]
<1>1. RunOK(q, products, listings) /\ q.pc = "write" /\ q \in Run
  BY DEF StoreInv, RunOK
<1> HIDE DEF q
<1>2. q \in Active /\ q.store \in Stores /\ q.feed \in Seq(Item)
  BY <1>1, ActiveRuns, RunKinds
<1>3. /\ q.at \in DOMAIN q.feed /\ item.value # Refused
      /\ q.found \in 0 .. Len(listings) /\ q.master \in 0 .. Len(products)
      /\ q.master # 0 /\ q.found = 0 => /\ products[q.master].user = Owner[q.store]
                                        /\ products[q.master].sku = item.sku
  BY <1>1 DEF RunOK, Upserting
<1>4. item \in Item /\ q.at \in Nat \ {0} /\ Len(q.feed) \in Nat /\ q.at <= Len(q.feed)
      /\ DOMAIN q.feed = 1 .. Len(q.feed)
  BY <1>2, <1>3
<1>5. TablesOK(Before(q))
  <2>1. q.failed \in Nat
    BY <1>2 DEF Active
  <2>2. Before(q) \in Tables
    BY <2>1, InvType DEF Before, Tables
  <2>3. QED
    BY <2>2, InvType DEF TablesOK, Before
<1>6. Before(q).products = products /\ Before(q).listings = listings
  BY DEF Before
<1> DEFINE T == Before(q)
<1> HIDE DEF T, item
<1>7. /\ q.found \in 0 .. Len(T.listings) /\ q.master \in 0 .. Len(T.products)
      /\ q.master # 0 /\ q.found = 0 => /\ T.products[q.master].user = Owner[q.store]
                                        /\ T.products[q.master].sku = item.sku
      /\ TablesOK(T)
  BY <1>3, <1>5, <1>6 DEF T, item
<1> DEFINE F == Stored(T, q.store, item, q.found, q.seen, q.master)
<1>8. TablesOK(F) /\ StoredEffect(T, q.store, item, q.found, q.seen, q.master, F)
  BY <1>2, <1>3, <1>4, <1>7, StoredIs DEF item
<1>9. Turned(T, F)
  <2>1. /\ Grown(T.products, T.listings, F.products, F.listings)
        /\ \A p \in DOMAIN T.products : F.products[p] = T.products[p]
        /\ T.clash => F.clash
        /\ ~F.clash /\ OneLive(T.products) => OneLive(F.products)
        /\ Linked(T.products, T.listings) => Linked(F.products, F.listings)
    BY <1>2, <1>3, <1>4, <1>7, StoredKeeps
  <2>2. QED
    BY <1>8, <2>1 DEF Turned
<1> HIDE DEF F
<1>10. FirstTables(q) = F
  BY DEF FirstTables, F, T, item
<1>11. QED
  BY <1>2, <1>3, <1>4, <1>5, <1>8, <1>9, <1>10 DEF q, T, item

\* What the transaction of a run keeps, turn by turn.
LEMMA OutcomeTurns ==
  ASSUME StoreInv, NEW r \in DOMAIN run, run[r].pc = "write",
         NEW f, After(run[r], Len(run[r].feed), f)
  PROVE  /\ f[run[r].at] = FirstTables(run[r])
         /\ \A n \in run[r].at .. Len(run[r].feed) : Turned(Before(run[r]), f[n])
         /\ \A n \in run[r].at + 1 .. Len(run[r].feed) :
              /\ f[n] = Upserted(f[n - 1], run[r].store, run[r].feed[n])
              /\ run[r].feed[n] \in Item
<1> DEFINE q == run[r]  a == q.at  b == Len(q.feed)
           S == {n \in Nat : Turned(Before(q), f[n])}
<1>1. /\ q \in Active /\ q.store \in Stores /\ a \in Nat \ {0} /\ b \in Nat /\ a <= b
      /\ DOMAIN q.feed = 1 .. b
      /\ TablesOK(Before(q)) /\ Turned(Before(q), FirstTables(q))
  BY FirstTurn
<1>2. q.feed \in Seq(Item)
  BY <1>1, ActiveRuns, RunKinds DEF Active
<1> HIDE DEF q
<1>3. \A n \in a .. b :
        f[n] = IF n = a THEN FirstTables(q) ELSE Upserted(f[n - 1], q.store, q.feed[n])
  BY DEF After, q
<1>4. a \in S
  BY <1>1, <1>3
<1>5. ASSUME NEW n \in Nat, a <= n, n < b, n \in S PROVE n + 1 \in S
  <2>1. n + 1 \in a .. b /\ n + 1 # a /\ (n + 1) - 1 = n /\ n + 1 \in DOMAIN q.feed
    BY <1>1, <1>5
  <2>2. f[n + 1] = Upserted(f[n], q.store, q.feed[n + 1])
    BY <1>3, <2>1
  <2>3. q.feed[n + 1] \in Item
    BY <1>2, <2>1
  <2>4. TablesOK(f[n]) /\ Turned(Before(q), f[n])
    BY <1>5 DEF Turned
  <2>5. Turned(f[n], f[n + 1])
    BY <1>1, <2>2, <2>3, <2>4, UpsertedIs
  <2>6. Turned(Before(q), f[n + 1])
    BY <1>1, <2>4, <2>5, TurnedTwice
  <2>7. QED
    BY <2>6
<1> HIDE DEF S
<1>6. \A n \in a .. b : n \in S
  BY <1>1, <1>4, <1>5, TurnByTurn
<1>7. \A n \in a .. b : Turned(Before(q), f[n])
  BY <1>6 DEF S
<1>8. f[a] = FirstTables(q)
  BY <1>1, <1>3
<1>9. ASSUME NEW n \in a + 1 .. b
      PROVE  f[n] = Upserted(f[n - 1], q.store, q.feed[n]) /\ q.feed[n] \in Item
  <2>1. n \in a .. b /\ n # a /\ n \in DOMAIN q.feed
    BY <1>1
  <2>2. QED
    BY <1>2, <1>3, <2>1
<1>10. QED
  BY <1>7, <1>8, <1>9 DEF q

LEMMA OutcomeKeeps ==
  ASSUME StoreInv, NEW r \in DOMAIN run, run[r].pc = "write"
  PROVE  Turned(Before(run[r]), Outcome(r))
<1>1. /\ run[r].at \in Nat /\ Len(run[r].feed) \in Nat /\ run[r].at <= Len(run[r].feed)
  BY FirstTurn
<1>2. PICK f : After(run[r], Len(run[r].feed), f) /\ Outcome(r) = f[Len(run[r].feed)]
  BY <1>1, OutcomeIs
<1>3. Len(run[r].feed) \in run[r].at .. Len(run[r].feed)
  BY <1>1
<1>4. QED
  BY <1>2, <1>3, OutcomeTurns

LEMMA StoreWrites ==
  ASSUME StoreInv, NEW r \in DOMAIN run, Write(r)
  PROVE  StoreInv'
<1> DEFINE T == Outcome(r)
           log == Status(T.failed, Len(run[r].feed))
<1>1. Turned(Before(run[r]), T)
  BY OutcomeKeeps DEF Write
<1>2. /\ products' = T.products /\ listings' = T.listings /\ begun' = begun /\ ~T.clash
      /\ run' = [run EXCEPT ![r] = Idle(log)]
  BY DEF Write, End
<1> HIDE DEF T
<1>3. Before(run[r]).products = products /\ Before(run[r]).listings = listings
  BY DEF Before
<1>4. TablesOK([products |-> products', listings |-> listings', failed |-> 0, clash |-> FALSE])
  BY <1>1, <1>2 DEF Turned, TablesOK, Tables
<1>5. Grown(products, listings, products', listings')
  BY <1>1, <1>2, <1>3 DEF Turned
<1>6. OneLive(products') /\ Linked(products', listings')
  BY <1>1, <1>2, <1>3 DEF Turned, StoreInv
<1>7. log \in Statuses
  BY DEF Status, Statuses
<1> HIDE DEF log
<1>8. RunOK(Idle(log), products', listings')
  BY <1>7, IdleOK
<1>9. begun' \in 0 .. MaxBegun
  BY <1>2 DEF StoreInv
<1>10. QED
  BY <1>2, <1>4, <1>5, <1>6, <1>8, <1>9, RunsStay

\* The steps by which a run ends and nothing is written.
LEMMA StoreEnds ==
  ASSUME StoreInv, NEW r \in DOMAIN run,
         FetchFails(r) \/ Clash(r) \/ WriteNothing(r) \/ Abandon(r)
  PROVE  StoreInv'
<1>1. PICK log \in Statuses : run' = [run EXCEPT ![r] = Idle(log)]
  BY DEF FetchFails, Clash, WriteNothing, Abandon, End, Status, Statuses
<1>2. UNCHANGED <<products, listings, begun>>
  BY DEF FetchFails, Clash, WriteNothing, Abandon
<1>3. begun' \in 0 .. MaxBegun
  BY <1>2 DEF StoreInv
<1>4. QED
  BY <1>1, <1>2, <1>3, IdleOK, RunMoves

\* Users create and delete products under the runs.
LEMMA UsersStay ==
  ASSUME StoreInv, UNCHANGED <<listings, run>>, begun' \in 0 .. MaxBegun,
         products' \in Seq(Product), Grown(products, listings, products', listings),
         OneLive(products')
  PROVE  StoreInv'
<1>1. DOMAIN products \subseteq DOMAIN products'
  BY InvType DEF Grown
<1>2. TablesOK([products |-> products', listings |-> listings', failed |-> 0, clash |-> FALSE])
  BY <1>1, InvType DEF TablesOK, Tables
<1>3. Linked(products', listings')
  BY InvType DEF StoreInv, Linked, Grown
<1>4. \A r \in DOMAIN run : RunOK(run[r], products', listings)
  BY InvType, RunStays DEF StoreInv
<1>5. QED
  BY <1>2, <1>3, <1>4 DEF StoreInv

LEMMA StoreUsers ==
  ASSUME StoreInv,
         \/ \E u \in Users, sku \in Skus : CreateProduct(u, sku)
         \/ \E p \in DOMAIN products : DeleteProduct(p)
  PROVE  StoreInv'
<1>1. ASSUME NEW u \in Users, NEW sku \in Skus, CreateProduct(u, sku) PROVE StoreInv'
  <2> DEFINE row == [user |-> u, sku |-> sku, live |-> TRUE]
  <2>1. products' = Append(products, row) /\ ~Taken(products, sku)
        /\ UNCHANGED <<listings, run>> /\ begun' \in 0 .. MaxBegun
    BY <1>1 DEF CreateProduct, StoreInv
  <2>2. row \in Product /\ row.sku = sku
    BY DEF Product, AllSkus
  <2> HIDE DEF row
  <2>3. /\ products' \in Seq(Product) /\ Len(products') = Len(products) + 1
        /\ DOMAIN products' = 1 .. Len(products) + 1
        /\ \A p \in DOMAIN products : products'[p] = products[p]
        /\ products'[Len(products) + 1] = row
    BY <2>1, <2>2, InvType
  <2>4. Grown(products, listings, products', listings)
    BY <2>3, InvType DEF Grown
  <2>5. OneLive(products')
    <3>1. \A p \in DOMAIN products : ~(products[p].live /\ products[p].sku = row.sku)
      BY <2>1, <2>2 DEF Taken
    <3>2. ASSUME NEW p \in DOMAIN products'
          PROVE  p \in DOMAIN products \/ (products'[p] = row /\ p = Len(products) + 1)
      BY <2>3, InvType
    <3>3. QED
      BY <2>3, <3>1, <3>2 DEF OneLive, StoreInv
  <2>6. QED
    BY <2>1, <2>3, <2>4, <2>5, UsersStay
<1>2. ASSUME NEW p \in DOMAIN products, DeleteProduct(p) PROVE StoreInv'
  <2> DEFINE row == [products[p] EXCEPT !.live = FALSE]
  <2>1. products' = [products EXCEPT ![p] = row]
        /\ UNCHANGED <<listings, run>> /\ begun' \in 0 .. MaxBegun
    BY <1>2 DEF DeleteProduct, StoreInv
  <2>2. /\ row \in Product /\ row.sku = products[p].sku /\ row.user = products[p].user
        /\ row.live = FALSE
    <3>1. products[p] \in Product
      BY InvType
    <3>2. QED
      BY <3>1 DEF Product
  <2> HIDE DEF row
  <2>3. /\ products' \in Seq(Product) /\ Len(products') = Len(products)
        /\ DOMAIN products' = DOMAIN products
        /\ \A i \in DOMAIN products : i # p => products'[i] = products[i]
        /\ products'[p] = row
    BY <2>1, <2>2, InvType
  <2>4. Grown(products, listings, products', listings)
    BY <2>2, <2>3, InvType DEF Grown
  <2>5. OneLive(products')
    BY <2>2, <2>3 DEF OneLive, StoreInv
  <2>6. QED
    BY <2>1, <2>3, <2>4, <2>5, UsersStay
<1>3. QED
  BY <1>1, <1>2

LEMMA StoreNext == StoreInv /\ [Next]_vars => StoreInv'
<1> SUFFICES ASSUME StoreInv, [Next]_vars PROVE StoreInv'
  OBVIOUS
<1>1. CASE \E u \in Users, sku \in Skus : CreateProduct(u, sku)
  BY <1>1, StoreUsers
<1>2. CASE \E p \in DOMAIN products : DeleteProduct(p)
  BY <1>2, StoreUsers
<1>3. CASE UNCHANGED vars
  BY <1>3 DEF vars, StoreInv
<1>4. ASSUME NEW r \in DOMAIN run,
             \/ \E s \in Stores : Begin(r, s)
             \/ \E feed \in Feeds : Fetch(r, feed)
             \/ FetchFails(r) \/ Skip(r) \/ LookUp(r) \/ FindMaster(r)
             \/ Write(r) \/ Clash(r) \/ WriteNothing(r) \/ Abandon(r)
      PROVE  StoreInv'
  BY <1>4, StoreBegins, StoreFetches, StoreSkips, StoreLooksUp, StoreFindsMaster, StoreWrites,
     StoreEnds
<1>5. QED
  BY <1>1, <1>2, <1>3, <1>4 DEF Next, Quiet

\* Every variable keeps its type, however runs and users interleave.
THEOREM TypeCorrect == Spec => []TypeOK
BY InvImpliesType, StoreInit, StoreNext, PTL DEF Spec

\* Stores of one user share the product of a seller SKU, however their runs overlap
\* (_find_product_master_for_remote, with the unique index of products.sku).
THEOREM MasterIsShared == Spec => []SharedMaster
<1>1. StoreInv => SharedMaster
  BY InvType DEF StoreInv, Linked, OneLive, SharedMaster
<1>2. QED
  BY <1>1, StoreInit, StoreNext, PTL DEF Spec

-----------------------------------------------------------------------------
(* The steps of a request, and what they do to its record.                 *)

Steps(r) ==
  \/ \E s \in Stores : Begin(r, s)
  \/ \E feed \in Feeds : Fetch(r, feed)
  \/ FetchFails(r) \/ Skip(r) \/ LookUp(r) \/ FindMaster(r)
  \/ Write(r) \/ Clash(r) \/ WriteNothing(r) \/ Abandon(r)

LEMMA StepsChangeOne ==
  ASSUME NEW r \in DOMAIN run, Steps(r)
  PROVE  \E new : run' = [run EXCEPT ![r] = new]
<1>1. CASE \E s \in Stores : Begin(r, s)
  BY <1>1 DEF Begin
<1>2. CASE \E feed \in Feeds : Fetch(r, feed)
  BY <1>2 DEF Fetch
<1>3. CASE FetchFails(r) \/ Clash(r) \/ WriteNothing(r) \/ Abandon(r)
  BY <1>3 DEF FetchFails, Clash, WriteNothing, Abandon, End
<1>4. CASE Skip(r) \/ FindMaster(r)
  BY <1>4 DEF Skip, FindMaster
<1>5. CASE Write(r)
  <2> DEFINE log == Status(Outcome(r).failed, Len(run[r].feed))
  <2>1. run' = [run EXCEPT ![r] = Idle(log)]
    BY <1>5 DEF Write, End
  <2>2. QED
    BY <2>1
<1>6. CASE LookUp(r)
  <2> DEFINE k == FoundListing(listings, run[r].store, InHand(r))
             seen == IF k = 0 THEN Refused ELSE listings[k].value
             known == Len(products)
  <2>1. run' = [run EXCEPT ![r].pc = "master", ![r].found = k, ![r].known = known,
                           ![r].seen = seen]
    BY <1>6, Zenon DEF LookUp
  <2> HIDE DEF k, seen, known
  <2>2. QED
    BY <2>1
<1>7. QED
  BY <1>1, <1>2, <1>3, <1>4, <1>5, <1>6 DEF Steps

LEMMA StepsOfOthers ==
  ASSUME StoreInv, NEW r \in DOMAIN run, Steps(r)
  PROVE  DOMAIN run' = DOMAIN run /\ \A j \in DOMAIN run : j # r => run'[j] = run[j]
<1>1. PICK new : run' = [run EXCEPT ![r] = new]
  BY StepsChangeOne
<1>2. run = [j \in DOMAIN run |-> run[j]]
  BY DEF StoreInv
<1>3. QED
  BY <1>1, <1>2

\* The look-up keeps the listing it found, and the number of products there were.
LEMMA LookUpFinds ==
  ASSUME StoreInv, NEW r \in DOMAIN run, LookUp(r)
  PROVE  LET q == run[r]  k == FoundListing(listings, q.store, q.feed[q.at]) IN
         /\ run'[r].found = k /\ run'[r].store = q.store /\ run'[r].feed = q.feed
         /\ run'[r].at = q.at /\ run'[r].known = Len(products) /\ run'[r].log = q.log
         /\ run'[r].seen = IF k = 0 THEN Refused ELSE listings[k].value
         /\ q \in Active
         /\ k = 0 => Listed(listings, q.store, q.feed[q.at].id) = {}
<1> DEFINE q == run[r]
           k == FoundListing(listings, q.store, q.feed[q.at])
           seen == IF k = 0 THEN Refused ELSE listings[k].value
           known == Len(products)
<1>1. /\ q \in Run /\ q.pc = "look" /\ ~Skipped(listings, q.store, q.feed[q.at])
      /\ run = [j \in DOMAIN run |-> run[j]]
  BY DEF StoreInv, LookUp, Looking, RunOK, InHand
<1>2. run' = [run EXCEPT ![r].pc = "master", ![r].found = k, ![r].known = known,
                         ![r].seen = seen]
  BY Zenon DEF LookUp, InHand
<1>3. q \in Active
  BY <1>1, ActiveRuns
<1>4. k = 0 => Listed(listings, q.store, q.feed[q.at].id) = {}
  BY <1>1, InvType, FoundIn
<1> HIDE DEF k, seen, known
<1>5. /\ run'[r].found = k /\ run'[r].store = q.store /\ run'[r].feed = q.feed
      /\ run'[r].at = q.at /\ run'[r].known = known /\ run'[r].log = q.log
      /\ run'[r].seen = seen
  BY <1>1, <1>2, <1>3 DEF Active
<1>6. QED
  BY <1>3, <1>4, <1>5 DEF k, seen, known

LEMMA FindMasterKeeps ==
  ASSUME StoreInv, NEW r \in DOMAIN run, FindMaster(r)
  PROVE  /\ run'[r].found = run[r].found /\ run'[r].store = run[r].store
         /\ run'[r].feed = run[r].feed /\ run'[r].at = run[r].at
         /\ run'[r].known = run[r].known /\ run'[r].seen = run[r].seen
         /\ run'[r].log = run[r].log /\ run[r].pc \in Upserting
<1>1. run[r] \in Run /\ run[r].pc = "master" /\ run = [j \in DOMAIN run |-> run[j]]
  BY DEF StoreInv, FindMaster, RunOK
<1>2. PICK p : run' = [run EXCEPT ![r].pc = "write", ![r].master = p]
  BY DEF FindMaster
<1>3. run[r] \in Active
  BY <1>1, ActiveRuns
<1>4. QED
  BY <1>1, <1>2, <1>3 DEF Active, Upserting

LEMMA WriteEnds ==
  ASSUME StoreInv, NEW r \in DOMAIN run, Write(r)
  PROVE  run'[r].pc = "idle"
BY DEF Write, End, Idle, StoreInv

\* After its other steps a request has no product in hand.
LEMMA StepsLeave ==
  ASSUME StoreInv, NEW r \in DOMAIN run, Steps(r), ~LookUp(r), ~FindMaster(r)
  PROVE  run'[r].pc \notin Upserting
<1>1. run[r] \in Run /\ run = [j \in DOMAIN run |-> run[j]]
  BY DEF StoreInv, RunOK
<1>2. CASE Skip(r)
  <2>1. run[r] \in Active /\ run[r].pc = "look"
    BY <1>1, <1>2, ActiveRuns DEF Skip, Looking
  <2>2. run' = [run EXCEPT ![r].at = @ + 1, ![r].failed = @ + 1]
    BY <1>2 DEF Skip
  <2>3. run'[r].pc = "look"
    BY <1>1, <2>1, <2>2 DEF Active
  <2>4. QED
    BY <2>3 DEF Upserting
<1>3. ASSUME NEW feed \in Feeds, Fetch(r, feed) PROVE run'[r].pc \notin Upserting
  <2>1. run[r] \in Active
    BY <1>1, <1>3, ActiveRuns DEF Fetch
  <2>2. QED
    BY <1>1, <1>3, <2>1 DEF Fetch, Upserting, Active
<1>4. CASE \E s \in Stores : Begin(r, s)
  BY <1>1, <1>4 DEF Begin, Upserting
<1>5. CASE FetchFails(r) \/ Write(r) \/ Clash(r) \/ WriteNothing(r) \/ Abandon(r)
  BY <1>1, <1>5 DEF FetchFails, Write, Clash, WriteNothing, Abandon, End, Idle, Upserting
<1>6. QED
  BY <1>2, <1>3, <1>4, <1>5 DEF Steps

-----------------------------------------------------------------------------
(* The copies of a listing.                                                *)

\* What storing a product adds to the listings of i in z, when its look-up found the
\* listing `found'.
AddedCopy(ls, s, item, found, z, i) ==
  IF found = 0 /\ z = s /\ i = item.id THEN {Len(ls) + 1} ELSE {}

CopiesStored(ls, s, item, found, ls2) ==
  \A z, i : Listed(ls2, z, i) = Listed(ls, z, i) \cup AddedCopy(ls, s, item, found, z, i)

CopiesUpserted(ls, ls2) ==
  \A z, i : \/ Listed(ls2, z, i) = Listed(ls, z, i)
            \/ Listed(ls, z, i) = {} /\ \E x : Listed(ls2, z, i) = {x}

\* Storing a product adds a listing of it exactly when none was found.
LEMMA StoredCopies ==
  ASSUME NEW T, TablesOK(T), NEW s \in Stores, NEW item \in Item, item.value # Refused,
         NEW found \in 0 .. Len(T.listings), NEW seen, NEW master \in 0 .. Len(T.products),
         NEW New, StoredEffect(T, s, item, found, seen, master, New)
  PROVE  CopiesStored(T.listings, s, item, found, New.listings)
<1> SUFFICES ASSUME NEW z, NEW i
             PROVE  Listed(New.listings, z, i) =
                      Listed(T.listings, z, i) \cup AddedCopy(T.listings, s, item, found, z, i)
  BY DEF CopiesStored
<1> USE DEF AddedCopy
<1> DEFINE listing == [store |-> s, id |-> item.id,
                       product |-> ListedProduct(T.products, master),
                       value |-> item.value, sku |-> item.sku]
           ls == T.listings
<1>1. /\ ls \in Seq(Listing) /\ Len(ls) \in Nat /\ DOMAIN ls = 1 .. Len(ls)
      /\ \A k \in DOMAIN ls : ls[k] \in Listing
  <2>1. ls \in Seq(Listing)
    BY DEF TablesOK, Tables
  <2>2. QED
    BY <2>1
<1>2. New.listings = IF found = 0 THEN Append(ls, listing)
                     ELSE IF item.value = seen THEN ls
                     ELSE [ls EXCEPT ![found].value = item.value]
  BY DEF StoredEffect
<1>3. listing.store = s /\ listing.id = item.id
  OBVIOUS
<1> HIDE DEF listing, ls
<1>4. CASE found = 0
  <2>1. New.listings = Append(ls, listing)
    BY <1>2, <1>4
  <2>2. /\ DOMAIN Append(ls, listing) = 1 .. Len(ls) + 1
        /\ \A k \in DOMAIN ls : Append(ls, listing)[k] = ls[k]
        /\ Append(ls, listing)[Len(ls) + 1] = listing
    BY <1>1
  <2>3. DOMAIN Append(ls, listing) = DOMAIN ls \cup {Len(ls) + 1} /\ Len(ls) + 1 \notin DOMAIN ls
    BY <1>1, <2>2
  <2>4. QED
    BY <1>3, <1>4, <2>1, <2>2, <2>3 DEF Listed, ls
<1>5. CASE found # 0
  <2>1. DOMAIN New.listings = DOMAIN ls
        /\ \A k \in DOMAIN ls : /\ New.listings[k].store = ls[k].store
                                /\ New.listings[k].id = ls[k].id
    <3>1. CASE item.value = seen
      BY <1>2, <1>5, <3>1
    <3>2. CASE item.value # seen
      <4>1. New.listings = [ls EXCEPT ![found].value = item.value]
        BY <1>2, <1>5, <3>2
      <4>2. QED
        BY <1>1, <4>1 DEF Listing
    <3>3. QED
      BY <3>1, <3>2
  <2>2. Listed(New.listings, z, i) = Listed(ls, z, i)
    BY <2>1 DEF Listed
  <2>3. QED
    BY <1>5, <2>2 DEF ls
<1>6. QED
  BY <1>4, <1>5

\* A turn of the loop adds a listing only of a product that had none.
LEMMA UpsertedCopies ==
  ASSUME NEW T, TablesOK(T), NEW s \in Stores, NEW item \in Item
  PROVE  CopiesUpserted(T.listings, Upserted(T, s, item).listings)
<1> SUFFICES ASSUME NEW z, NEW i
             PROVE  LET ls2 == Upserted(T, s, item).listings IN
                    \/ Listed(ls2, z, i) = Listed(T.listings, z, i)
                    \/ Listed(T.listings, z, i) = {} /\ \E x : Listed(ls2, z, i) = {x}
  BY DEF CopiesUpserted
<1> DEFINE New == Upserted(T, s, item)
           found == FoundListing(T.listings, s, item)
           master == ProductOf(T.products, T.listings, s, item, found)
           seen == IF found = 0 THEN Refused ELSE T.listings[found].value
<1>1. CASE Skipped(T.listings, s, item)
  <2>1. New = [T EXCEPT !.failed = @ + 1]
    BY <1>1, UpsertedIs
  <2> HIDE DEF New
  <2>2. New.listings = T.listings
    BY <2>1 DEF TablesOK, Tables
  <2>3. QED
    BY <2>2 DEF New
<1>2. CASE ~Skipped(T.listings, s, item)
  <2>1. /\ New = Stored(T, s, item, found, seen, master)
        /\ found \in 0 .. Len(T.listings) /\ master \in 0 .. Len(T.products)
        /\ item.value # Refused
    BY <1>2, UpsertedIs
  <2>2. found = 0 => Listed(T.listings, s, item.id) = {}
    BY <1>2, FoundIn DEF TablesOK, Tables
  <2> HIDE DEF New, found, seen, master
  <2>3. StoredEffect(T, s, item, found, seen, master, New)
    BY <2>1, StoredIs
  <2>4. Listed(New.listings, z, i) =
          Listed(T.listings, z, i) \cup AddedCopy(T.listings, s, item, found, z, i)
    <3>1. CopiesStored(T.listings, s, item, found, New.listings)
      BY <2>1, <2>3, StoredCopies
    <3>2. QED
      BY <3>1 DEF CopiesStored
  <2>5. CASE found = 0 /\ z = s /\ i = item.id
    <3>1. Listed(T.listings, z, i) = {}
      BY <2>2, <2>5
    <3>2. Listed(New.listings, z, i) = {Len(T.listings) + 1}
      BY <2>4, <2>5, <3>1 DEF AddedCopy
    <3>3. QED
      BY <2>5, <3>1, <3>2 DEF New
  <2>6. CASE ~(found = 0 /\ z = s /\ i = item.id)
    BY <2>4, <2>6 DEF New, AddedCopy
  <2>7. QED
    BY <2>5, <2>6
<1>3. QED
  BY <1>1, <1>2

\* Of the copies of a listing, old and new: none is lost, one may be added, by a run that
\* had found none or where there was none at all.
OneMore(old, new, foundNone) ==
  \/ new = old
  \/ (\E x : new = old \cup {x}) /\ (old = {} \/ foundNone)

LEMMA OneMoreTwice ==
  ASSUME NEW A, NEW B, NEW C, NEW foundNone, OneMore(A, B, foundNone),
         \/ C = B
         \/ B = {} /\ \E x : C = {x}
  PROVE  OneMore(A, C, foundNone)
<1>1. CASE C = B
  BY <1>1
<1>2. CASE B = {} /\ \E x : C = {x}
  <2>1. A = {}
    BY <1>2 DEF OneMore
  <2>2. PICK x : C = {x}
    BY <1>2
  <2>3. C = A \cup {x}
    BY <2>1, <2>2
  <2>4. QED
    BY <2>1, <2>3 DEF OneMore
<1>3. QED
  BY <1>1, <1>2

\* The run q found no listing of i in z, and is about to insert one.
Holder(q, z, i) == /\ q.pc \in Upserting /\ q.found = 0
                   /\ q.store = z /\ q.feed[q.at].id = i

\* A run adds at most one copy: where its look-up before the lock found none, or where
\* there was none at all.
LEMMA OutcomeCopies ==
  ASSUME StoreInv, NEW r \in DOMAIN run, run[r].pc = "write", NEW z, NEW i
  PROVE  OneMore(Copies(z, i), Listed(Outcome(r).listings, z, i), Holder(run[r], z, i))
<1> DEFINE q == run[r]  a == q.at  b == Len(q.feed)  held == Holder(q, z, i)
<1>1. /\ a \in Nat \ {0} /\ b \in Nat /\ a <= b /\ q.store \in Stores
      /\ TablesOK(Before(q)) /\ q.feed[a] \in Item /\ q.feed[a].value # Refused
      /\ q.found \in 0 .. Len(listings) /\ q.master \in 0 .. Len(products)
      /\ StoredEffect(Before(q), q.store, q.feed[a], q.found, q.seen, q.master, FirstTables(q))
  BY FirstTurn
<1>2. PICK f : After(q, b, f) /\ Outcome(r) = f[b]
  BY <1>1, OutcomeIs
<1>3. /\ f[a] = FirstTables(q)
      /\ \A n \in a .. b : TablesOK(f[n])
      /\ \A n \in a + 1 .. b : f[n] = Upserted(f[n - 1], q.store, q.feed[n]) /\ q.feed[n] \in Item
  BY <1>2, OutcomeTurns DEF Turned
<1>4. held <=> q.found = 0 /\ z = q.store /\ i = q.feed[a].id
  BY DEF Holder, Upserting
<1>5. Copies(z, i) = Listed(listings, z, i)
  BY DEF Copies, Listed
<1> HIDE DEF q, a, b, held
<1>6. Before(q).listings = listings /\ Before(q).products = products
  BY DEF Before
<1> DEFINE Holds(n) == OneMore(Copies(z, i), Listed(f[n].listings, z, i), held)
           S == {n \in Nat : n <= b => Holds(n)}
<1>7. a \in S
  <2>1. Listed(FirstTables(q).listings, z, i) =
          Listed(Before(q).listings, z, i)
            \cup AddedCopy(Before(q).listings, q.store, q.feed[a], q.found, z, i)
    <3>1. CopiesStored(Before(q).listings, q.store, q.feed[a], q.found,
                       FirstTables(q).listings)
      BY <1>1, <1>6, StoredCopies
    <3>2. QED
      BY <3>1 DEF CopiesStored
  <2>2. Listed(f[a].listings, z, i) =
          Copies(z, i) \cup AddedCopy(listings, q.store, q.feed[a], q.found, z, i)
    BY <1>3, <1>5, <1>6, <2>1
  <2>3. Holds(a)
    BY <1>4, <2>2 DEF OneMore, AddedCopy
  <2>4. QED
    BY <1>1, <2>3
<1>8. ASSUME NEW n \in Nat, a <= n, n < b, n \in S PROVE n + 1 \in S
  <2>1. n \in a .. b /\ n + 1 \in a + 1 .. b /\ (n + 1) - 1 = n /\ n <= b
    BY <1>1, <1>8
  <2>2. Holds(n)
    BY <1>8, <2>1
  <2>3. /\ TablesOK(f[n]) /\ q.feed[n + 1] \in Item
        /\ f[n + 1] = Upserted(f[(n + 1) - 1], q.store, q.feed[n + 1])
    BY <1>3, <2>1
  <2> HIDE DEF Holds, S
  <2>4. f[n + 1] = Upserted(f[n], q.store, q.feed[n + 1])
    BY <2>1, <2>3
  <2>5. \/ Listed(Upserted(f[n], q.store, q.feed[n + 1]).listings, z, i)
             = Listed(f[n].listings, z, i)
        \/ /\ Listed(f[n].listings, z, i) = {}
           /\ \E x : Listed(Upserted(f[n], q.store, q.feed[n + 1]).listings, z, i) = {x}
    <3>1. CopiesUpserted(f[n].listings, Upserted(f[n], q.store, q.feed[n + 1]).listings)
      BY <1>1, <2>3, UpsertedCopies
    <3>2. QED
      BY <3>1 DEF CopiesUpserted
  <2>6. Holds(n + 1)
    BY <2>2, <2>4, <2>5, OneMoreTwice DEF Holds
  <2>7. QED
    BY <2>6 DEF S
<1>9. b \in S
  <2> HIDE DEF S
  <2>1. b \in a .. b
    BY <1>1
  <2>2. QED
    BY <1>1, <1>7, <1>8, <2>1, TurnByTurn
<1>10. Holds(b)
  BY <1>1, <1>9
<1> HIDE DEF Holds
<1>11. QED
  BY <1>2, <1>10 DEF Holds, held, q

\* The runs that are about to insert a copy; with the copies there are, they are never
\* more than the requests.
Holders(z, i) == {r \in DOMAIN run : Holder(run[r], z, i)}

CopyInv ==
  \A z \in Stores, i \in Ids :
    Cardinality(Copies(z, i)) + Cardinality(Holders(z, i)) <= Cardinality(DOMAIN run)

\* The ways in which the copies C and their holders H may change.
CopyMove(C, H, C2, H2, D) ==
  \/ C2 = C /\ H2 \subseteq H
  \/ C2 = {} /\ H2 \subseteq D
  \/ \E x : \E r \in D : C = {} /\ C2 = {x} /\ H2 \subseteq D \ {r}
  \/ \E x : \E r \in H : C2 = C \cup {x} /\ H2 \subseteq H \ {r}

LEMMA CopyCount ==
  ASSUME NEW C, NEW H, NEW D, IsFiniteSet(C), IsFiniteSet(D), H \subseteq D,
         Cardinality(C) + Cardinality(H) <= Cardinality(D),
         NEW C2, NEW H2, CopyMove(C, H, C2, H2, D)
  PROVE  Cardinality(C2) + Cardinality(H2) <= Cardinality(D)
<1>1. /\ IsFiniteSet(H) /\ Cardinality(C) \in Nat /\ Cardinality(H) \in Nat
      /\ Cardinality(D) \in Nat
  BY FS_Subset, FS_CardinalityType
<1>2. CASE C2 = C /\ H2 \subseteq H
  <2>1. IsFiniteSet(H2) /\ Cardinality(H2) <= Cardinality(H) /\ Cardinality(H2) \in Nat
    BY <1>1, <1>2, FS_Subset, FS_CardinalityType
  <2>2. QED
    BY <1>1, <1>2, <2>1
<1>3. CASE C2 = {} /\ H2 \subseteq D
  <2>1. IsFiniteSet(H2) /\ Cardinality(H2) <= Cardinality(D) /\ Cardinality(H2) \in Nat
    BY <1>1, <1>3, FS_Subset, FS_CardinalityType
  <2>2. QED
    BY <1>1, <1>3, <2>1, FS_EmptySet
<1>4. ASSUME NEW x, NEW r \in D, C2 = {x}, H2 \subseteq D \ {r}
      PROVE  Cardinality(C2) + Cardinality(H2) <= Cardinality(D)
  <2>1. IsFiniteSet(D \ {r}) /\ Cardinality(D \ {r}) = Cardinality(D) - 1
    BY FS_RemoveElement
  <2>2. IsFiniteSet(H2) /\ Cardinality(H2) <= Cardinality(D) - 1 /\ Cardinality(H2) \in Nat
    BY <1>4, <2>1, FS_Subset, FS_CardinalityType
  <2>3. Cardinality(C2) = 1
    BY <1>4, FS_Singleton
  <2>4. QED
    BY <1>1, <2>2, <2>3
<1>5. ASSUME NEW x, NEW r \in H, C2 = C \cup {x}, H2 \subseteq H \ {r}
      PROVE  Cardinality(C2) + Cardinality(H2) <= Cardinality(D)
  <2>1. IsFiniteSet(H \ {r}) /\ Cardinality(H \ {r}) = Cardinality(H) - 1
    BY <1>1, FS_RemoveElement
  <2>2. IsFiniteSet(H2) /\ Cardinality(H2) <= Cardinality(H) - 1 /\ Cardinality(H2) \in Nat
    BY <1>5, <2>1, FS_Subset, FS_CardinalityType
  <2>3. Cardinality(C2) \in {Cardinality(C), Cardinality(C) + 1}
    BY <1>5, FS_AddElement
  <2>4. QED
    BY <1>1, <2>2, <2>3
<1>6. QED
  BY <1>2, <1>3, <1>4, <1>5 DEF CopyMove

LEMMA CopiesFinite ==
  ASSUME StoreInv, NEW z, NEW i
  PROVE  IsFiniteSet(Copies(z, i)) /\ IsFiniteSet(DOMAIN run) /\ Holders(z, i) \subseteq DOMAIN run
<1>1. IsFiniteSet(1 .. Len(listings))
  BY InvType, FS_Interval
<1>2. Copies(z, i) \subseteq 1 .. Len(listings) /\ DOMAIN run \subseteq Requests
  BY InvType DEF Copies, StoreInv
<1>3. QED
  BY <1>1, <1>2, FS_Subset DEF Holders

\* Any step in which the copies of every listing move in one of these ways.
LEMMA CopyStep ==
  ASSUME StoreInv, CopyInv, DOMAIN run' = DOMAIN run,
         \A z \in Stores, i \in Ids :
           CopyMove(Copies(z, i), Holders(z, i), Copies(z, i)', Holders(z, i)', DOMAIN run)
  PROVE  CopyInv'
<1> SUFFICES ASSUME NEW z \in Stores, NEW i \in Ids
             PROVE  Cardinality(Copies(z, i)') + Cardinality(Holders(z, i)')
                      <= Cardinality(DOMAIN run)
  BY DEF CopyInv
<1>1. Cardinality(Copies(z, i)) + Cardinality(Holders(z, i)) <= Cardinality(DOMAIN run)
  BY DEF CopyInv
<1>2. QED
  BY <1>1, CopiesFinite, CopyCount

\* A step that inserts no listing, and makes no run a holder.
LEMMA CopiesStay ==
  ASSUME StoreInv, CopyInv, UNCHANGED listings, DOMAIN run' = DOMAIN run,
         \A r \in DOMAIN run : \A z \in Stores, i \in Ids :
           Holder(run'[r], z, i) => Holder(run[r], z, i)
  PROVE  CopyInv'
<1>1. \A z \in Stores, i \in Ids : Copies(z, i)' = Copies(z, i)
  BY DEF Copies
<1>2. \A z \in Stores, i \in Ids : Holders(z, i)' \subseteq Holders(z, i)
  BY DEF Holders
<1>3. QED
  BY <1>1, <1>2, CopyStep DEF CopyMove

\* The look-up of a listing makes the run a holder only when there is no copy.
LEMMA CopyLooksUp ==
  ASSUME StoreInv, CopyInv, NEW r \in DOMAIN run, LookUp(r)
  PROVE  CopyInv'
<1> DEFINE q == run[r]
           k == FoundListing(listings, q.store, q.feed[q.at])
<1>1. /\ run'[r].found = k /\ run'[r].store = q.store /\ run'[r].feed = q.feed
      /\ run'[r].at = q.at
      /\ k = 0 => Listed(listings, q.store, q.feed[q.at].id) = {}
  BY LookUpFinds
<1>2. UNCHANGED listings
  BY DEF LookUp
<1>3. DOMAIN run' = DOMAIN run /\ \A j \in DOMAIN run : j # r => run'[j] = run[j]
  BY StepsOfOthers DEF Steps
<1> HIDE DEF k, q
<1>4. ASSUME NEW z \in Stores, NEW i \in Ids
      PROVE  CopyMove(Copies(z, i), Holders(z, i), Copies(z, i)', Holders(z, i)', DOMAIN run)
  <2>1. Copies(z, i)' = Copies(z, i) /\ Copies(z, i) = Listed(listings, z, i)
    BY <1>2 DEF Copies, Listed
  <2>2. CASE k = 0 /\ q.store = z /\ q.feed[q.at].id = i
    <3>1. Copies(z, i)' = {} /\ Holders(z, i)' \subseteq DOMAIN run
      BY <1>1, <1>3, <2>1, <2>2 DEF Holders
    <3>2. QED
      BY <3>1 DEF CopyMove
  <2>3. CASE ~(k = 0 /\ q.store = z /\ q.feed[q.at].id = i)
    <3>1. ~Holder(run'[r], z, i)
      BY <1>1, <2>3 DEF Holder
    <3>2. Holders(z, i)' \subseteq Holders(z, i)
      BY <1>3, <3>1 DEF Holders
    <3>3. QED
      BY <2>1, <3>2 DEF CopyMove
  <2>4. QED
    BY <2>2, <2>3
<1>5. QED
  BY <1>3, <1>4, CopyStep

\* A run that writes is no holder any more, and adds one copy at most.
LEMMA CopyWrites ==
  ASSUME StoreInv, CopyInv, NEW r \in DOMAIN run, Write(r)
  PROVE  CopyInv'
<1>1. run[r].pc = "write" /\ listings' = Outcome(r).listings
  BY DEF Write
<1>2. DOMAIN run' = DOMAIN run /\ \A j \in DOMAIN run : j # r => run'[j] = run[j]
  BY StepsOfOthers DEF Steps
<1>3. run'[r].pc = "idle"
  BY WriteEnds
<1>4. ASSUME NEW z \in Stores, NEW i \in Ids
      PROVE  CopyMove(Copies(z, i), Holders(z, i), Copies(z, i)', Holders(z, i)', DOMAIN run)
  <2>1. OneMore(Copies(z, i), Listed(Outcome(r).listings, z, i), Holder(run[r], z, i))
    BY <1>1, OutcomeCopies
  <2>2. Copies(z, i)' = Listed(Outcome(r).listings, z, i)
    BY <1>1 DEF Copies, Listed
  <2>3. OneMore(Copies(z, i), Copies(z, i)', Holder(run[r], z, i))
    BY <2>1, <2>2
  <2>4. Holders(z, i)' \subseteq Holders(z, i) \ {r} /\ Holders(z, i)' \subseteq DOMAIN run \ {r}
    BY <1>2, <1>3 DEF Holders, Holder, Upserting
  <2>5. CASE Copies(z, i)' = Copies(z, i)
    BY <2>4, <2>5 DEF CopyMove
  <2>6. ASSUME NEW x, Copies(z, i)' = Copies(z, i) \cup {x}, Copies(z, i) = {}
        PROVE  CopyMove(Copies(z, i), Holders(z, i), Copies(z, i)', Holders(z, i)', DOMAIN run)
    <3>1. Copies(z, i)' = {x}
      BY <2>6
    <3>2. QED
      BY <2>4, <2>6, <3>1 DEF CopyMove
  <2>7. ASSUME NEW x, Copies(z, i)' = Copies(z, i) \cup {x}, Holder(run[r], z, i)
        PROVE  CopyMove(Copies(z, i), Holders(z, i), Copies(z, i)', Holders(z, i)', DOMAIN run)
    <3>1. r \in Holders(z, i)
      BY <2>7 DEF Holders
    <3>2. QED
      BY <2>4, <2>7, <3>1 DEF CopyMove
  <2>8. QED
    BY <2>3, <2>5, <2>6, <2>7 DEF OneMore
<1>5. QED
  BY <1>2, <1>4, CopyStep

\* The other steps of a run.
LEMMA CopyMoves ==
  ASSUME StoreInv, CopyInv, NEW r \in DOMAIN run, Steps(r), ~LookUp(r), ~Write(r)
  PROVE  CopyInv'
<1>1. UNCHANGED listings
  BY DEF Steps, Begin, Fetch, FetchFails, Skip, FindMaster, Clash, WriteNothing, Abandon
<1>2. DOMAIN run' = DOMAIN run /\ \A j \in DOMAIN run : j # r => run'[j] = run[j]
  BY StepsOfOthers
<1>3. \A z \in Stores, i \in Ids : Holder(run'[r], z, i) => Holder(run[r], z, i)
  <2>1. CASE FindMaster(r)
    BY <2>1, FindMasterKeeps DEF Holder
  <2>2. CASE ~FindMaster(r)
    BY <2>2, StepsLeave DEF Holder
  <2>3. QED
    BY <2>1, <2>2
<1>4. QED
  BY <1>1, <1>2, <1>3, CopiesStay

LEMMA CopyInit == Init => CopyInv
<1> SUFFICES ASSUME Init, NEW z \in Stores, NEW i \in Ids
             PROVE  Cardinality(Copies(z, i)) + Cardinality(Holders(z, i))
                      <= Cardinality(DOMAIN run)
  BY DEF CopyInv
<1>1. Copies(z, i) = {} /\ Holders(z, i) = {}
  BY DEF Init, Copies, Holders, Holder, Upserting, Idle
<1>2. Cardinality(DOMAIN run) \in Nat
  BY StoreInit, CopiesFinite, FS_CardinalityType
<1>3. QED
  BY <1>1, <1>2, FS_EmptySet

LEMMA CopyNext == StoreInv /\ CopyInv /\ [Next]_vars => CopyInv'
<1> SUFFICES ASSUME StoreInv, CopyInv, [Next]_vars PROVE CopyInv'
  OBVIOUS
<1>1. CASE UNCHANGED <<listings, run>>
  BY <1>1, CopiesStay
<1>2. ASSUME NEW r \in DOMAIN run,
             Steps(r)
      PROVE  CopyInv'
  BY <1>2, CopyLooksUp, CopyWrites, CopyMoves
<1>3. QED
  BY <1>1, <1>2 DEF Next, Steps, vars, CreateProduct, DeleteProduct, Quiet

\* However runs overlap, a platform product has no more listings in a store than there are
\* requests (the look-up of _upsert_platform_product without a lock, and its INSERT).
THEOREM CopiesBounded == Spec => []CopiesBoundedByOverlap
<1>1. StoreInv /\ CopyInv => CopiesBoundedByOverlap
  <2> SUFFICES ASSUME StoreInv, CopyInv, NEW z \in Stores, NEW i \in Ids
               PROVE  Cardinality(Copies(z, i)) <= Cardinality(DOMAIN run)
    BY DEF CopiesBoundedByOverlap
  <2>1. Cardinality(Copies(z, i)) + Cardinality(Holders(z, i)) <= Cardinality(DOMAIN run)
    BY DEF CopyInv
  <2>2. /\ Cardinality(Copies(z, i)) \in Nat /\ Cardinality(Holders(z, i)) \in Nat
        /\ Cardinality(DOMAIN run) \in Nat
    BY CopiesFinite, FS_Subset, FS_CardinalityType
  <2>3. QED
    BY <2>1, <2>2
<1>2. QED
  BY <1>1, StoreInit, StoreNext, CopyInit, CopyNext, PTL DEF Spec

-----------------------------------------------------------------------------
(* What a run that reports success holds.                                  *)

\* A listing of the item; of its value too, where nobody interferes (fresh).
HeldIn(ls, s, item, fresh) ==
  \E k \in DOMAIN ls : /\ ls[k].store = s /\ ls[k].id = item.id
                       /\ fresh => ls[k].value = item.value

ItemStored(T, s, item, New, fresh) ==
  /\ New.failed = T.failed
  /\ HeldIn(New.listings, s, item, fresh)
  /\ \A other \in Item : (other.id # item.id /\ HeldIn(T.listings, s, other, fresh)) =>
                            HeldIn(New.listings, s, other, fresh)

LEMMA StoredHolds ==
  ASSUME NEW T, TablesOK(T), NEW s \in Stores, NEW item \in Item, item.value # Refused,
         NEW found \in 0 .. Len(T.listings), NEW seen, NEW master \in 0 .. Len(T.products),
         NEW New, StoredEffect(T, s, item, found, seen, master, New), NEW fresh \in BOOLEAN,
         found # 0 => /\ T.listings[found].store = s /\ T.listings[found].id = item.id
                      /\ fresh => T.listings[found].value = seen
  PROVE  ItemStored(T, s, item, New, fresh)
<1> DEFINE listing == [store |-> s, id |-> item.id,
                       product |-> ListedProduct(T.products, master),
                       value |-> item.value, sku |-> item.sku]
           ls == T.listings
<1>1. /\ ls \in Seq(Listing) /\ Len(ls) \in Nat /\ DOMAIN ls = 1 .. Len(ls)
      /\ \A k \in DOMAIN ls : ls[k] \in Listing
  <2>1. ls \in Seq(Listing)
    BY DEF TablesOK, Tables
  <2>2. QED
    BY <2>1
<1>2. /\ New.failed = T.failed
      /\ New.listings = IF found = 0 THEN Append(ls, listing)
                        ELSE IF item.value = seen THEN ls
                        ELSE [ls EXCEPT ![found].value = item.value]
  BY DEF StoredEffect
<1>3. listing.store = s /\ listing.id = item.id /\ listing.value = item.value
  OBVIOUS
<1>4. found # 0 => /\ found \in DOMAIN ls /\ ls[found].store = s /\ ls[found].id = item.id
                   /\ fresh => ls[found].value = seen
  BY <1>1
<1> HIDE DEF listing, ls
<1> DEFINE ls2 == New.listings
\* Every listing is still there, and of another product with its value.
<1>5. /\ \E k \in DOMAIN ls2 : /\ ls2[k].store = s /\ ls2[k].id = item.id
                               /\ fresh => ls2[k].value = item.value
      /\ \A k \in DOMAIN ls : /\ k \in DOMAIN ls2
                              /\ ls2[k].store = ls[k].store /\ ls2[k].id = ls[k].id
                              /\ ls[k].id # item.id => ls2[k].value = ls[k].value
  <2>1. CASE found = 0
    <3>1. ls2 = Append(ls, listing)
      BY <1>2, <2>1
    <3> HIDE DEF ls2
    <3>2. /\ \A k \in DOMAIN ls : k \in DOMAIN ls2 /\ ls2[k] = ls[k]
          /\ Len(ls) + 1 \in DOMAIN ls2 /\ ls2[Len(ls) + 1] = listing
      BY <1>1, <3>1
    <3>3. QED
      BY <1>3, <3>2
  <2>2. CASE found # 0 /\ item.value = seen
    <3>1. ls2 = ls
      BY <1>2, <2>2
    <3> HIDE DEF ls2
    <3>2. QED
      BY <1>4, <2>2, <3>1
  <2>3. CASE found # 0 /\ item.value # seen
    <3>1. ls2 = [ls EXCEPT ![found].value = item.value]
      BY <1>2, <2>3
    <3> HIDE DEF ls2
    <3>2. /\ DOMAIN ls2 = DOMAIN ls /\ \A k \in DOMAIN ls : k # found => ls2[k] = ls[k]
          /\ ls2[found].store = s /\ ls2[found].id = item.id /\ ls2[found].value = item.value
      BY <1>1, <1>4, <2>3, <3>1 DEF Listing
    <3>3. QED
      BY <1>4, <2>3, <3>2
  <2>4. QED
    BY <2>1, <2>2, <2>3
<1>6. HeldIn(New.listings, s, item, fresh)
  BY <1>5 DEF HeldIn
<1>7. ASSUME NEW other \in Item, other.id # item.id, HeldIn(ls, s, other, fresh)
      PROVE  HeldIn(New.listings, s, other, fresh)
  <2>1. PICK k \in DOMAIN ls : /\ ls[k].store = s /\ ls[k].id = other.id
                               /\ fresh => ls[k].value = other.value
    BY <1>7 DEF HeldIn
  <2>2. QED
    BY <1>5, <1>7, <2>1 DEF HeldIn
<1>8. QED
  BY <1>2, <1>6, <1>7 DEF ItemStored, ls

\* A turn of the loop stores the item, or counts a failure.
LEMMA UpsertedHolds ==
  ASSUME NEW T, TablesOK(T), NEW s \in Stores, NEW item \in Item, NEW fresh \in BOOLEAN
  PROVE  LET New == Upserted(T, s, item) IN
         New.failed = T.failed + 1 \/ ItemStored(T, s, item, New, fresh)
<1> DEFINE New == Upserted(T, s, item)
           found == FoundListing(T.listings, s, item)
           master == ProductOf(T.products, T.listings, s, item, found)
           seen == IF found = 0 THEN Refused ELSE T.listings[found].value
<1>1. CASE Skipped(T.listings, s, item)
  <2>1. New = [T EXCEPT !.failed = @ + 1]
    BY <1>1, UpsertedIs
  <2>2. New.failed = T.failed + 1
    BY <2>1 DEF TablesOK, Tables
  <2>3. QED
    BY <2>2
<1>2. CASE ~Skipped(T.listings, s, item)
  <2>1. /\ New = Stored(T, s, item, found, seen, master)
        /\ found \in 0 .. Len(T.listings) /\ master \in 0 .. Len(T.products)
        /\ item.value # Refused
    BY <1>2, UpsertedIs
  <2>2. found # 0 => /\ T.listings[found].store = s /\ T.listings[found].id = item.id
                     /\ fresh => T.listings[found].value = seen
    <3>1. found # 0 => Listed(T.listings, s, item.id) = {found}
      BY <1>2, FoundIn DEF TablesOK, Tables
    <3>2. found # 0 => found \in Listed(T.listings, s, item.id)
      BY <3>1
    <3>3. QED
      BY <3>2 DEF Listed
  <2> HIDE DEF New, found, seen, master
  <2>3. StoredEffect(T, s, item, found, seen, master, New)
    BY <2>1, StoredIs
  <2>4. ItemStored(T, s, item, New, fresh)
    BY <2>1, <2>2, <2>3, StoredHolds
  <2>5. QED
    BY <2>4 DEF New
<1>3. QED
  BY <1>1, <1>2

\* A transaction that counts no failure began with the first product of the feed, and holds
\* every one of them.
LEMMA OutcomeHolds ==
  ASSUME StoreInv, NEW r \in DOMAIN run, run[r].pc = "write", NEW fresh \in BOOLEAN,
         fresh /\ run[r].found # 0 => listings[run[r].found].value = run[r].seen,
         Outcome(r).failed = 0
  PROVE  \A n \in DOMAIN run[r].feed :
           HeldIn(Outcome(r).listings, run[r].store, run[r].feed[n], fresh)
<1> DEFINE q == run[r]  a == q.at  b == Len(q.feed)  s == q.store
<1>1. /\ a \in Nat \ {0} /\ b \in Nat /\ a <= b /\ s \in Stores
      /\ DOMAIN q.feed = 1 .. b
      /\ TablesOK(Before(q)) /\ q.feed[a] \in Item /\ q.feed[a].value # Refused
      /\ q.found \in 0 .. Len(listings) /\ q.master \in 0 .. Len(products)
      /\ StoredEffect(Before(q), s, q.feed[a], q.found, q.seen, q.master, FirstTables(q))
  BY FirstTurn
<1>2. PICK f : After(q, b, f) /\ Outcome(r) = f[b]
  BY <1>1, OutcomeIs
<1>3. /\ f[a] = FirstTables(q)
      /\ \A n \in a .. b : TablesOK(f[n])
      /\ \A n \in a + 1 .. b : f[n] = Upserted(f[n - 1], s, q.feed[n]) /\ q.feed[n] \in Item
  BY <1>2, OutcomeTurns DEF Turned
<1>4. /\ q.failed = a - 1
      /\ q.found # 0 => /\ listings[q.found].store = s /\ listings[q.found].id = q.feed[a].id
                        /\ fresh => listings[q.found].value = q.seen
      /\ \A m, n \in DOMAIN q.feed : q.feed[m].id = q.feed[n].id => m = n
      /\ \A m \in DOMAIN q.feed : q.feed[m] \in Item
  <2>1. RunOK(q, products, listings)
    BY DEF StoreInv
  <2>2. QED
    BY <2>1, RunKinds DEF RunOK, Upserting
<1> HIDE DEF q, a, b, s
<1>5. Before(q).listings = listings /\ Before(q).products = products
      /\ Before(q).failed = q.failed
  BY DEF Before
<1> DEFINE AllHeld(n) == \A m \in a .. n : HeldIn(f[n].listings, s, q.feed[m], fresh)
           Holds(n) == f[n].failed = 0 => q.failed = 0 /\ AllHeld(n)
           S == {n \in Nat : n <= b => Holds(n)}
<1>6. a \in S
  <2>1. ItemStored(Before(q), s, q.feed[a], FirstTables(q), fresh)
    <3>1. PICK T, item, New : T = Before(q) /\ item = q.feed[a] /\ New = FirstTables(q)
      OBVIOUS
    <3>2. PICK found, seen, master : found = q.found /\ seen = q.seen /\ master = q.master
      OBVIOUS
    <3>3. /\ TablesOK(T) /\ item \in Item /\ item.value # Refused
          /\ StoredEffect(T, s, item, found, seen, master, New)
      BY <1>1, <3>1, <3>2
    <3>4. found \in 0 .. Len(T.listings) /\ master \in 0 .. Len(T.products)
      BY <1>1, <1>5, <3>1, <3>2
    <3>5. found # 0 => /\ T.listings[found].store = s /\ T.listings[found].id = item.id
                       /\ fresh => T.listings[found].value = seen
      BY <1>4, <1>5, <3>1, <3>2
    <3>6. ItemStored(T, s, item, New, fresh)
      BY <1>1, <3>3, <3>4, <3>5, StoredHolds
    <3>7. QED
      BY <3>1, <3>6
  <2>2. f[a].failed = q.failed /\ HeldIn(f[a].listings, s, q.feed[a], fresh)
    BY <1>3, <1>5, <2>1 DEF ItemStored
  <2>3. \A m \in a .. a : m = a
    BY <1>1
  <2>4. Holds(a)
    BY <2>2, <2>3
  <2>5. QED
    BY <1>1, <2>4
<1>7. ASSUME NEW n \in Nat, a <= n, n < b, n \in S PROVE n + 1 \in S
  <2>1. n \in a .. b /\ n + 1 \in a + 1 .. b /\ (n + 1) - 1 = n /\ n <= b
        /\ n + 1 \in DOMAIN q.feed
    BY <1>1, <1>7
  <2>2. Holds(n)
    BY <1>7, <2>1
  <2>3. /\ TablesOK(f[n]) /\ q.feed[n + 1] \in Item
        /\ f[n + 1] = Upserted(f[(n + 1) - 1], s, q.feed[n + 1])
    BY <1>3, <2>1
  <2>4. f[n + 1] = Upserted(f[n], s, q.feed[n + 1])
    BY <2>1, <2>3
  <2> HIDE DEF S, Holds
  <2>5. \/ f[n + 1].failed = f[n].failed + 1
        \/ ItemStored(f[n], s, q.feed[n + 1], f[n + 1], fresh)
    BY <1>1, <2>3, <2>4, UpsertedHolds
  <2>6. Holds(n + 1)
    <3>1. CASE f[n + 1].failed = f[n].failed + 1
      <4>1. f[n].failed \in Nat
        BY <2>3 DEF TablesOK, Tables
      <4>2. f[n + 1].failed # 0
        BY <3>1, <4>1
      <4>3. QED
        BY <4>2 DEF Holds
    <3>2. CASE ItemStored(f[n], s, q.feed[n + 1], f[n + 1], fresh)
      <4> SUFFICES ASSUME f[n + 1].failed = 0 PROVE q.failed = 0 /\ AllHeld(n + 1)
        BY DEF Holds
      <4>1. q.failed = 0 /\ AllHeld(n)
        BY <2>2, <3>2 DEF Holds, ItemStored
      <4>2. ASSUME NEW m \in a .. n + 1
            PROVE  HeldIn(f[n + 1].listings, s, q.feed[m], fresh)
        <5>1. CASE m = n + 1
          BY <3>2, <5>1 DEF ItemStored
        <5>2. CASE m # n + 1
          <6>1. m \in a .. n /\ m \in DOMAIN q.feed
            BY <1>1, <2>1, <5>2
          <6>2. q.feed[m].id # q.feed[n + 1].id /\ q.feed[m] \in Item
            BY <1>4, <2>1, <5>2, <6>1
          <6>3. HeldIn(f[n].listings, s, q.feed[m], fresh)
            BY <4>1, <6>1
          <6>4. QED
            BY <3>2, <6>2, <6>3 DEF ItemStored
        <5>3. QED
          BY <5>1, <5>2
      <4>3. QED
        BY <4>1, <4>2
    <3>3. QED
      BY <2>5, <3>1, <3>2
  <2>7. QED
    BY <2>6 DEF S
<1>8. b \in S
  <2> HIDE DEF S
  <2>1. b \in a .. b
    BY <1>1
  <2>2. QED
    BY <1>1, <1>6, <1>7, <2>1, TurnByTurn
<1>9. q.failed = 0 /\ AllHeld(b)
  BY <1>1, <1>2, <1>8
<1>10. DOMAIN q.feed = a .. b
  BY <1>1, <1>4, <1>9
<1>11. QED
  BY <1>2, <1>9, <1>10 DEF q, b, s

\* What the only run has seen of the listing in hand is what is there.
SeenInv ==
  \A r \in DOMAIN run : DOMAIN run = {r} /\ run[r].pc \in Upserting /\ run[r].found # 0 =>
                          listings[run[r].found].value = run[r].seen

LEMMA StatusSuccess ==
  ASSUME NEW failed \in Nat, NEW all, Status(failed, all) = "success"
  PROVE  failed = 0
<1>1. CASE failed > 0 /\ failed = all
  BY <1>1 DEF Status
<1>2. CASE failed > 0 /\ failed # all
  BY <1>2 DEF Status
<1>3. QED
  BY <1>1, <1>2

LEMMA SeenNext == StoreInv /\ SeenInv /\ [Next]_vars => SeenInv'
<1> SUFFICES ASSUME StoreInv, SeenInv, [Next]_vars PROVE SeenInv'
  OBVIOUS
<1>1. CASE UNCHANGED <<listings, run>>
  BY <1>1 DEF SeenInv
<1>2. ASSUME NEW r \in DOMAIN run, Steps(r)
      PROVE  SeenInv'
  <2>1. DOMAIN run' = DOMAIN run
    BY <1>2, StepsOfOthers
  <2> SUFFICES ASSUME DOMAIN run = {r}, run'[r].pc \in Upserting, run'[r].found # 0
               PROVE  listings'[run'[r].found].value = run'[r].seen
    BY <2>1 DEF SeenInv
  <2>2. CASE LookUp(r)
    <3> DEFINE k == FoundListing(listings, run[r].store, run[r].feed[run[r].at])
    <3>1. run'[r].found = k /\ run'[r].seen = IF k = 0 THEN Refused ELSE listings[k].value
      BY <2>2, LookUpFinds
    <3> HIDE DEF k
    <3>2. QED
      BY <2>2, <3>1 DEF LookUp
  <2>3. CASE FindMaster(r)
    BY <2>3, FindMasterKeeps DEF FindMaster, SeenInv
  <2>4. QED
    BY <1>2, <2>2, <2>3, StepsLeave
<1>3. QED
  BY <1>1, <1>2 DEF Next, Steps, vars, CreateProduct, DeleteProduct, Quiet

\* A step that turns a run under way into a success is its last one.
LEMMA SuccessStep ==
  ASSUME StoreInv, SeenInv, [Next]_vars, NEW r \in DOMAIN run, run[r].pc # "idle",
         run'[r].log = "success"
  PROVE  \A n \in DOMAIN run[r].feed :
           HeldIn(listings', run[r].store, run[r].feed[n], DOMAIN run = {r})
<1>1. /\ run[r].log = "running" /\ run[r] \in Run /\ RunOK(run[r], products, listings)
      /\ run = [j \in DOMAIN run |-> run[j]]
  BY RunKinds DEF StoreInv, RunOK
<1>2. run'[r] # run[r]
  BY <1>1
<1>3. Steps(r)
  <2>1. ASSUME NEW o \in DOMAIN run, Steps(o) PROVE o = r
    BY <1>2, <2>1, StepsOfOthers
  <2>2. run' # run
    BY <1>2
  <2>3. \E o \in DOMAIN run : Steps(o)
    BY <2>2 DEF Next, Steps, vars, CreateProduct, DeleteProduct, Quiet
  <2>4. QED
    BY <2>1, <2>3
<1>4. run[r] \in Active
  BY <1>1, ActiveRuns
<1>5. Write(r) \/ WriteNothing(r)
  <2>1. CASE Skip(r) \/ FindMaster(r) \/ \E feed \in Feeds : Fetch(r, feed)
    <3>1. CASE Skip(r)
      <4>1. run' = [run EXCEPT ![r].at = @ + 1, ![r].failed = @ + 1]
        BY <3>1 DEF Skip
      <4>2. QED
        BY <1>1, <1>4, <4>1 DEF Active
    <3>2. CASE FindMaster(r)
      BY <1>1, <3>2, FindMasterKeeps
    <3>3. ASSUME NEW feed \in Feeds, Fetch(r, feed) PROVE FALSE
      <4>1. run' = [run EXCEPT ![r].pc = "look", ![r].feed = feed]
        BY <3>3 DEF Fetch
      <4>2. QED
        BY <1>1, <1>4, <4>1 DEF Active
    <3>4. QED
      BY <2>1, <3>1, <3>2, <3>3
  <2>2. CASE LookUp(r)
    BY <1>1, <2>2, LookUpFinds
  <2>3. CASE \E s \in Stores : Begin(r, s)
    BY <2>3 DEF Begin
  <2>4. CASE FetchFails(r) \/ Clash(r) \/ Abandon(r)
    BY <1>1, <2>4 DEF FetchFails, Clash, Abandon, End, Idle
  <2>5. QED
    BY <1>3, <2>1, <2>2, <2>3, <2>4 DEF Steps
<1>6. CASE WriteNothing(r)
  <2>1. Status(run[r].failed, Len(run[r].feed)) = "success" /\ run[r].at > Len(run[r].feed)
    BY <1>1, <1>6 DEF WriteNothing, End, Idle
  <2>2. run[r].failed \in Nat /\ run[r].failed = run[r].at - 1
    BY <1>1, <1>4 DEF RunOK, Active
  <2>3. run[r].failed = 0
    BY <2>1, <2>2, StatusSuccess
  <2>4. run[r].feed \in Seq(Item)
    BY <1>1, RunKinds
  <2>5. DOMAIN run[r].feed = {}
    <3>1. Len(run[r].feed) \in Nat /\ DOMAIN run[r].feed = 1 .. Len(run[r].feed)
      BY <2>4
    <3>2. run[r].at = 1
      BY <2>2, <2>3, <1>4 DEF Active
    <3>3. QED
      BY <2>1, <3>1, <3>2
  <2>6. QED
    BY <2>5
<1>7. CASE Write(r)
  <2>1. /\ run[r].pc = "write" /\ listings' = Outcome(r).listings
        /\ Status(Outcome(r).failed, Len(run[r].feed)) = "success"
    BY <1>1, <1>7 DEF Write, End, Idle
  <2>2. Outcome(r).failed \in Nat
    BY <2>1, OutcomeKeeps DEF Turned, TablesOK, Tables
  <2>3. Outcome(r).failed = 0
    BY <2>1, <2>2, StatusSuccess
  <2> DEFINE fresh == DOMAIN run = {r}
  <2>4. /\ fresh \in BOOLEAN
        /\ fresh /\ run[r].found # 0 => listings[run[r].found].value = run[r].seen
    BY <2>1 DEF SeenInv, Upserting
  <2> HIDE DEF fresh
  <2>5. \A n \in DOMAIN run[r].feed :
          HeldIn(Outcome(r).listings, run[r].store, run[r].feed[n], fresh)
    BY <2>1, <2>3, <2>4, OutcomeHolds
  <2>6. QED
    BY <2>1, <2>5 DEF fresh
<1>8. QED
  BY <1>5, <1>6, <1>7

\* A run that reports success holds every product the platform returned, with its values
\* if no other run overlapped (status of sync_products_for_account, at its one commit).
THEOREM SuccessHolds == Spec => SuccessHoldsAll
<1>1. Init => SeenInv
  BY DEF Init, SeenInv, Idle, Upserting
<1>2. StoreInv /\ SeenInv /\ [Next]_vars =>
        [\A r \in DOMAIN run : (run[r].pc # "idle" /\ run'[r].log = "success") =>
           \A n \in DOMAIN run[r].feed : \E k \in DOMAIN listings' :
             /\ listings'[k].store = run[r].store /\ listings'[k].id = run[r].feed[n].id
             /\ DOMAIN run = {r} => listings'[k].value = run[r].feed[n].value]_vars
  BY SuccessStep DEF HeldIn
<1>3. QED
  BY <1>1, <1>2, StoreInit, StoreNext, SeenNext, PTL DEF Spec, SuccessHoldsAll

-----------------------------------------------------------------------------
(* Why an INSERT into products is refused.                                 *)

\* No seller has given a product a SKU of the form the sync generates.
SkusApart == \A z \in Stores, i \in Ids : PlatformSku(z, i) \notin Skus

\* A product under a platform SKU has a listing of that platform product.
PlatformListed(ps, ls) ==
  \A p \in DOMAIN ps : \A z \in Stores, i \in Ids :
    ps[p].sku = PlatformSku(z, i) => Listed(ls, z, i) # {}

\* What is inserted when an item is stored.
Inserts(T, New, s, item) ==
  /\ \A p \in DOMAIN New.products :
       \/ p \in DOMAIN T.products
       \/ New.products[p].user = Owner[s] /\ New.products[p].sku = SkuOf(s, item)
  /\ \A k \in DOMAIN New.listings : k \in DOMAIN T.listings \/ New.listings[k].id = item.id

LEMMA StoredPlatform ==
  ASSUME SkusApart,
         NEW T, TablesOK(T), NEW s \in Stores, NEW item \in Item, item.value # Refused,
         NEW found \in 0 .. Len(T.listings), NEW seen, NEW master \in 0 .. Len(T.products),
         NEW New, StoredEffect(T, s, item, found, seen, master, New),
         found # 0 => T.listings[found].store = s /\ T.listings[found].id = item.id,
         \A p \in DOMAIN T.products : New.products[p] = T.products[p],
         PlatformListed(T.products, T.listings)
  PROVE  /\ PlatformListed(New.products, New.listings)
         /\ Inserts(T, New, s, item)
<1> DEFINE row == [user |-> Owner[s], sku |-> SkuOf(s, item), live |-> TRUE]
<1>1. /\ T.products \in Seq(Product) /\ Len(T.products) \in Nat
      /\ DOMAIN T.products = 1 .. Len(T.products)
      /\ T.listings \in Seq(Listing) /\ DOMAIN T.listings = 1 .. Len(T.listings)
  <2>1. T.products \in Seq(Product) /\ T.listings \in Seq(Listing)
    BY DEF TablesOK, Tables
  <2>2. QED
    BY <2>1
<1>2. New.products = IF master = 0 THEN Append(T.products, row) ELSE T.products
  BY DEF StoredEffect
<1>3. row.user = Owner[s] /\ row.sku = SkuOf(s, item)
  OBVIOUS
<1> HIDE DEF row
<1>4. \A p \in DOMAIN New.products :
        \/ p \in DOMAIN T.products
        \/ New.products[p].user = Owner[s] /\ New.products[p].sku = SkuOf(s, item)
  <2>1. CASE master = 0
    <3>1. New.products = Append(T.products, row)
      BY <1>2, <2>1
    <3>2. \A p \in DOMAIN New.products : p \in DOMAIN T.products \/ New.products[p] = row
      BY <1>1, <3>1
    <3>3. QED
      BY <1>3, <3>2
  <2>2. CASE master # 0
    BY <1>2, <2>2
  <2>3. QED
    BY <2>1, <2>2
<1>5. \A z, i : Listed(New.listings, z, i) =
                  Listed(T.listings, z, i) \cup AddedCopy(T.listings, s, item, found, z, i)
  <2>1. CopiesStored(T.listings, s, item, found, New.listings)
    BY StoredCopies
  <2>2. QED
    BY <2>1 DEF CopiesStored
\* The item stored has a listing now.
<1>6. Listed(New.listings, s, item.id) # {}
  <2>1. CASE found = 0
    BY <1>5, <2>1 DEF AddedCopy
  <2>2. CASE found # 0
    <3>1. found \in Listed(T.listings, s, item.id)
      BY <1>1, <2>2 DEF Listed
    <3>2. QED
      BY <1>5, <3>1
  <2>3. QED
    BY <2>1, <2>2
<1>7. ASSUME NEW p \in DOMAIN New.products, NEW z \in Stores, NEW i \in Ids,
             New.products[p].sku = PlatformSku(z, i)
      PROVE  Listed(New.listings, z, i) # {}
  <2>1. CASE p \in DOMAIN T.products
    <3>1. T.products[p].sku = PlatformSku(z, i)
      BY <1>7, <2>1
    <3>2. Listed(T.listings, z, i) # {}
      BY <2>1, <3>1 DEF PlatformListed
    <3>3. QED
      BY <1>5, <3>2
  <2>2. CASE p \notin DOMAIN T.products
    <3>1. SkuOf(s, item) = PlatformSku(z, i)
      BY <1>4, <1>7, <2>2
    <3>2. item.sku = NoSku
      <4>1. item.sku \in Skus \cup {NoSku}
        BY SkuType
      <4>2. QED
        BY <3>1, <4>1 DEF SkuOf, SkusApart
    <3>3. z = s /\ i = item.id
      BY <3>1, <3>2 DEF SkuOf, PlatformSku
    <3>4. QED
      BY <1>6, <3>3
  <2>3. QED
    BY <2>1, <2>2
<1>8. ASSUME NEW k \in DOMAIN New.listings, k \notin DOMAIN T.listings
      PROVE  New.listings[k].id = item.id
  <2> DEFINE z == New.listings[k].store  i == New.listings[k].id
  <2>1. k \in Listed(New.listings, z, i) /\ k \notin Listed(T.listings, z, i)
    BY <1>8 DEF Listed
  <2> HIDE DEF z, i
  <2>2. k \in AddedCopy(T.listings, s, item, found, z, i)
    BY <1>5, <2>1
  <2>3. QED
    BY <2>2 DEF AddedCopy, i
<1>9. QED
  BY <1>4, <1>7, <1>8 DEF PlatformListed, Inserts

\* A turn of the loop is refused only for a product of another user, or of a listing whose
\* product is gone.
TurnRefused(T, s, item) ==
  \E p \in DOMAIN T.products :
    /\ T.products[p].live /\ T.products[p].sku = SkuOf(s, item)
    /\ \/ T.products[p].user # Owner[s]
       \/ /\ item.sku = NoSku
          /\ \E k \in Listed(T.listings, s, item.id) :
               ~T.products[T.listings[k].product].live

LEMMA UpsertedPlatform ==
  ASSUME SkusApart, NEW T, TablesOK(T), NEW s \in Stores, NEW item \in Item,
         PlatformListed(T.products, T.listings)
  PROVE  LET New == Upserted(T, s, item) IN
         /\ PlatformListed(New.products, New.listings)
         /\ Inserts(T, New, s, item)
         /\ New.clash => T.clash \/ TurnRefused(T, s, item)
<1> DEFINE New == Upserted(T, s, item)
           found == FoundListing(T.listings, s, item)
           master == ProductOf(T.products, T.listings, s, item, found)
           seen == IF found = 0 THEN Refused ELSE T.listings[found].value
<1>1. CASE Skipped(T.listings, s, item)
  <2>1. New = [T EXCEPT !.failed = @ + 1]
    BY <1>1, UpsertedIs
  <2>2. New.products = T.products /\ New.listings = T.listings /\ New.clash = T.clash
    BY <2>1 DEF TablesOK, Tables
  <2>3. QED
    BY <2>2 DEF Inserts
<1>2. CASE ~Skipped(T.listings, s, item)
  <2>1. /\ New = Stored(T, s, item, found, seen, master)
        /\ found \in 0 .. Len(T.listings) /\ master \in 0 .. Len(T.products)
        /\ item.value # Refused
        /\ \A p \in DOMAIN T.products : New.products[p] = T.products[p]
    BY <1>2, UpsertedIs DEF Turned
  <2>2. /\ T.products \in Seq(Product) /\ T.listings \in Seq(Listing)
        /\ \A k \in DOMAIN T.listings : T.listings[k].product \in DOMAIN T.products
    BY DEF TablesOK, Tables
  <2>3. /\ found # 0 => found \in Listed(T.listings, s, item.id)
        /\ found = 0 => Listed(T.listings, s, item.id) = {}
    BY <1>2, <2>2, FoundIn
  <2>4. ProductFound(T.products, T.listings, s, item, found, master)
    BY <2>1, <2>2, ProductOfType
  <2> HIDE DEF New, found, seen, master
  <2>5. StoredEffect(T, s, item, found, seen, master, New)
    BY <2>1, StoredIs
  <2>6. found # 0 => T.listings[found].store = s /\ T.listings[found].id = item.id
    BY <2>3 DEF Listed
  <2>7. /\ PlatformListed(New.products, New.listings)
        /\ Inserts(T, New, s, item)
    BY <2>1, <2>5, <2>6, StoredPlatform
  <2>8. ASSUME New.clash, ~T.clash PROVE TurnRefused(T, s, item)
    <3>1. master = 0 /\ Taken(T.products, SkuOf(s, item))
      BY <2>5, <2>8 DEF StoredEffect
    <3>2. PICK p \in DOMAIN T.products : T.products[p].live /\ T.products[p].sku = SkuOf(s, item)
      BY <3>1 DEF Taken
    <3>3. CASE item.sku # NoSku
      <4>1. T.products[p].user # Owner[s]
        BY <2>4, <3>1, <3>2, <3>3 DEF ProductFound, SkuOf
      <4>2. QED
        BY <3>2, <4>1 DEF TurnRefused
    <3>4. CASE item.sku = NoSku
      <4>1. T.products[p].sku = PlatformSku(s, item.id) /\ item.id \in Ids
        BY <3>2, <3>4, SkuType DEF SkuOf
      <4>2. Listed(T.listings, s, item.id) # {}
        BY <4>1 DEF PlatformListed
      <4>3. found # 0
        BY <2>3, <4>2
      <4>4. ~T.products[T.listings[found].product].live
        BY <2>4, <3>1, <4>3 DEF ProductFound
      <4>5. QED
        BY <2>3, <3>2, <3>4, <4>3, <4>4 DEF TurnRefused
    <3>5. QED
      BY <3>3, <3>4
  <2>9. QED
    BY <2>7, <2>8 DEF New
<1>3. QED
  BY <1>1, <1>2

\* What an INSERT that is refused says of the tables as they are committed.
Excused(q, n, p) ==
  LET item == q.feed[n] IN
  /\ products[p].live /\ products[p].sku = SkuOf(q.store, item)
  /\ \/ products[p].user # Owner[q.store]
     \/ item.sku = NoSku /\ \E k \in Copies(q.store, item.id) :
                              ~products[listings[k].product].live
     \/ n = q.at /\ p > q.known

\* Of a product that carries no SKU, a product under its platform SKU that was there at
\* the look-up had a listing.
LookedUp(q, ps) ==
  q.pc \in Upserting =>
    \A p \in DOMAIN ps :
      p <= q.known /\ ps[p].sku = PlatformSku(q.store, q.feed[q.at].id) => q.found # 0

PlatformInv ==
  /\ PlatformListed(products, listings)
  /\ \A r \in DOMAIN run : LookedUp(run[r], products)

\* The first product of the transaction, which was looked up before the lock.
LEMMA FirstRefused ==
  ASSUME StoreInv, PlatformInv, NEW r \in DOMAIN run, run[r].pc = "write",
         FirstTables(run[r]).clash
  PROVE  \E p \in DOMAIN products : Excused(run[r], run[r].at, p)
<1> DEFINE q == run[r]  item == q.feed[q.at]
<1>1. /\ item \in Item /\ q.found \in 0 .. Len(listings)
      /\ StoredEffect(Before(q), q.store, item, q.found, q.seen, q.master, FirstTables(q))
      /\ q.store \in Stores
  BY FirstTurn
<1>2. RunOK(q, products, listings) /\ LookedUp(q, products) /\ q.pc = "write"
  BY DEF StoreInv, PlatformInv
<1> HIDE DEF q
<1>3. Before(q).products = products /\ ~Before(q).clash
  BY DEF Before
<1>4. q.master = 0 /\ Taken(products, SkuOf(q.store, item))
  BY <1>1, <1>3 DEF StoredEffect, q
<1>5. PICK p \in DOMAIN products : products[p].live /\ products[p].sku = SkuOf(q.store, item)
  BY <1>4 DEF Taken
<1>6. q.known \in Nat /\ p \in Nat
  BY <1>2, InvType DEF RunOK
<1>7. CASE p > q.known
  BY <1>5, <1>7 DEF Excused, q
<1>8. CASE p <= q.known /\ item.sku # NoSku
  <2>1. products[p].sku = item.sku
    BY <1>5, <1>8 DEF SkuOf
  <2>2. products[p].user # Owner[q.store]
    BY <1>2, <1>4, <1>5, <1>8, <2>1 DEF RunOK
  <2>3. QED
    BY <1>5, <2>2 DEF Excused, q
<1>9. CASE p <= q.known /\ item.sku = NoSku
  <2>1. products[p].sku = PlatformSku(q.store, item.id)
    BY <1>5, <1>9 DEF SkuOf
  <2>2. q.found # 0
    BY <1>2, <1>9, <2>1 DEF LookedUp, Upserting
  <2>3. q.found \in Copies(q.store, item.id) /\ ~products[listings[q.found].product].live
    <3>1. /\ listings[q.found].store = q.store /\ listings[q.found].id = item.id
          /\ ~products[listings[q.found].product].live
      BY <1>2, <1>4, <2>2 DEF RunOK, Upserting
    <3>2. q.found \in DOMAIN listings
      BY <1>1, <2>2, InvType
    <3>3. QED
      BY <3>1, <3>2 DEF Copies
  <2>4. QED
    BY <1>5, <1>9, <2>3 DEF Excused, q
<1>10. QED
  BY <1>6, <1>7, <1>8, <1>9

\* A later product of the transaction, in whose tables T the rows added are of earlier
\* products of the feed.
LEMMA LaterRefused ==
  ASSUME SkusApart, StoreInv, NEW r \in DOMAIN run, run[r].pc = "write",
         NEW T, Turned(Before(run[r]), T),
         NEW n \in DOMAIN run[r].feed,
         \A p \in DOMAIN T.products :
           \/ p \in DOMAIN products
           \/ /\ T.products[p].user = Owner[run[r].store]
              /\ \E m \in DOMAIN run[r].feed : m # n /\ T.products[p].sku
                                                   = SkuOf(run[r].store, run[r].feed[m]),
         \A k \in DOMAIN T.listings :
           \/ k \in DOMAIN listings
           \/ \E m \in DOMAIN run[r].feed : m # n /\ T.listings[k].id = run[r].feed[m].id,
         TurnRefused(T, run[r].store, run[r].feed[n])
  PROVE  \E p \in DOMAIN products : Excused(run[r], n, p)
<1> DEFINE q == run[r]  s == q.store  item == q.feed[n]
<1>1. /\ q \in Run /\ q.pc # "idle" /\ s \in Stores
      /\ \A m \in DOMAIN q.feed : q.feed[m] \in Item
      /\ \A m \in DOMAIN q.feed : m # n => q.feed[m].id # item.id
  BY RunKinds DEF StoreInv, RunOK
<1>2. PICK p \in DOMAIN T.products :
        /\ T.products[p].live /\ T.products[p].sku = SkuOf(s, item)
        /\ \/ T.products[p].user # Owner[s]
           \/ /\ item.sku = NoSku
              /\ \E k \in Listed(T.listings, s, item.id) :
                   ~T.products[T.listings[k].product].live
  BY DEF TurnRefused
<1>3. /\ \A o \in DOMAIN products : T.products[o] = products[o]
      /\ \A k \in DOMAIN listings : /\ T.listings[k].store = listings[k].store
                                    /\ T.listings[k].id = listings[k].id
                                    /\ T.listings[k].product = listings[k].product
  BY DEF Turned, Before, Grown
<1>4. ASSUME p \notin DOMAIN products PROVE FALSE
  <2>1. T.products[p].user = Owner[s] /\ item.sku = NoSku
    BY <1>2, <1>4
  <2>2. PICK m \in DOMAIN q.feed : m # n /\ SkuOf(s, q.feed[m]) = PlatformSku(s, item.id)
    BY <1>2, <1>4, <2>1 DEF SkuOf
  <2>3. q.feed[m].sku \in Skus \cup {NoSku} /\ item.id \in Ids
    BY <1>1, SkuType
  <2>4. q.feed[m].id = item.id
    BY <1>1, <2>2, <2>3 DEF SkuOf, PlatformSku, SkusApart
  <2>5. QED
    BY <1>1, <2>2, <2>4
<1>5. p \in DOMAIN products /\ products[p].live /\ products[p].sku = SkuOf(s, item)
  BY <1>2, <1>3, <1>4
<1>6. CASE T.products[p].user # Owner[s]
  <2>1. products[p].user # Owner[s]
    BY <1>3, <1>5, <1>6
  <2>2. QED
    BY <1>5, <2>1 DEF Excused
<1>7. CASE T.products[p].user = Owner[s]
  <2>1. PICK k \in Listed(T.listings, s, item.id) : ~T.products[T.listings[k].product].live
    BY <1>2, <1>7
  <2>2. k \in DOMAIN T.listings /\ T.listings[k].store = s /\ T.listings[k].id = item.id
    BY <2>1 DEF Listed
  <2>3. k \in DOMAIN listings
    BY <1>1, <2>2
  <2>4. k \in Copies(s, item.id)
    BY <1>3, <2>2, <2>3 DEF Copies
  <2>5. ~products[listings[k].product].live
    BY <1>3, <2>1, <2>3, InvType
  <2>6. QED
    BY <1>2, <1>5, <1>7, <2>4, <2>5 DEF Excused
<1>8. QED
  BY <1>6, <1>7

LEMMA OutcomeRefused ==
  ASSUME SkusApart, StoreInv, PlatformInv, NEW r \in DOMAIN run, run[r].pc = "write"
  PROVE  /\ PlatformListed(Outcome(r).products, Outcome(r).listings)
         /\ Outcome(r).clash =>
              \E n \in DOMAIN run[r].feed, p \in DOMAIN products : Excused(run[r], n, p)
<1> DEFINE q == run[r]  a == q.at  b == Len(q.feed)  s == q.store
           excuse == \E n \in DOMAIN q.feed, p \in DOMAIN products : Excused(q, n, p)
<1>1. /\ a \in Nat \ {0} /\ b \in Nat /\ a <= b /\ s \in Stores
      /\ DOMAIN q.feed = 1 .. b /\ a \in DOMAIN q.feed
      /\ TablesOK(Before(q)) /\ q.feed[a] \in Item /\ q.feed[a].value # Refused
      /\ q.found \in 0 .. Len(listings) /\ q.master \in 0 .. Len(products)
      /\ StoredEffect(Before(q), s, q.feed[a], q.found, q.seen, q.master, FirstTables(q))
      /\ Turned(Before(q), FirstTables(q))
  BY FirstTurn
<1>2. PICK f : After(q, b, f) /\ Outcome(r) = f[b]
  BY <1>1, OutcomeIs
<1>3. /\ f[a] = FirstTables(q)
      /\ \A n \in a .. b : Turned(Before(q), f[n]) /\ TablesOK(f[n])
      /\ \A n \in a + 1 .. b : f[n] = Upserted(f[n - 1], s, q.feed[n]) /\ q.feed[n] \in Item
  BY <1>2, OutcomeTurns DEF Turned
<1>4. q.found # 0 => listings[q.found].store = s /\ listings[q.found].id = q.feed[a].id
  BY DEF StoreInv, RunOK, Upserting
<1>5. FirstTables(q).clash => excuse
  BY <1>1, FirstRefused
<1>6. ASSUME NEW T, Turned(Before(q), T), NEW n \in DOMAIN q.feed,
             \A p \in DOMAIN T.products :
               \/ p \in DOMAIN products
               \/ /\ T.products[p].user = Owner[s]
                  /\ \E m \in DOMAIN q.feed : m # n /\ T.products[p].sku = SkuOf(s, q.feed[m]),
             \A k \in DOMAIN T.listings :
               \/ k \in DOMAIN listings
               \/ \E m \in DOMAIN q.feed : m # n /\ T.listings[k].id = q.feed[m].id,
             TurnRefused(T, s, q.feed[n])
      PROVE  excuse
  BY <1>6, LaterRefused
<1> HIDE DEF q, a, b, s, excuse
<1>7. Before(q).listings = listings /\ Before(q).products = products
  BY DEF Before
<1> DEFINE OldProducts(n) ==
             \A p \in DOMAIN f[n].products :
               \/ p \in DOMAIN products
               \/ /\ f[n].products[p].user = Owner[s]
                  /\ \E m \in a .. n : f[n].products[p].sku = SkuOf(s, q.feed[m])
           OldListings(n) ==
             \A k \in DOMAIN f[n].listings :
               \/ k \in DOMAIN listings
               \/ \E m \in a .. n : f[n].listings[k].id = q.feed[m].id
           Holds(n) == /\ PlatformListed(f[n].products, f[n].listings)
                       /\ OldProducts(n) /\ OldListings(n)
                       /\ f[n].clash => excuse
           S == {n \in Nat : n <= b => Holds(n)}
<1>8. a \in S
  <2>1. /\ PlatformListed(FirstTables(q).products, FirstTables(q).listings)
        /\ Inserts(Before(q), FirstTables(q), s, q.feed[a])
    <3>1. /\ PlatformListed(Before(q).products, Before(q).listings)
          /\ \A p \in DOMAIN Before(q).products : FirstTables(q).products[p] = Before(q).products[p]
          /\ q.found \in 0 .. Len(Before(q).listings) /\ q.master \in 0 .. Len(Before(q).products)
          /\ q.found # 0 => /\ Before(q).listings[q.found].store = s
                            /\ Before(q).listings[q.found].id = q.feed[a].id
      BY <1>1, <1>4, <1>7 DEF PlatformInv, Turned
    <3>2. QED
      BY <1>1, <3>1, StoredPlatform
  <2>2. a \in a .. a
    BY <1>1
  <2>3. OldProducts(a) /\ OldListings(a)
    BY <1>3, <1>7, <2>1, <2>2 DEF Inserts
  <2>4. Holds(a)
    BY <1>3, <1>5, <2>1, <2>3
  <2>5. QED
    BY <1>1, <2>4
<1>9. ASSUME NEW n \in Nat, a <= n, n < b, n \in S PROVE n + 1 \in S
  <2>1. /\ n \in a .. b /\ n + 1 \in a + 1 .. b /\ (n + 1) - 1 = n /\ n <= b
        /\ n + 1 \in DOMAIN q.feed /\ n + 1 \in a .. n + 1
        /\ \A m \in a .. n : m \in DOMAIN q.feed /\ m # n + 1 /\ m \in a .. n + 1
    BY <1>1, <1>9
  <2>2. Holds(n)
    BY <1>9, <2>1
  <2>3. /\ TablesOK(f[n]) /\ Turned(Before(q), f[n]) /\ q.feed[n + 1] \in Item
        /\ f[n + 1] = Upserted(f[(n + 1) - 1], s, q.feed[n + 1])
    BY <1>3, <2>1
  <2>4. f[n + 1] = Upserted(f[n], s, q.feed[n + 1])
    BY <2>1, <2>3
  <2>5. PlatformListed(f[n].products, f[n].listings) /\ OldProducts(n) /\ OldListings(n)
        /\ (f[n].clash => excuse)
    BY <2>2
  <2> HIDE DEF S, Holds
  <2>6. /\ PlatformListed(f[n + 1].products, f[n + 1].listings)
        /\ Inserts(f[n], f[n + 1], s, q.feed[n + 1])
        /\ f[n + 1].clash => f[n].clash \/ TurnRefused(f[n], s, q.feed[n + 1])
    BY <1>1, <2>3, <2>4, <2>5, UpsertedPlatform
  <2>7. /\ \A p \in DOMAIN f[n].products : f[n + 1].products[p] = f[n].products[p]
        /\ \A k \in DOMAIN f[n].listings : f[n + 1].listings[k].id = f[n].listings[k].id
    <3>1. Turned(f[n], Upserted(f[n], s, q.feed[n + 1]))
      BY <1>1, <2>3, UpsertedIs
    <3>2. QED
      BY <2>4, <3>1 DEF Turned, Grown
  <2>8. OldProducts(n + 1)
    BY <2>1, <2>5, <2>6, <2>7 DEF Inserts
  <2>9. OldListings(n + 1)
    BY <2>1, <2>5, <2>6, <2>7 DEF Inserts
  <2>10. TurnRefused(f[n], s, q.feed[n + 1]) => excuse
    <3>1. /\ \A p \in DOMAIN f[n].products :
               \/ p \in DOMAIN products
               \/ /\ f[n].products[p].user = Owner[s]
                  /\ \E m \in DOMAIN q.feed :
                       m # n + 1 /\ f[n].products[p].sku = SkuOf(s, q.feed[m])
          /\ \A k \in DOMAIN f[n].listings :
               \/ k \in DOMAIN listings
               \/ \E m \in DOMAIN q.feed : m # n + 1 /\ f[n].listings[k].id = q.feed[m].id
      BY <2>1, <2>5
    <3>2. QED
      BY <1>6, <2>1, <2>3, <3>1
  <2>11. Holds(n + 1)
    BY <2>5, <2>6, <2>8, <2>9, <2>10 DEF Holds
  <2>12. QED
    BY <2>11 DEF S
<1>10. b \in S
  <2> HIDE DEF S
  <2>1. b \in a .. b
    BY <1>1
  <2>2. QED
    BY <1>1, <1>8, <1>9, <2>1, TurnByTurn
<1>11. Holds(b)
  BY <1>1, <1>10
<1>12. QED
  BY <1>2, <1>11 DEF q, excuse

LEMMA PlatformNext == SkusApart /\ StoreInv /\ PlatformInv /\ [Next]_vars => PlatformInv'
<1> SUFFICES ASSUME SkusApart, StoreInv, PlatformInv, [Next]_vars PROVE PlatformInv'
  OBVIOUS
\* What was looked up of the products there were is not changed by later ones.
<1>1. ASSUME NEW r \in DOMAIN run, Grown(products, listings, products', listings')
      PROVE  LookedUp(run[r], products')
  <2>1. RunOK(run[r], products, listings) /\ LookedUp(run[r], products)
    BY DEF StoreInv, PlatformInv
  <2>2. StoreInv'
    BY StoreNext
  <2>3. products' \in Seq(Product)
    BY <2>2 DEF StoreInv, TablesOK, Tables
  <2> SUFFICES ASSUME run[r].pc \in Upserting, NEW p \in DOMAIN products', p <= run[r].known
               PROVE  p \in DOMAIN products /\ products'[p].sku = products[p].sku
    BY <2>1 DEF LookedUp
  <2>4. run[r].known \in 0 .. Len(products)
    BY <2>1 DEF RunOK, Upserting
  <2>5. p \in DOMAIN products
    BY <2>3, <2>4, InvType
  <2>6. QED
    BY <1>1, <2>5 DEF Grown
<1>2. Grown(products, listings, products, listings)
  BY InvType DEF Grown
<1>3. CASE UNCHANGED <<products, listings, run>>
  BY <1>3 DEF PlatformInv
<1>4. ASSUME NEW u \in Users, NEW sku \in Skus, CreateProduct(u, sku) PROVE PlatformInv'
  <2> DEFINE row == [user |-> u, sku |-> sku, live |-> TRUE]
  <2>1. products' = Append(products, row) /\ row.sku = sku /\ UNCHANGED <<listings, run>>
    BY <1>4 DEF CreateProduct
  <2> HIDE DEF row
  <2>2. /\ DOMAIN products' = 1 .. Len(products) + 1 /\ Len(products') = Len(products) + 1
        /\ \A p \in DOMAIN products : products'[p] = products[p]
        /\ \A p \in DOMAIN products' : p \in DOMAIN products \/ products'[p] = row
    BY <2>1, InvType
  <2>3. Grown(products, listings, products', listings')
    BY <2>1, <2>2, InvType DEF Grown
  <2>4. PlatformListed(products', listings')
    BY <2>1, <2>2 DEF PlatformInv, PlatformListed, SkusApart
  <2>5. QED
    BY <1>1, <2>1, <2>3, <2>4 DEF PlatformInv
<1>5. ASSUME NEW d \in DOMAIN products, DeleteProduct(d) PROVE PlatformInv'
  <2> DEFINE row == [products[d] EXCEPT !.live = FALSE]
  <2>1. products' = [products EXCEPT ![d] = row] /\ UNCHANGED <<listings, run>>
    BY <1>5 DEF DeleteProduct
  <2>2. products[d] \in Product
    BY InvType
  <2>3. row.sku = products[d].sku /\ row.user = products[d].user /\ ~row.live
    BY <2>2 DEF Product
  <2> HIDE DEF row
  <2>4. /\ DOMAIN products' = DOMAIN products /\ Len(products') = Len(products)
        /\ products'[d] = row /\ \A p \in DOMAIN products : p # d => products'[p] = products[p]
    BY <2>1, InvType
  <2>5. Grown(products, listings, products', listings')
    BY <2>1, <2>3, <2>4, InvType DEF Grown
  <2>6. PlatformListed(products', listings')
    BY <2>1, <2>3, <2>4 DEF PlatformInv, PlatformListed
  <2>7. QED
    BY <1>1, <2>1, <2>5, <2>6 DEF PlatformInv
<1>6. ASSUME NEW r \in DOMAIN run, Steps(r) PROVE PlatformInv'
  <2>1. DOMAIN run' = DOMAIN run /\ \A j \in DOMAIN run : j # r => run'[j] = run[j]
    BY <1>6, StepsOfOthers
  <2>2. CASE Write(r)
    <3>1. run[r].pc = "write" /\ products' = Outcome(r).products /\ listings' = Outcome(r).listings
      BY <2>2 DEF Write
    <3>2. PlatformListed(products', listings')
      BY <3>1, OutcomeRefused
    <3>3. Grown(products, listings, products', listings')
      BY <3>1, OutcomeKeeps DEF Turned, Before
    <3>4. LookedUp(run'[r], products')
      <4>1. run'[r].pc = "idle"
        BY <2>2, WriteEnds
      <4>2. QED
        BY <4>1 DEF LookedUp, Upserting
    <3>5. QED
      BY <1>1, <2>1, <3>2, <3>3, <3>4 DEF PlatformInv
  <2>3. CASE ~Write(r)
    <3>1. UNCHANGED <<products, listings>>
      BY <1>6, <2>3 DEF Steps, Begin, Fetch, FetchFails, Skip, LookUp, FindMaster, Clash,
                        WriteNothing, Abandon
    <3>2. LookedUp(run'[r], products)
      <4>1. CASE LookUp(r)
        <5> DEFINE q == run[r]  k == FoundListing(listings, q.store, q.feed[q.at])
        <5>1. /\ run'[r].found = k /\ run'[r].store = q.store /\ run'[r].feed = q.feed
              /\ run'[r].at = q.at /\ q \in Active
              /\ k = 0 => Listed(listings, q.store, q.feed[q.at].id) = {}
          BY <4>1, LookUpFinds
        <5>2. q.at \in DOMAIN q.feed /\ q \in Run /\ q.pc # "idle"
          BY <4>1 DEF LookUp, Looking, StoreInv, RunOK
        <5>3. q.store \in Stores /\ q.feed[q.at].id \in Ids
          BY <5>2, RunKinds, SkuType
        <5> HIDE DEF k
        <5>4. QED
          BY <5>1, <5>3 DEF LookedUp, PlatformInv, PlatformListed
      <4>2. CASE FindMaster(r)
        BY <4>2, FindMasterKeeps DEF LookedUp, PlatformInv
      <4>3. QED
        BY <1>6, <4>1, <4>2, StepsLeave DEF LookedUp
    <3>3. QED
      BY <2>1, <3>1, <3>2 DEF PlatformInv
  <2>4. QED
    BY <2>2, <2>3
<1>7. QED
  BY <1>3, <1>4, <1>5, <1>6 DEF Next, Steps, vars, Quiet

\* If no seller uses a SKU of the form the sync generates, a run is refused only for a
\* product of another user, for the platform SKU of a listing whose product was deleted, or
\* for one taken since its look-up before the lock (products.sku is unique over all users).
THEOREM ClashOnlyByOthers ==
  ASSUME \A z \in Stores, i \in Ids : PlatformSku(z, i) \notin Skus
  PROVE  Spec => []ClashOnlyBy
<1>1. SkusApart
  BY DEF SkusApart
<1>2. Init => PlatformInv
  BY DEF Init, PlatformInv, PlatformListed, LookedUp, Idle, Upserting
<1>3. StoreInv /\ PlatformInv /\ [Next]_vars => PlatformInv'
  BY <1>1, PlatformNext
<1>4. StoreInv /\ PlatformInv => ClashOnlyBy
  BY <1>1, OutcomeRefused DEF ClashOnlyBy, Excused
<1>5. QED
  BY <1>2, <1>3, <1>4, StoreInit, StoreNext, PTL DEF Spec

===============================================================================
