---------------------------- MODULE MCProductSync ----------------------------
(* TLC instance of ProductSync: two stores of one user and one of another.  *)
EXTENDS ProductSync, TLC

CONSTANTS a, b, c, alice, bob, x, y, sku, v, w

Interchangeable == Permutations(Requests) \cup Permutations({a, b})

OwnerOf == a :> alice @@ b :> alice @@ c :> bob

It(id, s, value) == [id |-> id, sku |-> s, value |-> value]

\* A seller SKU, none, a change of value, a product that is refused, and two at a time.
SomeFeeds ==
  {<<>>, <<It(x, sku, v)>>, <<It(x, NoSku, w)>>,
   <<It(x, NoSku, w), It(y, sku, v)>>, <<It(x, sku, Refused), It(y, NoSku, v)>>}
==============================================================================
