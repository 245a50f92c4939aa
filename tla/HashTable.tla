----------------------------- MODULE HashTable -----------------------------
(* RTPHashTable of the jrtp library (rtphashtable.h): the code is that of    *)
(* RTPKeyHashTable once more, with elements that are their own keys.         *)
EXTENDS Naturals, FiniteSets

CONSTANTS Heap, Null, Keys, Buckets, Bucket     \* as in KeyHashTable

K == INSTANCE KeyHashTable

EmptyTable          == K!EmptyHashTable
HasElement(h, x)    == K!HasElement(h, x)
AddElement(h, x)    == K!AddElement(h, x, x)
DeleteElement(h, x) == K!DeleteElement(h, x)
Clear(h)            == K!Clear(h)

(* The elements, in the order of the list *)
Elements(h) ==
  LET at == K!Walk(h, h.first, "listnext")
      n  == Cardinality({i \in DOMAIN at : at[i] # Null})
  IN [i \in 1 .. n |-> h.elem[at[i - 1]].val]
=============================================================================
