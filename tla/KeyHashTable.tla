---------------------------- MODULE KeyHashTable ----------------------------
(* RTPKeyHashTable of the jrtp library (rtpkeyhashtable.h): elements that    *)
(* are in the chain of a bucket and in one list of all of them, doubly       *)
(* linked both ways. The operators are the methods, functions from a table to a table;   *)
(* where a method fails the table does not change. The cursor curhashelem is *)
(* a parameter here: the transmitter sets it in every call that uses it.     *)
EXTENDS Naturals, FiniteSets

CONSTANTS Heap,       \* addresses of elements
          Null,       \* no element
          Keys,
          Buckets,
          Bucket      \* GetIndex: [Keys -> Buckets]

ASSUME HashAssumption ==
  /\ Heap \subseteq Nat /\ IsFiniteSet(Heap)
  /\ Null \notin Heap
  /\ Bucket \in [Keys -> Buckets]

EmptyHashTable == [elem |-> [e \in {} |-> Null], table |-> [b \in Buckets |-> Null],
                   first |-> Null, last |-> Null]

(* The elements met from `start` on along one of the links: in how many      *)
(* steps, at most the number of elements there are.                          *)
Walk(h, start, link) ==
  LET at[n \in 0 .. Cardinality(DOMAIN h.elem)] ==
        IF n = 0 THEN start
        ELSE IF at[n - 1] = Null THEN Null ELSE h.elem[at[n - 1]][link]
  IN at

Reached(h, start, link) ==
  LET at == Walk(h, start, link) IN {at[n] : n \in DOMAIN at} \ {Null}

Chain(h, b) == Reached(h, h.table[b], "hashnext")
List(h)     == Reached(h, h.first, "listnext")

(* The element with a key, looked for in the chain of its bucket only *)
Find(h, k) ==
  LET found == {e \in Chain(h, Bucket[k]) : h.elem[e].key = k}
  IN IF found = {} THEN Null ELSE CHOOSE e \in found : TRUE

HasElement(h, k) == Find(h, k) # Null
Element(h, k)    == h.elem[Find(h, k)].val
-----------------------------------------------------------------------------
NewAddress(h) ==
  CHOOSE e \in Heap \ DOMAIN h.elem : \A f \in Heap \ DOMAIN h.elem : e <= f

(* At the head of its chain and at the end of the list *)
AddElement(h, k, v) ==
  LET e    == NewAddress(h)
      head == h.table[Bucket[k]]
      new  == [key |-> k, val |-> v, hashprev |-> Null, hashnext |-> head,
               listprev |-> h.last, listnext |-> Null]
      linked(f) == [h.elem[f] EXCEPT !.hashprev = IF f = head THEN e ELSE @,
                                     !.listnext = IF f = h.last THEN e ELSE @]
  IN IF HasElement(h, k) THEN h
     ELSE [h EXCEPT !.elem = [f \in DOMAIN h.elem \union {e} |->
                                IF f = e THEN new ELSE linked(f)],
                    !.table[Bucket[k]] = e,
                    !.first = IF @ = Null THEN e ELSE @,
                    !.last = e]

DeleteCurrentElement(h, e) ==
  LET c == h.elem[e]
      linked(f) ==
        [h.elem[f] EXCEPT
           !.hashnext = IF f = c.hashprev THEN c.hashnext ELSE @,
           !.hashprev = IF f = c.hashnext THEN c.hashprev ELSE @,
           !.listnext = IF f = c.listprev THEN c.listnext ELSE @,
           !.listprev = IF f = c.listnext THEN c.listprev ELSE @]
  IN [h EXCEPT !.elem = [f \in DOMAIN h.elem \ {e} |-> linked(f)],
               !.table[Bucket[c.key]] = IF c.hashprev = Null THEN c.hashnext ELSE @,
               !.first = IF c.listprev = Null THEN c.listnext ELSE @,
               !.last = IF c.listnext = Null THEN c.listprev ELSE @]

DeleteElement(h, k) ==
  IF HasElement(h, k) THEN DeleteCurrentElement(h, Find(h, k)) ELSE h

Clear(h) == EmptyHashTable

(* An element changed through the reference that GetCurrentElement returns *)
SetElement(h, k, v) == [h EXCEPT !.elem[Find(h, k)].val = v]
-----------------------------------------------------------------------------
(* What the links of a table have to satisfy: the list and the chains hold   *)
(* the same elements, every element in its own bucket; links go both ways;   *)
(* no key is there twice.                                                    *)
TwoWay(h, next, prev) ==
  \A e, f \in DOMAIN h.elem : h.elem[e][next] = f <=> h.elem[f][prev] = e

Linked(h) ==
  /\ List(h) = DOMAIN h.elem
  /\ \A e \in DOMAIN h.elem :
       /\ e \in Chain(h, Bucket[h.elem[e].key])
       /\ h.elem[e].listnext = Null <=> e = h.last
       /\ h.elem[e].listprev = Null <=> e = h.first
       /\ h.elem[e].hashprev = Null <=> e = h.table[Bucket[h.elem[e].key]]
  /\ TwoWay(h, "listnext", "listprev") /\ TwoWay(h, "hashnext", "hashprev")
  /\ \A e, f \in DOMAIN h.elem : h.elem[e].key = h.elem[f].key => e = f
=============================================================================
