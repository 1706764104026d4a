-------------------------------- MODULE LRU --------------------------------
(***************************************************************************)
(* util/lru: a bounded, doubly indexed table.  `order' is the container/   *)
(* list (front first), `k2e' and `v2e' are the two sync.Maps from a key    *)
(* and from a value to a list element.                                     *)
(*                                                                         *)
(* A list element is named by the key and the value it was created with:   *)
(* its key never changes (ReplaceLastValue, which would change it, has no  *)
(* caller), and an element that leaves the list is only ever reached again *)
(* through v2e, whose entry a new element of the same name overwrites.     *)
(* Put on a present key changes the element's value, so the value of the   *)
(* element in the list is kept apart, in `val', by key.  Each method holds *)
(* l.m throughout, so each is one step.                                    *)
(***************************************************************************)
EXTENDS Integers, Sequences

CONSTANTS Key, Value, Capacity, Nil

Elem == [key : Key, made : Value]

ASSUME LRUAssumption ==
  /\ Capacity \in Int
  /\ Nil \notin Value
  /\ Nil \notin Elem

VARIABLES
  order,    \* l.list, the most recently used element first
  k2e,      \* l.keyToElement
  v2e,      \* l.valueToElement
  val       \* the value the element of a present key holds now

lruVars == <<order, k2e, v2e, val>>

InList(e) == \E i \in DOMAIN order : order[i] = e

LRUInit ==
  /\ order = << >>
  /\ k2e = [k \in Key |-> Nil]
  /\ v2e = [v \in Value |-> Nil]
  /\ val = [k \in Key |-> Nil]

LRUTypeOK ==
  /\ order \in Seq(Elem)
  /\ k2e \in [Key -> Elem \cup {Nil}]
  /\ v2e \in [Value -> Elem \cup {Nil}]
  /\ val \in [Key -> Value \cup {Nil}]

-----------------------------------------------------------------------------
(* An operator whose name ends in an underscore and a word is a mistake    *)
(* the definition after it could have been written with; no specification  *)
(* uses it.                                                                *)

(* The element moves to the front of the list, if it is still in it.       *)
MoveToFront(s, e) ==
  IF \E i \in DOMAIN s : s[i] = e
  THEN LET p == CHOOSE i \in DOMAIN s : s[i] = e
       IN  [i \in DOMAIN s |-> IF i = 1 THEN e
                               ELSE IF i <= p THEN s[i - 1] ELSE s[i]]
  ELSE s

(* What the two lookups return: a value or a key, or Nil for !exist.       *)
ValueOf(k) == val[k]
KeyOf(v) == IF v2e[v] = Nil THEN Nil ELSE v2e[v].key

(* Get with a move of whatever element the index names, live or not.       *)
Get(k) ==
  /\ order' = MoveToFront(order, k2e[k])
  /\ UNCHANGED <<k2e, v2e, val>>

GetKeyFromValue(v) ==
  /\ order' = MoveToFront(order, v2e[v])
  /\ UNCHANGED <<k2e, v2e, val>>

IsFull_late == Len(order) > Capacity

IsFull_early == Len(order) + 1 >= Capacity

IsFull == Len(order) >= Capacity

GetLastValue_front == IF order = << >> THEN Nil ELSE val[order[1].key]

GetLastValue == IF order = << >> THEN Nil ELSE val[order[Len(order)].key]

(* sync.Map: Store and Delete of one entry.                                *)
Store(map, x, e) == [map EXCEPT ![x] = e]

Delete_nothing(map, x) == map

Delete(map, x) == [map EXCEPT ![x] = Nil]

(* One more element is one too many.                                       *)
Overflows_early == Len(order) + 1 >= Capacity

Overflows == Len(order) + 1 > Capacity

(* The key is present: its element takes the new value; v2e still has the  *)
(* entry of the old one, and none for the new one.                         *)
PutReplace(k, v) ==
  /\ k2e[k] # Nil
  /\ val' = [val EXCEPT ![k] = v]
  /\ order' = MoveToFront(order, k2e[k])
  /\ UNCHANGED <<k2e, v2e>>

(* The key is new and there is room.                                       *)
PutInsert(k, v) ==
  LET e == [key |-> k, made |-> v]
  IN  /\ k2e[k] = Nil
      /\ ~Overflows
      /\ order' = <<e>> \o order
      /\ k2e' = Store(k2e, k, e)
      /\ v2e' = Store(v2e, v, e)
      /\ val' = [val EXCEPT ![k] = v]

(* The key is new and the table overflows: the element is stored in both   *)
(* maps, then the last of the list is removed, and with it the entries of  *)
(* its key and of its value, whomever the latter belongs to by now.        *)
PutEvict(k, v) ==
  LET e      == [key |-> k, made |-> v]
      pushed == <<e>> \o order
      back   == pushed[Len(pushed)]
      stored == [val EXCEPT ![k] = v]
  IN  /\ k2e[k] = Nil
      /\ Overflows
      /\ order' = SubSeq(pushed, 1, Len(order))
      /\ k2e' = Delete(Store(k2e, k, e), back.key)
      /\ v2e' = Delete(Store(v2e, v, e), stored[back.key])
      /\ val' = [stored EXCEPT ![back.key] = Nil]

Put(k, v) == PutReplace(k, v) \/ PutInsert(k, v) \/ PutEvict(k, v)

-----------------------------------------------------------------------------
(* The list and the key index say the same: every element of the list is   *)
(* the one its key leads to, and every key of the index leads to an        *)
(* element of the list.                                                    *)
Coherent ==
  /\ \A i \in DOMAIN order : k2e[order[i].key] = order[i]
  /\ \A k \in Key : k2e[k] # Nil => k2e[k].key = k /\ InList(k2e[k])

(* No key is in the list twice, so a removal cannot leave a dangling copy. *)
Distinct ==
  \A i, j \in DOMAIN order : order[i].key = order[j].key => i = j

(* A key has a value exactly as long as it is in the index.                *)
Valued == \A k \in Key : (val[k] = Nil) <=> (k2e[k] = Nil)

=============================================================================
