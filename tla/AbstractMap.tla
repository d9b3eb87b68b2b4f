------------------------------ MODULE AbstractMap ------------------------------
(***************************************************************************)
(* What the keyed containers of RakNet promise: each key has at most one   *)
(* datum.  OrderedList and Map implement it.                               *)
(***************************************************************************)
EXTENDS Integers, FiniteSets, Functions

CONSTANTS Keys, Data,
  NoData     \* the result of a call that returns nothing

VARIABLES
  mapping,
  call,      \* the last call
  result     \* what it returned

vars == <<mapping, call, result>>

Calls(op, key, data) == call' = [op |-> op, key |-> key, data |-> data]

Holds(key) == key \in DOMAIN mapping

With(key, data) ==
  [k \in DOMAIN mapping \cup {key} |-> IF k = key THEN data ELSE mapping[k]]

\* A key that is there keeps its datum.
Add(key, data) ==
  /\ Calls("add", key, data)
  /\ mapping' = IF Holds(key) THEN mapping ELSE With(key, data)
  /\ result' = ~Holds(key)

Put(key, data) ==
  /\ Calls("put", key, data)
  /\ mapping' = With(key, data)
  /\ result' = NoData

Remove(key) ==
  /\ Calls("remove", key, NoData)
  /\ mapping' = Restrict(mapping, DOMAIN mapping \ {key})
  /\ result' = Holds(key)

Look(key) ==
  /\ Calls("look", key, NoData)
  /\ result' = IF Holds(key) THEN mapping[key] ELSE NoData
  /\ UNCHANGED mapping

\* The key and the datum that is the n-th from 0 in the order of the keys.
At(n) ==
  /\ Calls("at", n, NoData)
  /\ \E key \in DOMAIN mapping :
       /\ Cardinality({k \in DOMAIN mapping : k < key}) = n
       /\ result' = <<key, mapping[key]>>
  /\ UNCHANGED mapping

Clear ==
  /\ Calls("clear", 0, NoData)
  /\ mapping' = <<>>
  /\ result' = NoData

Init ==
  /\ mapping = <<>>
  /\ call = [op |-> "clear", key |-> 0, data |-> NoData]
  /\ result = NoData

Next ==
  \/ \E key \in Keys :
       \/ \E data \in Data : Add(key, data) \/ Put(key, data)
       \/ Remove(key) \/ Look(key)
  \/ \E n \in 0 .. Cardinality(DOMAIN mapping) - 1 : At(n)
  \/ Clear

Spec == Init /\ [][Next]_vars

===============================================================================
