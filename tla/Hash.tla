---------------------------------- MODULE Hash ----------------------------------
(***************************************************************************)
(* DS_Hash.h: chains of nodes, a chain for each value of the hash          *)
(* function, which is that of an integer key here.  A key may be pushed    *)
(* more than once.  Only GetIndexOf gives an index, and its caller uses it *)
(* before the next change.                                                 *)
(***************************************************************************)
EXTENDS Integers, Sequences

LOCAL Ext == INSTANCE SequencesExt

CONSTANTS
  Keys, Data, NoData,
  HASH_SIZE,
  MaxNodes      \* bound: nodes in the hash

VARIABLES
  nodeList,     \* of each hash index, its chain of [key, data]; <<>> for 0
  size,
  call, result  \* the last call and what it returned: AbstractStacks

vars == <<nodeList, size, call, result>>

HashIndexes == 0 .. HASH_SIZE - 1

hashIndex(key) == key % HASH_SIZE

TypeOK ==
  /\ DOMAIN nodeList \in {{}, HashIndexes}
  /\ \A i \in DOMAIN nodeList :
       nodeList[i] \in Seq([key : Keys, data : Data])
  /\ size \in Nat

Calls(op, key) == call' = [op |-> op, key |-> key]

Init ==
  /\ nodeList = <<>>
  /\ size = 0
  /\ call = [op |-> "clear", key |-> 0]
  /\ result = NoData

-------------------------------------------------------------------------------

\* The chain of a key; there is none before the first Push.
Chain(key) == IF nodeList = <<>> THEN <<>> ELSE nodeList[hashIndex(key)]

Places(key) == {i \in DOMAIN Chain(key) : Chain(key)[i].key = key}

HasData(key) == Places(key) # {}

\* Slip: the search goes on to the last one.
LastPlace(key) == CHOOSE i \in Places(key) : \A j \in Places(key) : j <= i

\* The secondaryIndex of GetIndexOf, from 1.
GetIndexOf(key) == CHOOSE i \in Places(key) : \A j \in Places(key) : i <= j

Push(key, data) ==
  LET lists == IF nodeList = <<>> THEN [i \in HashIndexes |-> <<>>] ELSE nodeList
  IN
  /\ size < MaxNodes
  /\ nodeList' = [lists EXCEPT ![hashIndex(key)] =
                    <<[key |-> key, data |-> data]>> \o @]
  /\ size' = size + 1
  /\ result' = NoData
  /\ Calls("push", key)

\* The key of ItemAtIndex and KeyAtIndex is looked for first, too.
Peek(key) ==
  /\ result' = IF HasData(key) THEN Chain(key)[GetIndexOf(key)].data ELSE NoData
  /\ Calls("look", key)
  /\ UNCHANGED <<nodeList, size>>

CountedWithout(key) == size - 1

\* Pop, and Remove, which does not return the datum: RemoveAtIndex.
Pop(key) ==
  /\ IF HasData(key)
       THEN /\ result' = Chain(key)[GetIndexOf(key)].data
            /\ nodeList' = [nodeList EXCEPT ![hashIndex(key)] =
                              Ext!RemoveAt(@, GetIndexOf(key))]
            /\ size' = CountedWithout(key)
       ELSE result' = NoData /\ UNCHANGED <<nodeList, size>>
  /\ Calls("take", key)

Has(key) ==
  /\ result' = HasData(key)
  /\ Calls("has", key)
  /\ UNCHANGED <<nodeList, size>>

\* Into lists that are empty: without a nodeList they are not cleared.
GetAsList ==
  LET pairs(i) == [n \in DOMAIN nodeList[i] |->
                     <<nodeList[i][n].key, nodeList[i][n].data>>]
  IN
  /\ result' = IF nodeList = <<>> THEN <<>>
               ELSE Ext!FlattenSeq([i \in 1 .. HASH_SIZE |-> pairs(i - 1)])
  /\ Calls("list", 0)
  /\ UNCHANGED <<nodeList, size>>

Size ==
  /\ result' = size
  /\ Calls("size", 0)
  /\ UNCHANGED <<nodeList, size>>

Clear ==
  /\ nodeList' = <<>>
  /\ size' = 0
  /\ result' = NoData
  /\ Calls("clear", 0)

Next ==
  \/ \E key \in Keys :
       \/ \E data \in Data : Push(key, data)
       \/ Peek(key) \/ Pop(key) \/ Has(key)
  \/ GetAsList \/ Size \/ Clear

Spec == Init /\ [][Next]_vars

-------------------------------------------------------------------------------
(* Properties.                                                             *)

StackOf(key) ==
  LET OfKey(node) == node.key = key
      nodes == SelectSeq(Chain(key), OfKey)
  IN [i \in DOMAIN nodes |-> nodes[i].data]

\* Whatever keys share a chain, each has its own stack, and all are counted
\* (DS_Hash.h).
Stacks == INSTANCE AbstractStacks WITH stacks <- [key \in Keys |-> StackOf(key)]

ImplementsStacks == Stacks!Spec

===============================================================================
