---------------------------------- MODULE Map ----------------------------------
(***************************************************************************)
(* DS_Map.h: a map in an OrderedList of nodes.  HasSavedSearchResult       *)
(* always returns false and SaveLastSearch does nothing, so the last       *)
(* search is no part of the state.                                         *)
(***************************************************************************)
EXTENDS OrderedList

\* "Add if needed"
Set(key, data) ==
  /\ orderedList' =
       IF HasData(key)
         THEN [orderedList EXCEPT ![GetIndexFromKey(key).index + 1].data = data]
         ELSE Inserted(key, data)
  /\ result' = NoData
  /\ Calls("put", key, data)

\* "Must already exist"
SetExisting(key, data) == HasData(key) /\ Set(key, data)

\* "Must add": a key that is there keeps its datum.
SetNew(key, data) == Insert(key, data)

\* The key must be there, or what the search ends at is returned.
MapGet(key) == HasData(key) /\ GetElementFromKey(key)

\* The datum is returned, too.
Pop(key) == HasData(key) /\ Remove(key)

\* Delete returns whether the key was there.
Delete(key) == Remove(key)

\* operator[] and GetKeyAtIndex
GetAtIndex(position) == Get(position)

MapNext ==
  \/ \E key \in Keys :
       \/ \E data \in Data :
            Set(key, data) \/ SetExisting(key, data) \/ SetNew(key, data)
       \/ MapGet(key) \/ Pop(key) \/ Delete(key)
  \/ \E position \in 0 .. Size - 1 :
       GetAtIndex(position) \/ RemoveAtIndex(position)
  \/ Clear

===============================================================================
