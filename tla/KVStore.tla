------------------------------ MODULE KVStore ------------------------------
(***************************************************************************)
(* What a concurrency-safe store promises its callers: a map from keys to  *)
(* values whose operations each take effect at one instant between the     *)
(* call and the return.                                                    *)
(***************************************************************************)
CONSTANTS
  Clients,  \* the goroutines that share the store
  Keys, Values,
  Absent,   \* what a key without an entry reads as
  Seed      \* the entries the store starts with

ASSUME StoreAssumption ==
  /\ Absent \notin Values
  /\ Seed \in [Keys -> Values \cup {Absent}]

VARIABLES
  data,     \* the map
  request,  \* per client, the operation it has called
  result    \* per client, the result of the operation, once it took effect

vars == <<data, request, result>>

Get(k)    == [op |-> "get", key |-> k]
Set(k, v) == [op |-> "set", key |-> k, value |-> v]
ListKeys  == [op |-> "keys"]
NoRequest == [op |-> "none"]

Operations ==
  {Get(k) : k \in Keys} \cup {Set(k, v) : k \in Keys, v \in Values} \cup {ListKeys}

\* Results are tagged: an operation is pending, has a value, has a set of keys
\* (the code returns them sorted, which the set determines) or is done.
Pending    == [kind |-> "pending"]
Found(v)   == [kind |-> "value", value |-> v]
Listed(ks) == [kind |-> "keys", keys |-> ks]
Done       == [kind |-> "done"]

Present(d) == {k \in Keys : d[k] # Absent}

Init ==
  /\ data = Seed
  /\ request = [c \in Clients |-> NoRequest]
  /\ result = [c \in Clients |-> Pending]

Call(c, r) ==
  /\ request[c] = NoRequest
  /\ request' = [request EXCEPT ![c] = r]
  /\ result' = [result EXCEPT ![c] = Pending]
  /\ UNCHANGED data

\* The instant an operation takes effect.
Effect(c) ==
  /\ result[c] = Pending
  /\ \/ \E k \in Keys : /\ request[c] = Get(k)
                        /\ result' = [result EXCEPT ![c] = Found(data[k])]
                        /\ UNCHANGED data
     \/ \E k \in Keys, v \in Values : /\ request[c] = Set(k, v)
                                      /\ data' = [data EXCEPT ![k] = v]
                                      /\ result' = [result EXCEPT ![c] = Done]
     \/ /\ request[c] = ListKeys
        /\ result' = [result EXCEPT ![c] = Listed(Present(data))]
        /\ UNCHANGED data
  /\ UNCHANGED request

Return(c) ==
  /\ request[c] # NoRequest
  /\ result[c] # Pending
  /\ request' = [request EXCEPT ![c] = NoRequest]
  /\ UNCHANGED <<data, result>>

Next ==
  \E c \in Clients :
    \/ \E r \in Operations : Call(c, r)
    \/ Effect(c)
    \/ Return(c)

Spec == Init /\ [][Next]_vars
============================================================================
