------------------------------ MODULE RWStore ------------------------------
(***************************************************************************)
(* The two stores of the program as goroutines execute them: tools.DB and  *)
(* memory.Store, each a map behind a sync.RWMutex.  They have the same     *)
(* three operations; a value is a string in one and a value with its       *)
(* provenance in the other.                                                *)
(*                                                                         *)
(* The mutex is external.  As package sync documents it, and the code      *)
(* relies on: a writer first excludes other writers, then announces itself *)
(* and waits for the readers inside; a reader that arrives meanwhile waits *)
(* and is let in when the writer unlocks.                                  *)
(***************************************************************************)
EXTENDS KVStore

VARIABLES
  pc,       \* where each client stands in its operation
  inside,   \* the clients that hold a read lock
  writer,   \* the set holding the client that owns or awaits the write lock
  unread,   \* the slots of the map a range loop has not reached
  found     \* the keys the range loop has collected

lockVars == <<inside, writer>>
rwVars   == <<data, request, result, pc, lockVars, unread, found>>

RWInit ==
  /\ Init
  /\ pc = [c \in Clients |-> "idle"]
  /\ inside = {} /\ writer = {}
  /\ unread = [c \in Clients |-> {}]
  /\ found = [c \in Clients |-> {}]

Goto(c, p) == pc' = [pc EXCEPT ![c] = p]

\* Mutant: keys ranges over the map without the lock.
LockOfUnguardedKeys(op) ==
  CASE op = "set" -> "Lock" [] op = "get" -> "RLock" [] op = "keys" -> "access"

\* Mutant: set takes the read lock.
LockOfSharedSet(op) == "RLock"

\* The lock each operation takes before it touches the map.
LockOf(op) == IF op = "set" THEN "Lock" ELSE "RLock"

Enter(c, r) ==
  /\ Call(c, r)
  /\ Goto(c, LockOf(r.op))
  /\ unread' = [unread EXCEPT ![c] = Keys]
  /\ found' = [found EXCEPT ![c] = {}]
  /\ UNCHANGED lockVars

-----------------------------------------------------------------------------
(* sync.RWMutex *)

\* RLock: go in, or wait for the writer that has announced itself; external.
RLock(c) ==
  /\ pc[c] = "RLock"
  /\ IF writer = {}
       THEN inside' = inside \cup {c} /\ Goto(c, "access")
       ELSE UNCHANGED inside /\ Goto(c, "parked")
  /\ UNCHANGED <<data, request, result, writer, unread, found>>

\* Lock: exclude other writers and announce oneself; external.
Announce(c) ==
  /\ pc[c] = "Lock"
  /\ writer = {}
  /\ writer' = {c}
  /\ Goto(c, "draining")
  /\ UNCHANGED <<data, request, result, inside, unread, found>>

\* Lock returns once the readers that were inside have left; external.
Acquire(c) ==
  /\ pc[c] = "draining"
  /\ inside = {}
  /\ Goto(c, "access")
  /\ UNCHANGED <<data, request, result, lockVars, unread, found>>

-----------------------------------------------------------------------------
(* The bodies under the lock *)

\* Mutant: the second result of the map access is dropped, and a missing entry
\* reads as the empty string.
ReadEntryWithoutOk(c) ==
  /\ pc[c] = "access"
  /\ \E k \in Keys :
       /\ request[c] = Get(k)
       /\ result' = [result EXCEPT ![c] = Found(IF data[k] = Absent THEN "" ELSE data[k])]
  /\ Goto(c, "unlock")
  /\ UNCHANGED <<data, request, lockVars, unread, found>>

\* v, ok := d.data[key]
ReadEntry(c) ==
  /\ pc[c] = "access"
  /\ \E k \in Keys : /\ request[c] = Get(k)
                     /\ result' = [result EXCEPT ![c] = Found(data[k])]
  /\ Goto(c, "unlock")
  /\ UNCHANGED <<data, request, lockVars, unread, found>>

\* One iteration of `for k := range d.data`: the order is unspecified, and a
\* slot shows what it holds when the loop gets to it.
RangeNext(c, k) ==
  /\ pc[c] = "access"
  /\ request[c] = ListKeys
  /\ k \in unread[c]
  /\ unread' = [unread EXCEPT ![c] = @ \ {k}]
  /\ found' = [found EXCEPT ![c] = IF data[k] = Absent THEN @ ELSE @ \cup {k}]
  /\ UNCHANGED <<data, request, result, pc, lockVars>>

\* The loop is over and its keys are sorted.
RangeDone(c) ==
  /\ pc[c] = "access"
  /\ request[c] = ListKeys
  /\ unread[c] = {}
  /\ result' = [result EXCEPT ![c] = Listed(found[c])]
  /\ Goto(c, "unlock")
  /\ UNCHANGED <<data, request, lockVars, unread, found>>

\* d.data[key] = value, s.entries[key] = Entry{...}
WriteEntry(c) ==
  /\ pc[c] = "access"
  /\ \E k \in Keys, v \in Values :
       /\ request[c] = Set(k, v)
       /\ data' = [data EXCEPT ![k] = v]
  /\ result' = [result EXCEPT ![c] = Done]
  /\ Goto(c, "unlock")
  /\ UNCHANGED <<request, lockVars, unread, found>>

\* Mutant: the read lock is kept.
RUnlockForgotten(c) ==
  /\ pc[c] = "unlock"
  /\ request[c].op # "set"
  /\ Return(c)
  /\ Goto(c, "idle")
  /\ UNCHANGED <<lockVars, unread, found>>

\* The deferred RUnlock, and the return.
RUnlock(c) ==
  /\ pc[c] = "unlock"
  /\ request[c].op # "set"
  /\ Return(c)
  /\ inside' = inside \ {c}
  /\ Goto(c, "idle")
  /\ UNCHANGED <<writer, unread, found>>

\* The deferred Unlock lets the parked readers in, and returns.
Unlock(c) ==
  /\ pc[c] = "unlock"
  /\ request[c].op = "set"
  /\ Return(c)
  /\ writer' = {}
  /\ LET parked == {z \in Clients : pc[z] = "parked"} IN
       /\ inside' = inside \cup parked
       /\ pc' = [z \in Clients |-> IF z = c THEN "idle"
                                   ELSE IF z \in parked THEN "access" ELSE pc[z]]
  /\ UNCHANGED <<unread, found>>

-----------------------------------------------------------------------------
Operate(c) ==
  \/ RLock(c) \/ Acquire(c)
  \/ ReadEntry(c) \/ (\E k \in Keys : RangeNext(c, k)) \/ RangeDone(c) \/ WriteEntry(c)
  \/ RUnlock(c) \/ Unlock(c)

RWNext ==
  \E c \in Clients :
    \/ \E r \in Operations : Enter(c, r)
    \/ Announce(c)
    \/ Operate(c)

RWSpec == RWInit /\ [][RWNext]_rwVars

\* Goroutines are scheduled, and the mutex among writers hands itself to the
\* longest waiting one when it is contended (its starvation mode).
RWFairSpec ==
  RWSpec /\ \A c \in Clients : WF_rwVars(Operate(c)) /\ SF_rwVars(Announce(c))

-----------------------------------------------------------------------------
(* Properties *)

Requests == Operations \cup {NoRequest}

Results ==
  {Pending, Done} \cup {Found(v) : v \in Values \cup {Absent}}
    \cup {Listed(ks) : ks \in SUBSET Keys}

Places == {"idle", "RLock", "parked", "Lock", "draining", "access", "unlock"}

\* Every variable holds a value of its kind.
RWTypeOK ==
  /\ data \in [Keys -> Values \cup {Absent}]
  /\ request \in [Clients -> Requests]
  /\ result \in [Clients -> Results]
  /\ pc \in [Clients -> Places]
  /\ inside \subseteq Clients
  /\ writer \subseteq Clients
  /\ unread \in [Clients -> SUBSET Keys]
  /\ found \in [Clients -> SUBSET Keys]

Touching(c) == pc[c] \in {"access", "unlock"}
Writing(c)  == Touching(c) /\ request[c].op = "set"

\* No goroutine touches the map while another writes it: the Go runtime aborts
\* the program on a map read or write that is concurrent with a map write.
NoConcurrentMapAccess ==
  \A c, z \in Clients : (c # z /\ Writing(c)) => ~Touching(z)

\* Every operation that was called returns, however many others keep coming:
\* a set is not starved by readers nor a reader by sets.
OperationsReturn == \A c \in Clients : pc[c] # "idle" ~> pc[c] = "idle"

\* The store is atomic: a list of keys is never a mix of two moments, although
\* the loop reads the map one slot at a time, and no read is torn or stale.
Atomic == Spec
============================================================================
