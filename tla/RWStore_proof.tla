--------------------------- MODULE RWStore_proof ---------------------------
(***************************************************************************)
(* Proofs about RWStore, for every set of goroutines, keys and values: the *)
(* map is never touched during a write, and the store is atomic.           *)
(***************************************************************************)
EXTENDS RWStore, TLAPS

\* An operation stands where its kind can stand, and a client without one is
\* idle.
Placed ==
  \A c \in Clients :
    /\ pc[c] = "idle" <=> request[c] = NoRequest
    /\ pc[c] \in {"RLock", "parked"} => request[c].op # "set"
    /\ pc[c] \in {"Lock", "draining"} => request[c].op = "set"

\* Who holds the lock is who stands behind it, and writers hold it alone.
LockInv ==
  /\ \A c \in Clients : c \in inside <=> Touching(c) /\ request[c].op # "set"
  /\ \A c \in Clients : c \in writer <=> pc[c] = "draining" \/ Writing(c)
  /\ \A c, z \in Clients : (c \in writer /\ z \in writer) => c = z
  /\ \A c \in Clients : Writing(c) => inside = {}

\* What an operation has produced so far is what the map holds now.
ResultInv ==
  \A c \in Clients :
    /\ pc[c] \notin {"idle", "unlock"} => result[c] = Pending
    /\ pc[c] = "unlock" => result[c] # Pending
    /\ pc[c] \in {"RLock", "parked"} => unread[c] = Keys /\ found[c] = {}
    /\ (pc[c] = "access" /\ request[c] = ListKeys)
         => found[c] = Present(data) \ unread[c]

RWInv == RWTypeOK /\ Placed /\ LockInv /\ ResultInv

LEMMA RequestKinds ==
  /\ \A k \in Keys : Get(k).op = "get" /\ Get(k) \in Operations
  /\ \A k \in Keys, v \in Values : Set(k, v).op = "set" /\ Set(k, v) \in Operations
  /\ ListKeys.op = "keys" /\ ListKeys \in Operations
  /\ NoRequest.op = "none" /\ NoRequest \notin Operations
  /\ \A r \in Operations : r.op \in {"get", "set", "keys"}
<1>1. \A k \in Keys : Get(k).op = "get" /\ Get(k) \in Operations
  BY DEF Get, Operations
<1>2. \A k \in Keys, v \in Values : Set(k, v).op = "set" /\ Set(k, v) \in Operations
  BY DEF Set, Operations
<1>3. ListKeys.op = "keys" /\ ListKeys \in Operations
  BY DEF ListKeys, Operations
<1>4. NoRequest.op = "none"
  BY DEF NoRequest
<1>5. \A r \in Operations : r.op \in {"get", "set", "keys"}
  BY <1>1, <1>2, <1>3 DEF Operations
<1>6. QED
  BY <1>1, <1>2, <1>3, <1>4, <1>5

LEMMA ResultKinds ==
  /\ \A v : Found(v) # Pending
  /\ \A ks : Listed(ks) # Pending
  /\ Done # Pending
  BY DEF Found, Listed, Done, Pending

LEMMA InitInv == RWInit => RWInv
<1> SUFFICES ASSUME RWInit PROVE RWInv
  OBVIOUS
<1> USE DEF RWInit, Init
<1>1. RWTypeOK
  BY StoreAssumption DEF RWTypeOK, Requests, Results, Places
<1>2. Placed /\ LockInv /\ ResultInv
  BY DEF Placed, LockInv, ResultInv, Touching, Writing
<1>3. QED
  BY <1>1, <1>2 DEF RWInv

LEMMA TypeStep == RWTypeOK /\ [RWNext]_rwVars => RWTypeOK'
<1> SUFFICES ASSUME RWTypeOK, [RWNext]_rwVars PROVE RWTypeOK'
  OBVIOUS
<1> USE DEF RWTypeOK
<1>1. ASSUME NEW c \in Clients, NEW r \in Operations, Enter(c, r)
      PROVE  RWTypeOK'
  BY <1>1 DEF Enter, Call, Goto, LockOf, Requests, Results, Places, lockVars
<1>2. ASSUME NEW c \in Clients, RLock(c) \/ Announce(c) \/ Acquire(c)
      PROVE  RWTypeOK'
  BY <1>2 DEF RLock, Announce, Acquire, Goto, Places, lockVars
<1>3. ASSUME NEW c \in Clients, ReadEntry(c)
      PROVE  RWTypeOK'
  BY <1>3 DEF ReadEntry, Goto, Places, Results, lockVars
<1>4. ASSUME NEW c \in Clients, NEW k \in Keys, RangeNext(c, k)
      PROVE  RWTypeOK'
  BY <1>4 DEF RangeNext, lockVars
<1>5. ASSUME NEW c \in Clients, RangeDone(c)
      PROVE  RWTypeOK'
  BY <1>5 DEF RangeDone, Goto, Places, Results, lockVars
<1>6. ASSUME NEW c \in Clients, WriteEntry(c)
      PROVE  RWTypeOK'
  BY <1>6 DEF WriteEntry, Goto, Places, Results, lockVars
<1>7. ASSUME NEW c \in Clients, RUnlock(c)
      PROVE  RWTypeOK'
  BY <1>7 DEF RUnlock, Return, Goto, Places, Requests
<1>8. ASSUME NEW c \in Clients, Unlock(c)
      PROVE  RWTypeOK'
  BY <1>8 DEF Unlock, Return, Places, Requests
<1>9. CASE UNCHANGED rwVars
  BY <1>9 DEF rwVars, lockVars
<1>10. QED
  BY <1>1, <1>2, <1>3, <1>4, <1>5, <1>6, <1>7, <1>8, <1>9 DEF RWNext, Operate

LEMMA LockStep == RWInv /\ [RWNext]_rwVars => Placed' /\ LockInv'
<1> SUFFICES ASSUME RWTypeOK, Placed, LockInv, [RWNext]_rwVars
             PROVE  Placed' /\ LockInv'
  BY DEF RWInv
<1> USE RequestKinds DEF RWTypeOK, Placed, LockInv, Touching, Writing
<1>1. ASSUME NEW c \in Clients, NEW r \in Operations, Enter(c, r)
      PROVE  Placed' /\ LockInv'
  BY <1>1 DEF Enter, Call, Goto, LockOf, lockVars
<1>2. ASSUME NEW c \in Clients, RLock(c)
      PROVE  Placed' /\ LockInv'
  BY <1>2 DEF RLock, Goto
<1>3. ASSUME NEW c \in Clients, Announce(c)
      PROVE  Placed' /\ LockInv'
  BY <1>3 DEF Announce, Goto
<1>4. ASSUME NEW c \in Clients, Acquire(c)
      PROVE  Placed' /\ LockInv'
  BY <1>4 DEF Acquire, Goto, lockVars
<1>5. ASSUME NEW c \in Clients, ReadEntry(c) \/ RangeDone(c) \/ WriteEntry(c)
      PROVE  Placed' /\ LockInv'
  BY <1>5 DEF ReadEntry, RangeDone, WriteEntry, Goto, lockVars
<1>6. ASSUME NEW c \in Clients, NEW k \in Keys, RangeNext(c, k)
      PROVE  Placed' /\ LockInv'
  BY <1>6 DEF RangeNext, lockVars
<1>7. ASSUME NEW c \in Clients, RUnlock(c)
      PROVE  Placed' /\ LockInv'
  BY <1>7 DEF RUnlock, Return, Goto
<1>8. ASSUME NEW c \in Clients, Unlock(c)
      PROVE  Placed' /\ LockInv'
  BY <1>8 DEF Unlock, Return
<1>9. CASE UNCHANGED rwVars
  BY <1>9 DEF rwVars, lockVars
<1>10. QED
  BY <1>1, <1>2, <1>3, <1>4, <1>5, <1>6, <1>7, <1>8, <1>9 DEF RWNext, Operate

LEMMA ResultStep == RWInv /\ [RWNext]_rwVars => ResultInv'
<1> SUFFICES ASSUME RWTypeOK, Placed, LockInv, ResultInv, [RWNext]_rwVars
             PROVE  ResultInv'
  BY DEF RWInv
<1> USE RequestKinds, ResultKinds DEF RWTypeOK, Placed, ResultInv
<1>1. ASSUME NEW c \in Clients, NEW r \in Operations, Enter(c, r)
      PROVE  ResultInv'
  BY <1>1 DEF Enter, Call, Goto, LockOf
<1>2. ASSUME NEW c \in Clients, RLock(c) \/ Announce(c) \/ Acquire(c)
      PROVE  ResultInv'
  BY <1>2 DEF RLock, Announce, Acquire, Goto, Present
<1>3. ASSUME NEW c \in Clients, ReadEntry(c) \/ RangeDone(c)
      PROVE  ResultInv'
  BY <1>3 DEF ReadEntry, RangeDone, Goto
<1>4. ASSUME NEW c \in Clients, NEW k \in Keys, RangeNext(c, k)
      PROVE  ResultInv'
  <2>1. found'[c] = Present(data) \ unread'[c]
    BY <1>4 DEF RangeNext, Present
  <2>2. QED
    BY <1>4, <2>1 DEF RangeNext
<1>5. ASSUME NEW c \in Clients, WriteEntry(c)
      PROVE  ResultInv'
  <2>1. request[c].op = "set" /\ pc[c] = "access"
    BY <1>5 DEF WriteEntry
  <2>2. inside = {}
    BY <2>1 DEF LockInv, Writing, Touching
  <2>3. \A z \in Clients : ~(pc[z] = "access" /\ request[z] = ListKeys)
    BY <2>2 DEF LockInv, Touching
  <2>4. QED
    BY <1>5, <2>3 DEF WriteEntry, Goto
<1>6. ASSUME NEW c \in Clients, RUnlock(c)
      PROVE  ResultInv'
  BY <1>6 DEF RUnlock, Return, Goto
<1>7. ASSUME NEW c \in Clients, Unlock(c)
      PROVE  ResultInv'
  BY <1>7 DEF Unlock, Return, Present
<1>8. CASE UNCHANGED rwVars
  BY <1>8 DEF rwVars
<1>9. QED
  BY <1>1, <1>2, <1>3, <1>4, <1>5, <1>6, <1>7, <1>8 DEF RWNext, Operate

LEMMA RWInductive == RWSpec => []RWInv
<1>1. RWInv /\ [RWNext]_rwVars => RWInv'
  BY TypeStep, LockStep, ResultStep DEF RWInv
<1>2. QED
  BY InitInv, <1>1, PTL DEF RWSpec

\* Every operation stands at a place of its own and leaves results of its kind
\* (database.go, provenance.go).
THEOREM TypeCorrect == RWSpec => []RWTypeOK
<1>1. RWInv => RWTypeOK
  BY DEF RWInv
<1>2. QED
  BY RWInductive, <1>1, PTL

\* No goroutine touches the map while another writes it.
THEOREM MutualExclusion == RWSpec => []NoConcurrentMapAccess
<1>1. RWInv => NoConcurrentMapAccess
  BY DEF RWInv, LockInv, NoConcurrentMapAccess, Writing
<1>2. QED
  BY RWInductive, <1>1, PTL

\* Every step of the lock-based store is a step of the atomic one, or changes
\* nothing its callers see.
THEOREM StoreIsAtomic == RWSpec => Atomic
<1>1. RWInit => Init
  BY DEF RWInit
<1>2. RWInv /\ [RWNext]_rwVars => [Next]_vars
  <2> SUFFICES ASSUME RWTypeOK, Placed, ResultInv, [RWNext]_rwVars
               PROVE  [Next]_vars
    BY DEF RWInv
  <2>1. ASSUME NEW c \in Clients, NEW r \in Operations, Enter(c, r)
        PROVE  [Next]_vars
    BY <2>1 DEF Enter, Next
  <2>2. ASSUME NEW c \in Clients,
               RLock(c) \/ Announce(c) \/ Acquire(c) \/ \E k \in Keys : RangeNext(c, k)
        PROVE  [Next]_vars
    BY <2>2 DEF RLock, Announce, Acquire, RangeNext, vars
  <2>3. ASSUME NEW c \in Clients, ReadEntry(c) \/ RangeDone(c) \/ WriteEntry(c)
        PROVE  [Next]_vars
    <3>1. result[c] = Pending
      BY <2>3 DEF ReadEntry, RangeDone, WriteEntry, ResultInv
    <3>2. CASE ReadEntry(c)
      BY <3>1, <3>2 DEF ReadEntry, Effect, Next
    <3>3. CASE RangeDone(c)
      <4>1. found[c] = Present(data)
        BY <3>3 DEF RangeDone, ResultInv
      <4>2. QED
        BY <3>1, <3>3, <4>1 DEF RangeDone, Effect, Next
    <3>4. CASE WriteEntry(c)
      BY <3>1, <3>4 DEF WriteEntry, Effect, Next
    <3>5. QED
      BY <2>3, <3>2, <3>3, <3>4
  <2>4. ASSUME NEW c \in Clients, RUnlock(c) \/ Unlock(c)
        PROVE  [Next]_vars
    BY <2>4 DEF RUnlock, Unlock, Next
  <2>5. CASE UNCHANGED rwVars
    BY <2>5 DEF rwVars, vars
  <2>6. QED
    BY <2>1, <2>2, <2>3, <2>4, <2>5 DEF RWNext, Operate
<1>3. QED
  BY RWInductive, <1>1, <1>2, PTL DEF RWSpec, Spec, Atomic
============================================================================
