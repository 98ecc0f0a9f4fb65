------------------------ MODULE LiveRoomCacheProofs ------------------------
(* Proofs about LiveRoomCache, for any rooms, contents and requests.        *)
EXTENDS LiveRoomCache, TLAPS

(* The initial state satisfies the invariant: no cache, no request.         *)
LEMMA InitFresh == Init => FreshInv
  BY LiveRoomAssumption DEF Init, FreshInv, TypeOK, FreshUnlessExposed, Fresh, Shown,
     LoadedInv, PageInv, UnbornInv, Filling, Idle, Resting, Keys

(* A key's excuses depend on the administrators and on the two histories.   *)
LEMMA SameExcuses ==
  ASSUME UNCHANGED <<admin, lost, overlapped>>
  PROVE  \A k : Excused(k)' <=> Excused(k)
  BY DEF Excused, Pending, Dels

(* An administrator at rest has nothing to delete.                          *)
LEMMA RestingDels ==
  ASSUME NEW a \in Admins, admin[a] = Resting
  PROVE  Dels(a) = {}
  BY DEF Dels, Resting

(* A miss starts a request; nothing is loaded yet.                          *)
LEMMA GetMissFresh ==
  ASSUME FreshInv, NEW u \in Readers, NEW k \in Keys, GetMiss(u, k)
  PROVE  FreshInv'
<1> USE DEF FreshInv
<1>1. TypeOK'
  BY DEF TypeOK, GetMiss, Shown, Idle
<1>2. \A v \in Readers : \A q : Filling(v, q)' => Filling(v, q) /\ reader'[v] = reader[v]
  BY DEF TypeOK, GetMiss, Filling
<1>3. FreshUnlessExposed'
  BY SameExcuses DEF GetMiss, FreshUnlessExposed, Fresh, Current
<1>4. LoadedInv'
  BY <1>2, SameExcuses DEF GetMiss, LoadedInv, Current
<1>5. PageInv'
  BY <1>2 DEF PageInv, Keys
<1>6. UnbornInv'
  BY <1>2 DEF GetMiss, UnbornInv
<1> QED
  BY <1>1, <1>3, <1>4, <1>5, <1>6

(* What is loaded is current, and a missing page is not loaded.             *)
LEMMA LoadFresh ==
  ASSUME FreshInv, NEW u \in Readers, Load(u)
  PROVE  FreshInv'
<1> USE DEF FreshInv
<1> DEFINE key == reader[u].key
<1>1. key \in Keys /\ Current(key) \in Shown
  BY DEF TypeOK, Load, Idle, Current, Keys
<1>2. TypeOK'
  BY <1>1 DEF TypeOK, Load, Idle
<1>3. \A v \in Readers : \A q : Filling(v, q)' =>
        \/ Filling(v, q) /\ reader'[v] = reader[v]
        \/ /\ v = u /\ q = key /\ reader'[v].got = Current(key)
           /\ key[1] = "enter" => Current(key) # Nothing
  BY <1>1 DEF TypeOK, Load, Filling, Idle
<1>4. FreshUnlessExposed'
  BY SameExcuses DEF Load, FreshUnlessExposed, Fresh, Current
<1>5. LoadedInv'
  BY <1>3, SameExcuses DEF Load, LoadedInv, Current
<1>6. PageInv'
  BY <1>1, <1>3 DEF PageInv
<1>7. UnbornInv'
  <2> SUFFICES ASSUME NEW r \in Rooms \ born, NEW v \in Readers
               PROVE  ~Filling(v, <<"enter", r>>)'
    BY DEF Load, UnbornInv
  <2>1. key = <<"enter", r>> => Current(key) = Nothing
    BY DEF UnbornInv, Current
  <2> QED
    BY <1>3, <2>1 DEF UnbornInv
<1> QED
  BY <1>2, <1>4, <1>5, <1>6, <1>7

(* What is put into the cache is as right as what was loaded.               *)
LEMMA FillFresh ==
  ASSUME FreshInv, NEW u \in Readers, Fill(u)
  PROVE  FreshInv'
<1> USE DEF FreshInv
<1> DEFINE key == reader[u].key
<1>1. key \in Keys /\ reader[u].got \in Shown /\ Filling(u, key)
  BY DEF TypeOK, Fill, Idle, Filling
<1>2. \A r \in Rooms : key = <<"enter", r>> => reader[u].got # Nothing /\ r \in born
  BY <1>1 DEF PageInv, UnbornInv
<1>3. TypeOK'
  BY <1>1, <1>2 DEF TypeOK, Fill, Idle, Keys
<1>4. \A v \in Readers : \A q : Filling(v, q)' => Filling(v, q) /\ reader'[v] = reader[v]
  BY DEF TypeOK, Fill, Filling, Idle
<1>5. FreshUnlessExposed'
  BY <1>1, SameExcuses DEF TypeOK, Fill, FreshUnlessExposed, LoadedInv, Fresh, Current
<1>6. LoadedInv'
  BY <1>4, SameExcuses DEF Fill, LoadedInv, Current
<1>7. PageInv'
  BY <1>4 DEF PageInv, Keys
<1>8. UnbornInv'
  BY <1>2, <1>4 DEF TypeOK, Fill, UnbornInv, Keys
<1> QED
  BY <1>3, <1>5, <1>6, <1>7, <1>8
(* An administrator's step that writes no cache keeps the excuses that      *)
(* others give, and its own if it had any.                                  *)
LEMMA ExcusesKept ==
  ASSUME TypeOK, NEW a \in Admins, NEW next, UNCHANGED <<lost, overlapped>>,
         admin' = [admin EXCEPT ![a] = next], Dels(a) = {}
  PROVE  \A k : Excused(k) => Excused(k)'
<1>1. \A b \in Admins \ {a} : Dels(b)' = Dels(b)
  BY DEF TypeOK, Dels
<1> QED
  BY <1>1 DEF Excused, Pending

(* A write of room r that announces the deletion of a key whenever the key  *)
(* may hold, or get, something of the room.                                 *)
LEMMA WriteFresh ==
  ASSUME FreshInv, NEW a \in Admins, NEW r \in Rooms, NEW next, NEW value \in Shown,
         admin[a].at \notin {"created", "saved"},
         db' = [db EXCEPT ![r] = value], admin' = [admin EXCEPT ![a] = next],
         TypeOK', r \in born', born \subseteq born', next.room = r,
         UNCHANGED <<cache, reader, lost, overlapped>>,
         \/ next.at = "saved"
         \/ next.at = "created" /\ r \notin born
  PROVE  FreshInv'
<1> USE DEF FreshInv
<1>1. Dels(a) = {}
  BY DEF Dels
<1>2. \A k : Excused(k) => Excused(k)'
  BY <1>1, ExcusesKept
<1>3. \A k \in Keys : k[2] # r => Current(k)' = Current(k)
  BY DEF Current, TypeOK, Keys
<1>4. \A k \in Keys :
         \/ k[2] # r
         \/ Excused(k)'
         \/ cache[k] = Miss /\ \A u \in Readers : ~Filling(u, k)
  <2> SUFFICES ASSUME NEW k \in Keys, k[2] = r, ~(r \notin born /\ k[1] = "enter")
               PROVE  Excused(k)'
    <3>1. \A k \in Keys : k = <<k[1], k[2]>>
      BY DEF Keys
    <3> QED
      BY <3>1 DEF UnbornInv
  <2>1. admin'[a] = next
    BY DEF TypeOK
  <2>2. k[1] \in {"public", "enter"}
    BY DEF Keys
  <2>3. next.at = "created" => k[1] = "public"
    BY <2>2
  <2>4. k \in Dels(a)'
    BY <2>1, <2>3 DEF Dels
  <2> QED
    BY <2>4 DEF Excused, Pending
<1>5. \A u \in Readers : \A k : Filling(u, k)' <=> Filling(u, k)
  BY DEF Filling
<1>6. FreshUnlessExposed'
  BY <1>2, <1>3, <1>4 DEF FreshUnlessExposed, Fresh
<1>7. LoadedInv'
  BY <1>2, <1>3, <1>4, <1>5 DEF LoadedInv
<1>8. PageInv'
  BY <1>5 DEF PageInv
<1>9. UnbornInv'
  BY <1>5 DEF UnbornInv, TypeOK
<1> QED
  BY <1>6, <1>7, <1>8, <1>9

(* create inserts a room nobody knows the id of.                            *)
LEMMA CreateFresh ==
  ASSUME FreshInv, NEW a \in Admins, NEW r \in Rooms, NEW c \in Contents, Create(a, r, c)
  PROVE  FreshInv'
<1>1. TypeOK'
  BY DEF FreshInv, TypeOK, Create, Shown
<1> DEFINE next == [at |-> "created", room |-> r]
<1>2. /\ admin[a].at = "idle" /\ r \notin born
      /\ db' = [db EXCEPT ![r] = c] /\ admin' = [admin EXCEPT ![a] = next]
      /\ r \in born' /\ born \subseteq born'
      /\ UNCHANGED <<cache, reader, lost, overlapped>>
  BY DEF Create, Resting
<1>3. c \in Shown /\ next.room = r /\ next.at = "created"
  BY DEF Shown
<1> HIDE DEF next
<1> QED
  BY <1>1, <1>2, <1>3, WriteFresh

(* update and remove write a room that was inserted once.                   *)
LEMMA SaveFresh ==
  ASSUME FreshInv, NEW a \in Admins,
         (\E c \in Contents : CommitUpdate(a, c)) \/ RemoveRoom(a)
  PROVE  FreshInv'
<1> DEFINE r == admin[a].room
<1>1. r \in Rooms /\ admin[a].at \in {"updating", "removing"}
  BY DEF FreshInv, TypeOK, CommitUpdate, RemoveRoom, Resting
<1>2. r \in born
  BY <1>1 DEF FreshInv, UnbornInv
<1>3. PICK value \in Shown : db' = [db EXCEPT ![r] = value]
  BY DEF CommitUpdate, RemoveRoom, Shown
<1> DEFINE next == [at |-> "saved", room |-> r]
<1>4. admin' = [admin EXCEPT ![a] = next]
  BY <1>1 DEF FreshInv, TypeOK, CommitUpdate, RemoveRoom, Resting
<1>5. UNCHANGED <<born, cache, reader, lost, overlapped>>
  BY DEF CommitUpdate, RemoveRoom
<1>6. TypeOK'
  BY <1>1, <1>3, <1>4, <1>5 DEF FreshInv, TypeOK
<1> QED
  BY <1>1, <1>2, <1>3, <1>4, <1>5, <1>6, WriteFresh
(* Finding the room, or giving the write up, announces nothing.             *)
LEMMA BetweenFresh ==
  ASSUME FreshInv, NEW a \in Admins,
         \/ WriteFails(a)
         \/ \E r \in Rooms, step \in {"updating", "removing"} : FindRoom(a, r, step)
  PROVE  FreshInv'
<1> USE DEF FreshInv
<1>1. Dels(a) = {} /\ UNCHANGED <<db, born, cache, reader, lost, overlapped>>
  BY DEF Dels, WriteFails, FindRoom, Resting
<1>2. PICK next : /\ admin' = [admin EXCEPT ![a] = next]
                  /\ next.room \in Rooms => next.room \in born
                  /\ TypeOK'
  <2>1. CASE WriteFails(a)
    <3>1. Resting.room \notin Rooms /\ TypeOK'
      BY <2>1, LiveRoomAssumption DEF WriteFails, TypeOK, Resting
    <3> QED
      BY <2>1, <3>1 DEF WriteFails
  <2>2. CASE \E r \in Rooms, step \in {"updating", "removing"} : FindRoom(a, r, step)
    <3>1. PICK r \in Rooms, step \in {"updating", "removing"} : FindRoom(a, r, step)
      BY <2>2
    <3>2. r \in born /\ TypeOK'
      BY <3>1 DEF FindRoom, TypeOK, UnbornInv
    <3> DEFINE found == [at |-> step, room |-> r]
    <3>3. found.room = r /\ admin' = [admin EXCEPT ![a] = found]
      BY <3>1 DEF FindRoom
    <3> HIDE DEF found
    <3> QED
      BY <3>2, <3>3
  <2> QED
    BY <2>1, <2>2
<1>3. \A k : Excused(k) => Excused(k)'
  BY <1>1, <1>2, ExcusesKept
<1>4. \A u \in Readers : \A k : Filling(u, k)' <=> Filling(u, k)
  BY <1>1 DEF Filling
<1>5. FreshUnlessExposed'
  BY <1>1, <1>3 DEF FreshUnlessExposed, Fresh, Current
<1>6. LoadedInv' /\ PageInv'
  BY <1>1, <1>3, <1>4 DEF LoadedInv, PageInv, Current
<1>7. UnbornInv'
  BY <1>1, <1>2, <1>4 DEF UnbornInv, TypeOK
<1> QED
  BY <1>2, <1>5, <1>6, <1>7

(* The end of a write, with its DEL or without: a key that loses an excuse  *)
(* is empty with nothing on its way, or gets another one.                   *)
LEMMA EndFresh ==
  ASSUME FreshInv, NEW a \in Admins, Invalidate(a) \/ InvalidateFails(a)
  PROVE  FreshInv'
<1> USE DEF FreshInv
<1>1. /\ cache' \in {cache, Del(Dels(a))}
      /\ admin' = [admin EXCEPT ![a] = Resting]
      /\ UNCHANGED <<db, born, reader>>
      /\ Dels(a) \subseteq Keys
  BY DEF Invalidate, InvalidateFails, Dels
<1>2. TypeOK'
  <2>1. /\ cache' \in [Keys -> Shown \cup {Miss}]
        /\ \A k \in Keys : cache'[k] \in {cache[k], Miss}
    BY <1>1 DEF TypeOK, Del
  <2>2. \A r \in Rooms : cache'[<<"enter", r>>] # Nothing
    BY <2>1, LiveRoomAssumption DEF TypeOK, Keys
  <2>3. (lost \subseteq Keys /\ overlapped \subseteq Keys)'
    BY <1>1 DEF TypeOK, Invalidate, InvalidateFails, Exposed
  <2> QED
    BY <1>1, <2>1, <2>2, <2>3 DEF TypeOK
<1>3. \A b \in Admins \ {a} : Dels(b)' = Dels(b)
  BY <1>1 DEF TypeOK, Dels
<1>4. \A k \in Keys \ Dels(a) : Excused(k) => Excused(k)'
  BY <1>3 DEF Excused, Pending, Invalidate, InvalidateFails
<1>5. \A k \in Keys : cache'[k] \in {cache[k], Miss}
  BY <1>1 DEF TypeOK, Del
<1>6. \A u \in Readers : \A k : Filling(u, k)' <=> Filling(u, k)
  BY <1>1 DEF Filling
<1>7. \A k \in Dels(a) :
         \/ Excused(k)'
         \/ cache'[k] = Miss /\ \A u \in Readers : ~Filling(u, k)
  BY <1>1, <1>5 DEF Excused, Invalidate, InvalidateFails, Del, Exposed, FillUnderWay
<1>8. FreshUnlessExposed'
  BY <1>1, <1>4, <1>5, <1>7 DEF FreshUnlessExposed, Fresh, Current
<1>9. LoadedInv'
  BY <1>1, <1>4, <1>6, <1>7 DEF LoadedInv, Current
<1>10. PageInv'
  BY <1>1, <1>6 DEF PageInv
<1>11. UnbornInv'
  BY <1>1, <1>5, <1>6, LiveRoomAssumption DEF UnbornInv, TypeOK, Resting, Keys
<1> QED
  BY <1>2, <1>8, <1>9, <1>10, <1>11

(* A request that fails puts nothing into a cache.                          *)
LEMMA ReaderFailsFresh ==
  ASSUME FreshInv, NEW u \in Readers, ReaderFails(u)
  PROVE  FreshInv'
<1> USE DEF FreshInv
<1>1. TypeOK'
  BY DEF TypeOK, ReaderFails
<1>2. \A v \in Readers : \A q : Filling(v, q)' => Filling(v, q) /\ reader'[v] = reader[v]
  BY DEF TypeOK, ReaderFails, Filling, Idle
<1>3. FreshUnlessExposed'
  BY SameExcuses DEF ReaderFails, FreshUnlessExposed, Fresh, Current
<1>4. LoadedInv'
  BY <1>2, SameExcuses DEF ReaderFails, LoadedInv, Current
<1>5. PageInv' /\ UnbornInv'
  BY <1>2 DEF ReaderFails, PageInv, UnbornInv
<1> QED
  BY <1>1, <1>3, <1>4, <1>5

(* A crash turns the deletions that were to come into lost ones.            *)
LEMMA CrashFresh ==
  ASSUME FreshInv, ApiCrash
  PROVE  FreshInv'
<1> USE DEF FreshInv
<1>1. TypeOK'
  BY DEF TypeOK, ApiCrash, Exposed
<1>2. \A u \in Readers : \A k : ~Filling(u, k)'
  BY DEF ApiCrash, Filling, Idle
<1>3. \A k \in Keys : cache[k] # Miss /\ Excused(k) => Excused(k)'
  BY DEF ApiCrash, Excused, Exposed
<1>4. FreshUnlessExposed'
  BY <1>3 DEF ApiCrash, FreshUnlessExposed, Fresh, Current
<1>5. LoadedInv' /\ PageInv'
  BY <1>2 DEF LoadedInv, PageInv, Keys
<1>6. UnbornInv'
  BY <1>2, LiveRoomAssumption DEF ApiCrash, UnbornInv, Resting
<1> QED
  BY <1>1, <1>4, <1>5, <1>6

(* An expired key is empty; its excuses go only if nothing is on its way.   *)
LEMMA ExpireFresh ==
  ASSUME FreshInv, NEW k \in Keys, Expire(k)
  PROVE  FreshInv'
<1> USE DEF FreshInv
<1>1. TypeOK'
  BY LiveRoomAssumption DEF TypeOK, Expire, Shown, Keys
<1>2. \A q : Pending(q)' <=> Pending(q)
  BY DEF Expire, Pending, Dels
<1>3. \A u \in Readers : \A q : Filling(u, q)' <=> Filling(u, q)
  BY DEF Expire, Filling
<1>4. \A q \in Keys : Excused(q) /\ (q # k \/ FillUnderWay(k)) => Excused(q)'
  BY <1>2 DEF Expire, Excused
<1>5. FreshUnlessExposed'
  BY <1>4 DEF TypeOK, Expire, FreshUnlessExposed, Fresh, Current
<1>6. LoadedInv'
  BY <1>3, <1>4 DEF Expire, LoadedInv, Current, FillUnderWay
<1>7. PageInv'
  BY <1>3 DEF Expire, PageInv
<1>8. UnbornInv'
  BY <1>3 DEF Expire, UnbornInv, TypeOK, Keys
<1> QED
  BY <1>1, <1>5, <1>6, <1>7, <1>8

(* Every reachable state satisfies the invariant.                           *)
THEOREM FreshInvariance == Spec => []FreshInv
<1>1. FreshInv /\ [Next]_vars => FreshInv'
  <2> SUFFICES ASSUME FreshInv, [Next]_vars PROVE FreshInv'
    OBVIOUS
  <2>1. CASE \E u \in Readers : Read(u)
    BY <2>1, GetMissFresh, LoadFresh, FillFresh DEF Read
  <2>2. CASE \E a \in Admins : Write(a)
    BY <2>2, CreateFresh, SaveFresh, BetweenFresh, EndFresh DEF Write
  <2>3. CASE \E k \in Keys : Expire(k)
    BY <2>3, ExpireFresh
  <2>4. CASE Fault
    BY <2>4, BetweenFresh, EndFresh, ReaderFailsFresh, CrashFresh DEF Fault
  <2>5. CASE UNCHANGED vars
    <3>1. \A k : Excused(k)' <=> Excused(k)
      BY <2>5, SameExcuses DEF vars
    <3> QED
      BY <2>5, <3>1 DEF vars, FreshInv, TypeOK, FreshUnlessExposed, LoadedInv, PageInv,
         UnbornInv, Fresh, Current, Filling
  <2> QED
    BY <2>1, <2>2, <2>3, <2>4, <2>5 DEF Next
<1> QED
  BY InitFresh, <1>1, PTL DEF Spec

(* The variables keep their types; in particular the page of a missing room *)
(* is never in the cache, whatever is removed while it is being loaded.     *)
THEOREM CacheTypeCorrect == Spec => []TypeOK
  BY FreshInvariance, PTL DEF FreshInv

(* A cache is wrong only while a DEL is still to come, after a lost DEL, or *)
(* after a DEL that overtook a fill: for any number of users and            *)
(* administrators of a room.                                                *)
THEOREM StaleIsExcused == Spec => []FreshUnlessExposed
  BY FreshInvariance, PTL DEF FreshInv
=============================================================================
