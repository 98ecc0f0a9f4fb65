--------------------------- MODULE LiveRoomCache ---------------------------
(***************************************************************************)
(* Live rooms and the two Redis caches in front of them: the list of an    *)
(* invitation code ("public") and the page of a room ("enter").  Users     *)
(* fill the caches (look aside), administrators write MySQL and then delete *)
(* the keys, and a time to live is the safety net.  A code belongs to one  *)
(* room for life, so both keys are named by the room.  A transaction of    *)
(* MySQL and a command of Redis are one action each.                       *)
(***************************************************************************)
EXTENDS Integers

CONSTANTS
    Rooms, Contents,    \* rooms ever created; what one can show
    Readers, Admins,    \* requests of users and of administrators
    Nothing, Miss,      \* no such room; no such key
    NoKey, NoRoom

Keys == {"public", "enter"} \X Rooms

ASSUME LiveRoomAssumption ==
    /\ Nothing \notin Contents
    /\ Miss \notin Contents \cup {Nothing}
    /\ NoKey \notin Keys
    /\ NoRoom \notin Rooms

VARIABLES
    db,          \* the row of a room with its scripts
    born,        \* rooms whose row was ever inserted; an id is not used twice
    cache,       \* the Redis keys
    reader,      \* requests of users between a miss and SETEX
    admin,       \* requests of administrators
    lost,        \* history: keys whose DEL was lost with something to delete
    overlapped   \* history: keys whose DEL came between a load and its SETEX

vars == <<db, born, cache, reader, admin, lost, overlapped>>

Shown == Contents \cup {Nothing}
Idle == [at |-> "idle", key |-> NoKey, got |-> Nothing]
Resting == [at |-> "idle", room |-> NoRoom]

(* Types.  An empty list is cached for a code without a room, but the page  *)
(* of a missing room is a 404 and never cached.                             *)
TypeOK ==
    /\ db \in [Rooms -> Shown]
    /\ born \subseteq Rooms
    /\ cache \in [Keys -> Shown \cup {Miss}]
    /\ \A r \in Rooms : cache[<<"enter", r>>] # Nothing
    /\ reader \in [Readers -> {Idle} \cup
                     [at : {"loading", "filling"}, key : Keys, got : Shown]]
    /\ admin \in [Admins -> {Resting} \cup
                    [at : {"updating", "removing", "created", "saved"}, room : Rooms]]
    /\ lost \subseteq Keys /\ overlapped \subseteq Keys

Init ==
    /\ db = [r \in Rooms |-> Nothing]
    /\ born = {}
    /\ cache = [k \in Keys |-> Miss]
    /\ reader = [u \in Readers |-> Idle]
    /\ admin = [a \in Admins |-> Resting]
    /\ lost = {} /\ overlapped = {}

(* What a fill of the key would put into it now.                            *)
Current(k) == db[k[2]]
Filling(u, k) == reader[u].at = "filling" /\ reader[u].key = k
FillUnderWay(k) == \E u \in Readers : Filling(u, k)

----------------------------------------------------------------------------
(* listPublic and enter.  A hit is answered at once and changes nothing.    *)

GetMiss(u, k) ==
    /\ reader[u] = Idle
    /\ cache[k] = Miss
    /\ reader' = [reader EXCEPT ![u] = [at |-> "loading", key |-> k, got |-> Nothing]]
    /\ UNCHANGED <<db, born, cache, admin, lost, overlapped>>

Load(u) ==
    /\ reader[u].at = "loading"
    /\ reader' = [reader EXCEPT ![u] =
          IF @.key[1] = "enter" /\ Current(@.key) = Nothing
            THEN Idle                    \* NotFoundException
            ELSE [at |-> "filling", key |-> @.key, got |-> Current(@.key)]]
    /\ UNCHANGED <<db, born, cache, admin, lost, overlapped>>

Fill(u) ==
    /\ reader[u].at = "filling"
    /\ cache' = [cache EXCEPT ![reader[u].key] = reader[u].got]
    /\ reader' = [reader EXCEPT ![u] = Idle]
    /\ UNCHANGED <<db, born, admin, lost, overlapped>>

----------------------------------------------------------------------------
(* create, update and remove.                                               *)

Create(a, r, c) ==
    /\ admin[a] = Resting
    /\ r \notin born
    /\ db' = [db EXCEPT ![r] = c]
    /\ born' = born \cup {r}
    /\ admin' = [admin EXCEPT ![a] = [at |-> "created", room |-> r]]
    /\ UNCHANGED <<cache, reader, lost, overlapped>>

FindRoom(a, r, step) ==
    /\ admin[a] = Resting
    /\ db[r] # Nothing
    /\ admin' = [admin EXCEPT ![a] = [at |-> step, room |-> r]]
    /\ UNCHANGED <<db, born, cache, reader, lost, overlapped>>

(* save(room) inserts the room again when it was removed meanwhile.         *)
CommitUpdate(a, c) ==
    /\ admin[a].at = "updating"
    /\ db' = [db EXCEPT ![admin[a].room] = c]
    /\ admin' = [admin EXCEPT ![a].at = "saved"]
    /\ UNCHANGED <<born, cache, reader, lost, overlapped>>

RemoveRoom(a) ==
    /\ admin[a].at = "removing"
    /\ db' = [db EXCEPT ![admin[a].room] = Nothing]
    /\ admin' = [admin EXCEPT ![a].at = "saved"]
    /\ UNCHANGED <<born, cache, reader, lost, overlapped>>

(* A write is rejected (no script is left after trimming) or rolled back.   *)
WriteFails(a) ==
    /\ admin[a].at \in {"updating", "removing"}
    /\ admin' = [admin EXCEPT ![a] = Resting]
    /\ UNCHANGED <<db, born, cache, reader, lost, overlapped>>

(* Mutant: the list is forgotten.                                           *)
DelsEnterOnly(a) ==
    { k \in Keys : /\ admin[a].at \in {"created", "saved"} /\ k[2] = admin[a].room
                   /\ k[1] = "enter" }

(* invalidatePublic after create, invalidateOnWrite after the others.       *)
Dels(a) ==
    { k \in Keys : /\ admin[a].at \in {"created", "saved"} /\ k[2] = admin[a].room
                   /\ admin[a].at = "created" => k[1] = "public" }
Pending(k) == \E a \in Admins : k \in Dels(a)

Del(ks) == [k \in Keys |-> IF k \in ks THEN Miss ELSE cache[k]]

Invalidate(a) ==
    /\ admin[a].at \in {"created", "saved"}
    /\ cache' = Del(Dels(a))
    /\ admin' = [admin EXCEPT ![a] = Resting]
    /\ lost' = lost \ Dels(a)
    /\ overlapped' = (overlapped \ Dels(a)) \cup {k \in Dels(a) : FillUnderWay(k)}
    /\ UNCHANGED <<db, born, reader>>

----------------------------------------------------------------------------
(* Faults, and the safety net.                                              *)

(* There is something a lost DEL should have deleted, or will be.           *)
Exposed(ks) == { k \in ks : cache[k] # Miss \/ FillUnderWay(k) }

(* DEL raises, before or after Redis carried it out: the row stays written. *)
InvalidateFails(a) ==
    /\ admin[a].at \in {"created", "saved"}
    /\ cache' \in {cache, Del(Dels(a))}
    /\ admin' = [admin EXCEPT ![a] = Resting]
    /\ lost' = lost \cup Exposed(Dels(a))
    /\ UNCHANGED <<db, born, reader, overlapped>>

ReaderFails(u) ==
    /\ reader[u] # Idle
    /\ reader' = [reader EXCEPT ![u] = Idle]
    /\ UNCHANGED <<db, born, cache, admin, lost, overlapped>>

(* The API process dies with all requests, between any two of their steps.  *)
ApiCrash ==
    /\ reader' = [u \in Readers |-> Idle]
    /\ admin' = [a \in Admins |-> Resting]
    /\ lost' = lost \cup Exposed({k \in Keys : Pending(k)})
    /\ UNCHANGED <<db, born, cache, overlapped>>

(* Mutant: SET without EX.                                                  *)
ExpireNever(k) == cache[k] = Miss /\ UNCHANGED vars

(* SAFETY_TTL_SEC passes.                                                   *)
Expire(k) ==
    /\ cache[k] # Miss
    /\ cache' = [cache EXCEPT ![k] = Miss]
    /\ IF FillUnderWay(k)
         THEN UNCHANGED <<lost, overlapped>>
         ELSE lost' = lost \ {k} /\ overlapped' = overlapped \ {k}
    /\ UNCHANGED <<db, born, reader, admin>>

----------------------------------------------------------------------------
Read(u) == (\E k \in Keys : GetMiss(u, k)) \/ Load(u) \/ Fill(u)

Write(a) ==
    \/ \E r \in Rooms, c \in Contents : Create(a, r, c)
    \/ \E r \in Rooms, step \in {"updating", "removing"} : FindRoom(a, r, step)
    \/ \E c \in Contents : CommitUpdate(a, c)
    \/ RemoveRoom(a) \/ Invalidate(a)

Fault ==
    \/ \E a \in Admins : WriteFails(a) \/ InvalidateFails(a)
    \/ \E u \in Readers : ReaderFails(u)
    \/ ApiCrash

Next ==
    \/ \E u \in Readers : Read(u)
    \/ \E a \in Admins : Write(a)
    \/ \E k \in Keys : Expire(k)
    \/ Fault

Spec == Init /\ [][Next]_vars

(* Handlers of users go on, and Redis expires keys.                         *)
Fairness ==
    /\ \A u \in Readers : WF_vars(Load(u) \/ Fill(u))
    /\ \A k \in Keys : WF_vars(Expire(k))

FairSpec == Spec /\ Fairness

----------------------------------------------------------------------------
Fresh(k) == cache[k] \in {Miss, Current(k)}
Excused(k) == Pending(k) \/ k \in lost \cup overlapped

(* A cache is wrong only while a DEL is still to come, or after one of two  *)
(* accidents: the DEL was lost, or it overtook the SETEX of a user's        *)
(* request that had read the room before.  Both are over with the next      *)
(* undisturbed DEL or expiry; update and remove of the same room by two     *)
(* administrators, and a removed room that an update inserts again, add no  *)
(* third way.                                                               *)
FreshUnlessExposed == \A k \in Keys : Fresh(k) \/ Excused(k)

(* live-room-cache.service.ts:13: the time to live rules out stale data for *)
(* ever.  Once administrators have done their work, every cache becomes and *)
(* stays right, whatever DELs were lost and however users go on reading.    *)
EventuallyFresh ==
    <>[](\A a \in Admins : admin[a] = Resting) => <>[](\A k \in Keys : Fresh(k))

(* The inductive invariant: the same holds of what a request has loaded,    *)
(* the page of a missing room is not on its way to the cache, and of a room *)
(* that was never inserted there is nothing to invalidate.                  *)
LoadedInv ==
    \A u \in Readers, k \in Keys :
        Filling(u, k) => reader[u].got = Current(k) \/ Excused(k)

PageInv ==
    \A u \in Readers, r \in Rooms :
        Filling(u, <<"enter", r>>) => reader[u].got # Nothing

UnbornInv ==
    \A r \in Rooms \ born :
        /\ db[r] = Nothing
        /\ cache[<<"enter", r>>] = Miss
        /\ \A u \in Readers : ~Filling(u, <<"enter", r>>)
        /\ \A a \in Admins : admin[a].room # r

FreshInv == TypeOK /\ FreshUnlessExposed /\ LoadedInv /\ PageInv /\ UnbornInv

=============================================================================
