--------------------------- MODULE GpuSlotProofs ---------------------------
(* The GPU lock excludes, for any number of jobs, any memory and any fault, *)
(* until some job outlasts its lock or a DEL is repeated.                   *)
EXTENDS GpuSlot, TLAPS

USE DEF Steps, RedisSteps, Leased, Left

(* A step of one job keeps the leases of the others if it touches no lock   *)
(* but its own or a free one.                                               *)
LEMMA OneJobStep ==
    ASSUME SlotInv, TypeOK', NEW j \in Jobs,
           \A i \in Jobs : i # j => pc'[i] = pc[i] /\ (i \in using' => i \in using),
           Sure' => Sure,
           Sure => lock' = lock \/ lock \in {j, NoJob},
           Sure => Backed(j)',
           stopped \subseteq stopped'
    PROVE  SlotInv'
  <1>1. ASSUME Sure, NEW i \in Jobs, i # j  PROVE Backed(i)'
    <2>1. Backed(i)
      BY <1>1 DEF SlotInv
    <2>2. pc'[i] = pc[i] /\ (i \in using' => i \in using)
      BY <1>1
    <2>3. lock = i => lock' = i
      BY <1>1, GpuSlotAssumption
    <2>4. i \in using' \ stopped' => i \in using \ stopped
      BY <2>2
    <2> QED  BY <2>1, <2>2, <2>3, <2>4 DEF Backed
  <1> QED  BY <1>1 DEF SlotInv

(* No job holds the slot at first.                                          *)
LEMMA InitSlot == Init => SlotInv
  <1> SUFFICES ASSUME Init  PROVE SlotInv
    OBVIOUS
  <1>0. repeats \in 0..MaxRepeats
    BY GpuSlotAssumption DEF Init
  <1>1. TypeOK
    BY <1>0 DEF Init, TypeOK
  <1>2. \A j \in Jobs : Backed(j)
    BY DEF Init, Backed
  <1> QED  BY <1>1, <1>2 DEF SlotInv

(* The type of every variable survives every step.                          *)
LEMMA TypeStep ==
    ASSUME TypeOK, Next  PROVE TypeOK'
  <1> USE DEF TypeOK, Goto, histVars
  <1> USE DEF gpuVars
  <1>0. CASE \E m \in Models : LoadBeside(m) \/ Restart(m)
    BY <1>0 DEF LoadBeside, Restart
  <1> SUFFICES ASSUME NEW j \in Jobs, JobStep(j)  PROVE TypeOK'
    BY <1>0 DEF Next
  <1>1. CASE Ask(j) \/ Run(j) \/ Finish(j)
    BY <1>1 DEF Ask, Run, Finish, KeptBy, Models
  <1>2. CASE Acquire(j)
    <2>1. CASE SetNx(j) \/ Check(j) \/ Evict(j) \/ Recheck(j) \/ BackOff(j)
      BY <2>1 DEF SetNx, Check, Evict, Recheck, BackOff
    <2>2. CASE Wake(j) \/ Wait(j)
      BY <2>2 DEF Wake, Wait
    <2> QED  BY <1>2, <2>1, <2>2 DEF Acquire
  <1>3. CASE Release(j)
    BY <1>3 DEF Release, Get, Delete, Notify
  <1>4. CASE LeaveGpu(j) \/ Expire(j)
    BY <1>4 DEF LeaveGpu, Expire
  <1>5. CASE EvictFails(j) \/ CheckBlind(j) \/ Crash(j) \/ Stop(j)
    BY <1>5 DEF EvictFails, CheckBlind, Crash, Stop
  <1>6. CASE RedisFails(j) \/ Repeat(j)
    BY <1>6, GpuSlotAssumption DEF RedisFails, Repeat, LockAfter, SignalsAfter
  <1> QED  BY <1>1, <1>2, <1>3, <1>4, <1>5, <1>6 DEF JobStep, Fault

(* Every step keeps the leases backed by the lock.                          *)
LEMMA NextSlot ==
    ASSUME SlotInv, [Next]_vars  PROVE SlotInv'
  <1>1. CASE UNCHANGED vars
    BY <1>1 DEF SlotInv, TypeOK, Backed, Sure, vars, gpuVars, histVars
  <1>2. CASE Next
    <2> USE DEF Goto, gpuVars, histVars, Sure
    <2>1. TypeOK /\ TypeOK'
      BY <1>2, TypeStep DEF SlotInv
    <2>2. CASE \E m \in Models : LoadBeside(m) \/ Restart(m)
      BY <2>1, <2>2 DEF LoadBeside, Restart, SlotInv, Backed
    <2> SUFFICES ASSUME NEW j \in Jobs, JobStep(j)  PROVE SlotInv'
      BY <1>2, <2>2 DEF Next
    <2>3. Sure => Backed(j)
      BY DEF SlotInv
    <2>4. CASE Ask(j) \/ Run(j) \/ Finish(j)
      BY <2>1, <2>3, <2>4, OneJobStep DEF Ask, Run, Finish, Backed, TypeOK
    <2>5. CASE SetNx(j)
      BY <2>1, <2>3, <2>5, OneJobStep DEF SetNx, Backed, TypeOK
    <2>6. CASE Check(j) \/ Evict(j) \/ Recheck(j) \/ EvictFails(j) \/ CheckBlind(j)
      BY <2>1, <2>3, <2>6, OneJobStep
         DEF Check, Evict, Recheck, EvictFails, CheckBlind, Backed, TypeOK
    <2>7. CASE BackOff(j) \/ Wake(j) \/ Wait(j)
      BY <2>1, <2>3, <2>7, OneJobStep DEF BackOff, Wake, Wait, Backed, TypeOK
    <2>8. CASE Release(j)
      BY <2>1, <2>3, <2>8, OneJobStep DEF Release, Get, Delete, Notify, Backed, TypeOK
    <2>9. CASE RedisFails(j)
      BY <2>1, <2>3, <2>9, OneJobStep DEF RedisFails, LockAfter, Backed, TypeOK
    <2>10. CASE Crash(j) \/ Stop(j) \/ LeaveGpu(j)
      BY <2>1, <2>3, <2>10, OneJobStep DEF Crash, Stop, LeaveGpu, Backed, TypeOK
    <2>11. CASE Expire(j)
      <3>1. CASE overran' = {}
        BY <2>1, <2>3, <2>11, <3>1, OneJobStep DEF Expire, Backed, TypeOK, Sure
      <3> QED  BY <2>1, <3>1 DEF SlotInv
    <2>12. CASE Repeat(j)
      <3>1. CASE Sure'
        BY <2>1, <2>3, <2>12, <3>1, OneJobStep DEF Repeat, LockAfter, Backed, TypeOK
      <3> QED  BY <2>1, <3>1 DEF SlotInv
    <2> QED
      BY <2>4, <2>5, <2>6, <2>7, <2>8, <2>9, <2>10, <2>11, <2>12
         DEF JobStep, Acquire, Fault
  <1> QED  BY <1>1, <1>2

(* The inductive invariant of the slot: until a job outlasts its lock or a  *)
(* DEL is repeated, whoever was granted the slot has its token in Redis.    *)
THEOREM SlotInvariance == Spec => []SlotInv
  BY InitSlot, NextSlot, PTL DEF Spec

(* Every variable of the GPU slot keeps its type.                           *)
THEOREM SlotTypeCorrect == Spec => []TypeOK
  BY SlotInvariance, PTL DEF SlotInv

(* Mutual exclusion on the GPU, up to stopped workers, expired locks and    *)
(* repeated DELs.                                                           *)
THEOREM Exclusion == Spec => []ExclusiveUse
  <1>1. SlotInv => ExclusiveUse
    BY DEF SlotInv, TypeOK, Backed, ExclusiveUse, Sure
  <1> QED  BY <1>1, SlotInvariance, PTL

(* The blind DEL of the back-off and the unguarded one of the release only  *)
(* ever remove the lock of the job that issues them, as long as no job      *)
(* outlasted its lock and no DEL was carried out twice.                     *)
THEOREM OwnLockOnly == Spec => DeletesOwnLock
  <1>1. SlotInv /\ [Next]_vars =>
          [Sure' => \A j \in Jobs : lock = j /\ lock' # j
             => pc[j] \in {"backingOff", "deleting", "setting", "waiting"} \cup Left]_vars
    <2> SUFFICES ASSUME SlotInv, Next, Sure',
                        NEW j \in Jobs, lock = j, lock' # j
                 PROVE  pc[j] \in {"backingOff", "deleting", "setting", "waiting"} \cup Left
      OBVIOUS
    <2> USE DEF Goto, gpuVars, histVars, Sure
    <2>1. PICK i \in Jobs : JobStep(i)
      BY DEF Next, LoadBeside, Restart
    <2>2. Sure => Backed(i)
      BY DEF SlotInv
    <2>3. CASE Ask(i) \/ Run(i) \/ Finish(i) \/ LeaveGpu(i)
      BY <2>3 DEF Ask, Run, Finish, LeaveGpu
    <2>4. CASE Acquire(i)
      BY <2>2, <2>4, GpuSlotAssumption
         DEF Acquire, SetNx, Check, Evict, Recheck, BackOff, Wake, Wait, Backed
    <2>5. CASE Release(i)
      BY <2>2, <2>5 DEF Release, Get, Delete, Notify, Backed
    <2>6. CASE Fault(i)
      BY <2>2, <2>6, GpuSlotAssumption
         DEF Fault, EvictFails, CheckBlind, RedisFails, Repeat, LockAfter, Crash, Stop, Backed
    <2>7. CASE Expire(i)
      BY <2>7 DEF Expire
    <2> QED  BY <2>1, <2>3, <2>4, <2>5, <2>6, <2>7 DEF JobStep
  <1> QED  BY <1>1, SlotInvariance, PTL DEF Spec, DeletesOwnLock

(* No eviction of the resident model while a LatentSync job computes.       *)
THEOREM EvictionIsIdle == Spec => EvictsIdleModel
  <1>1. SlotInv /\ [Next]_vars =>
          [Sure /\ stopped = {} /\ resident /\ ~resident'
             => using \cap LatentJobs = {}]_vars
    <2> SUFFICES ASSUME SlotInv, Next, Sure, stopped = {}, resident, ~resident'
                 PROVE  using = {}
      OBVIOUS
    <2>1. PICK i \in Jobs : Evict(i)
      BY DEF Next, JobStep, Ask, Acquire, SetNx, Check, Recheck, BackOff, Wake, Wait, Run,
             Finish, Release, Get, Delete, Notify, LeaveGpu, Expire, Fault, EvictFails,
             CheckBlind, RedisFails, Repeat, Crash, Stop, LoadBeside, Restart, gpuVars
    <2>2. pc[i] = "evicting" /\ Backed(i)
      BY <2>1 DEF Evict, Goto, SlotInv
    <2>3. \A j \in using : Backed(j)
      BY DEF SlotInv, TypeOK
    <2> QED  BY <2>2, <2>3 DEF Backed
  <1> QED  BY <1>1, SlotInvariance, PTL DEF Spec, EvictsIdleModel

----------------------------------------------------------------------------
(* The memory of the card.  At most one job computes at a time, so the sums *)
(* of Reserved are those of no job and of one.  tts says whether IndexTTS2  *)
(* is held by a worker that looked at the memory before it was loaded.      *)
HeldTts == "indextts2" \in kept \ Unreserved

ReservedBy(jobs, model, tts) ==
    Total(jobs)
    + (IF model /\ jobs \cap LatentJobs = {} THEN ResidentSize ELSE 0)
    + (IF tts /\ jobs \cap InProcess = {} THEN ModelSize["indextts2"] ELSE 0)

(* Nobody needs nothing.                                                    *)
LEMMA TotalNone == Total({}) = 0
  <1> DEFINE body(f) == [s \in SUBSET {} |-> IF s = {} THEN 0
                           ELSE LET x == CHOOSE x \in s : TRUE
                                IN  Need[x] + f[s \ {x}]]
             iter == CHOOSE f : f = body(f)
             zero == [s \in SUBSET {} |-> 0]
  <1>1. Total({}) = iter[{}]
    BY DEF Total, MapThenSumSet, MapThenFoldSet
  <1>2. zero = body(zero)
    OBVIOUS
  <1>3. iter = body(iter)
    <2> HIDE DEF zero, body
    <2> QED  BY <1>2
  <1>4. iter[{}] = 0
    <2> HIDE DEF iter
    <2> QED  BY <1>3
  <1> QED  BY <1>1, <1>4

(* One job needs what it needs.                                             *)
LEMMA TotalOne ==
    ASSUME NEW i \in Jobs  PROVE Total({i}) = Need[i]
  <1> DEFINE body(f) == [s \in SUBSET {i} |-> IF s = {} THEN 0
                           ELSE LET x == CHOOSE x \in s : TRUE
                                IN  Need[x] + f[s \ {x}]]
             iter == CHOOSE f : f = body(f)
             need == [s \in SUBSET {i} |-> IF s = {} THEN 0 ELSE Need[i]]
  <1>1. Total({i}) = iter[{i}]
    BY DEF Total, MapThenSumSet, MapThenFoldSet
  <1>2. need = body(need)
    <2>1. ASSUME NEW s \in SUBSET {i}, s # {}  PROVE body(need)[s] = need[s]
      <3>1. s = {i} /\ (CHOOSE x \in s : TRUE) = i
        BY <2>1
      <3>2. need[{}] = 0 /\ Need[i] + 0 = Need[i]
        BY GpuSlotAssumption
      <3>3. s \ {i} = {}
        BY <3>1
      <3>4. body(need)[s] = Need[i] + need[s \ {i}]
        BY <3>1
      <3> QED  BY <3>1, <3>2, <3>3, <3>4
    <2> QED  BY <2>1
  <1>3. iter = body(iter)
    <2> HIDE DEF need, body
    <2> QED  BY <1>2
  <1>4. iter[{i}] = Need[i]
    <2> HIDE DEF iter
    <2>1. iter[{}] = 0
      BY <1>3
    <2>2. (CHOOSE x \in {i} : TRUE) = i /\ {i} \ {i} = {} /\ Need[i] + 0 = Need[i]
      BY GpuSlotAssumption
    <2>3. iter[{i}] = Need[i] + iter[{}]
      BY <1>3, <2>2
    <2> QED  BY <2>1, <2>2, <2>3
  <1> QED  BY <1>1, <1>4

(* What is reserved with no job, and with one.                              *)
LEMMA ReservedFacts ==
    /\ Reserved = ReservedBy(using, resident, HeldTts)
    /\ Reserved' = ReservedBy(using', resident', HeldTts')
    /\ \A model, tts \in BOOLEAN :
          ReservedBy({}, model, tts) =
            (IF model THEN ResidentSize ELSE 0) + (IF tts THEN ModelSize["indextts2"] ELSE 0)
    /\ \A i \in Jobs, model, tts \in BOOLEAN :
          ReservedBy({i}, model, tts) =
            Need[i] + (IF model /\ i \notin LatentJobs THEN ResidentSize ELSE 0)
                    + (IF tts /\ i \notin InProcess THEN ModelSize["indextts2"] ELSE 0)
  <1>1. Reserved = ReservedBy(using, resident, HeldTts)
        /\ Reserved' = ReservedBy(using', resident', HeldTts')
    BY DEF Reserved, ReservedBy, HeldTts, OnCard
  <1>2. ASSUME NEW model \in BOOLEAN, NEW tts \in BOOLEAN
        PROVE  ReservedBy({}, model, tts) =
            (IF model THEN ResidentSize ELSE 0) + (IF tts THEN ModelSize["indextts2"] ELSE 0)
    <2>1. ResidentSize \in Nat /\ ModelSize["indextts2"] \in Nat
      BY GpuSlotAssumption DEF Models
    <2>2. {} \cap LatentJobs = {} /\ {} \cap InProcess = {}
      OBVIOUS
    <2> QED  BY <2>1, <2>2, TotalNone DEF ReservedBy
  <1>3. ASSUME NEW i \in Jobs, NEW model \in BOOLEAN, NEW tts \in BOOLEAN
        PROVE  ReservedBy({i}, model, tts) =
                 Need[i] + (IF model /\ i \notin LatentJobs THEN ResidentSize ELSE 0)
                         + (IF tts /\ i \notin InProcess THEN ModelSize["indextts2"] ELSE 0)
    <2>1. /\ {i} \cap LatentJobs = {} <=> i \notin LatentJobs
          /\ {i} \cap InProcess = {} <=> i \notin InProcess
      OBVIOUS
    <2> QED  BY <2>1, TotalOne DEF ReservedBy
  <1> QED  BY <1>1, <1>2, <1>3

(* While nobody was stopped or overran, one job computes, and none while    *)
(* another holds a fresh lease.                                             *)
LEMMA OneUser ==
    ASSUME SlotInv, Guarded
    PROVE  /\ using = {} \/ \E i \in Jobs : using = {i}
           /\ \A j \in Jobs : pc[j] \in {"granted", "evicting"} =>
                 using = {} /\ \A i \in Jobs : pc[i] = "granted" => i = j
  <1>1. \A j \in Jobs : Backed(j)
    BY DEF SlotInv, Guarded
  <1>2. using \subseteq Jobs /\ stopped = {}
    BY DEF SlotInv, TypeOK, Guarded
  <1>3. \A i \in using : lock = i /\ pc[i] \in {"running"} \cup Left
    BY <1>1, <1>2 DEF Backed
  <1>4. using = {} \/ \E i \in Jobs : using = {i}
    BY <1>2, <1>3
  <1>5. \A j \in Jobs : pc[j] \in {"granted", "evicting"} => lock = j
    BY <1>1 DEF Backed
  <1> QED  BY <1>2, <1>3, <1>4, <1>5

(* What is reserved is an integer.                                          *)
LEMMA ReservedType ==
    ASSUME SlotInv, Guarded  PROVE Reserved \in Int
  <1>1. using = {} \/ \E i \in Jobs : using = {i}
    BY OneUser
  <1>2. resident \in BOOLEAN /\ HeldTts \in BOOLEAN
    BY DEF SlotInv, TypeOK, HeldTts
  <1>3. /\ ResidentSize \in Nat /\ ModelSize["indextts2"] \in Nat
        /\ \A i \in Jobs : Need[i] \in Nat
    BY GpuSlotAssumption DEF Models
  <1>4. CASE using = {}
    BY <1>2, <1>3, <1>4, ReservedFacts
  <1>5. ASSUME NEW i \in Jobs, using = {i}  PROVE Reserved \in Int
    <2>1. Reserved = Need[i] + (IF resident /\ i \notin LatentJobs THEN ResidentSize ELSE 0)
                   + (IF HeldTts /\ i \notin InProcess THEN ModelSize["indextts2"] ELSE 0)
      BY <1>2, <1>5, ReservedFacts
    <2> QED  BY <1>3, <2>1
  <1> QED  BY <1>1, <1>4, <1>5

(* Whatever leaves the card, what stays was part of what was reserved: a    *)
(* job that ends leaves no more behind than the model it ran.               *)
LEMMA ReservedShrinks ==
    ASSUME SlotInv, SlotInv', Guarded, using' \in {using, {}},
           resident' => resident, HeldTts' => HeldTts
    PROVE  Reserved' <= Reserved /\ Reserved \in Int
  <1>1. /\ resident \in BOOLEAN /\ resident' \in BOOLEAN
        /\ HeldTts \in BOOLEAN /\ HeldTts' \in BOOLEAN
    BY DEF SlotInv, TypeOK, HeldTts
  <1>2. ResidentSize \in Nat /\ ModelSize["indextts2"] \in Nat
    BY GpuSlotAssumption DEF Models
  <1>3. CASE using = {}
    <2>1. using' = {}
      BY <1>3
    <2> QED  BY <1>1, <1>2, <1>3, <2>1, ReservedFacts
  <1>4. ASSUME NEW i \in Jobs, using = {i}  PROVE Reserved' <= Reserved /\ Reserved \in Int
    <2>1. /\ Need[i] \in Nat
          /\ i \in LatentJobs => ResidentSize <= Need[i]
          /\ i \in InProcess => ModelSize["indextts2"] <= Need[i]
      BY GpuSlotAssumption
    <2>2. i \notin LatentJobs \/ i \notin InProcess
      BY GpuSlotAssumption
    <2>3. Reserved = Need[i] + (IF resident /\ i \notin LatentJobs THEN ResidentSize ELSE 0)
                   + (IF HeldTts /\ i \notin InProcess THEN ModelSize["indextts2"] ELSE 0)
      BY <1>1, <1>4, ReservedFacts
    <2>4. CASE using' = {}
      <3>1. Reserved' = (IF resident' THEN ResidentSize ELSE 0)
                        + (IF HeldTts' THEN ModelSize["indextts2"] ELSE 0)
        BY <1>1, <2>4, ReservedFacts
      <3> QED  BY <1>1, <1>2, <2>1, <2>2, <2>3, <3>1
    <2>5. CASE using' = {i}
      <3>1. Reserved' = Need[i]
                 + (IF resident' /\ i \notin LatentJobs THEN ResidentSize ELSE 0)
                 + (IF HeldTts' /\ i \notin InProcess THEN ModelSize["indextts2"] ELSE 0)
        BY <1>1, <2>5, ReservedFacts
      <3> QED  BY <1>1, <1>2, <2>1, <2>3, <3>1
    <2> QED  BY <1>4, <2>4, <2>5
  <1> QED  BY <1>3, <1>4, OneUser

(* A step that reserves nothing, and grants only what it saw free.          *)
LEMMA MemoryShrinks ==
    ASSUME SlotInv, SlotInv', MemoryInv, Guarded, using' \in {using, {}},
           resident' => resident, HeldTts' => HeldTts,
           \A i \in Jobs : pc'[i] = "granted" => pc[i] = "granted" \/ Enough(i)
    PROVE  MemoryInv'
  <1>1. Reserved' <= Reserved /\ Reserved \in Int
    BY ReservedShrinks
  <1>2. Reserved' \in Int
    <2>1. using' = {} \/ \E i \in Jobs : using' = {i}
      BY OneUser
    <2>2. /\ resident' \in BOOLEAN /\ HeldTts' \in BOOLEAN
          /\ ResidentSize \in Nat /\ ModelSize["indextts2"] \in Nat
          /\ \A i \in Jobs : Need[i] \in Nat
      BY GpuSlotAssumption DEF SlotInv, TypeOK, HeldTts, Models
    <2> QED  BY <2>1, <2>2, ReservedFacts
  <1>3. Capacity \in Int /\ \A i \in Jobs : Need[i] \in Int
    BY GpuSlotAssumption
  <1>4. ASSUME NEW i \in Jobs, pc'[i] = "granted"  PROVE Capacity - Reserved >= Need[i]
    <2>1. CASE pc[i] = "granted"
      BY <2>1 DEF MemoryInv
    <2>2. CASE Enough(i)
      <3>1. Beside \in Nat
        BY GpuSlotAssumption DEF Beside, OnCard, Models
      <3> QED  BY <1>1, <1>3, <2>2, <3>1 DEF Enough, Used
    <2> QED  BY <1>4, <2>1, <2>2
  <1>5. Reserved' <= Capacity
    BY <1>1, <1>2, <1>3 DEF MemoryInv
  <1>6. \A i \in Jobs : pc'[i] = "granted" => Capacity - Reserved' >= Need[i]
    BY <1>1, <1>2, <1>3, <1>4
  <1> QED  BY <1>5, <1>6 DEF MemoryInv

(* A job that was let in finds the memory it was promised.                  *)
LEMMA MemoryRun ==
    ASSUME SlotInv, SlotInv', MemoryInv, Guarded, NEW j \in Jobs, Run(j)  PROVE MemoryInv'
  <1>1. /\ pc[j] = "granted" /\ using' = using \cup {j} /\ pc' = [pc EXCEPT ![j] = "running"]
        /\ resident' = (resident \/ j \in LatentJobs) /\ kept' = KeptBy(j)
    BY DEF Run, Goto, Guarded
  <1>2. /\ resident \in BOOLEAN /\ resident' \in BOOLEAN
        /\ HeldTts \in BOOLEAN /\ HeldTts' \in BOOLEAN
    BY DEF SlotInv, TypeOK, HeldTts
  <1>3. using = {} /\ \A i \in Jobs : pc[i] = "granted" => i = j
    BY <1>1, OneUser
  <1>4. using' = {j} /\ \A i \in Jobs : pc'[i] # "granted"
    BY <1>1, <1>3 DEF SlotInv, TypeOK
  <1>5. Capacity - Reserved >= Need[j]
    BY <1>1 DEF MemoryInv
  <1>6. HeldTts' => HeldTts \/ j \in InProcess
    BY <1>1 DEF KeptBy, HeldTts, Unreserved
  <1>7. Reserved = (IF resident THEN ResidentSize ELSE 0)
                   + (IF HeldTts THEN ModelSize["indextts2"] ELSE 0)
    BY <1>2, <1>3, ReservedFacts
  <1>8. Reserved' = Need[j]
           + (IF resident' /\ j \notin LatentJobs THEN ResidentSize ELSE 0)
           + (IF HeldTts' /\ j \notin InProcess THEN ModelSize["indextts2"] ELSE 0)
    BY <1>2, <1>4, ReservedFacts
  <1>9. /\ Need[j] \in Nat /\ Capacity \in Nat /\ ResidentSize \in Nat
        /\ ModelSize["indextts2"] \in Nat
    BY GpuSlotAssumption DEF Models
  <1>10. Reserved' <= Capacity
    BY <1>1, <1>2, <1>5, <1>6, <1>7, <1>8, <1>9
  <1> QED  BY <1>4, <1>10 DEF MemoryInv

(* Every step keeps to the memory of the card.                              *)
LEMMA NextMemory ==
    ASSUME SlotInv, MemoryInv, Next  PROVE MemoryInv'
  <1> USE DEF Goto, gpuVars, histVars
  <1> SUFFICES ASSUME Guarded'  PROVE MemoryInv'
    BY DEF MemoryInv
  <1>1. SlotInv'
    BY NextSlot
  <1>2. Guarded
    <2>1. /\ overran \subseteq overran' /\ redeleted \subseteq redeleted'
          /\ stopped \subseteq stopped' /\ blind \subseteq blind'
      BY DEF Next, JobStep, Ask, Acquire, SetNx, Check, Evict, Recheck, BackOff, Wake, Wait,
             Run, Finish, Release, Get, Delete, Notify, LeaveGpu, Expire, Fault, EvictFails,
             CheckBlind, RedisFails, Repeat, Crash, Stop, LoadBeside, Restart
    <2> QED  BY <2>1 DEF Guarded, Sure
  <1>3. pc \in [Jobs -> Steps]
    BY DEF SlotInv, TypeOK
  <1>4. CASE \E m \in Models : LoadBeside(m) \/ Restart(m)
    <2>1. HeldTts' => HeldTts
      BY <1>4 DEF LoadBeside, Restart, HeldTts, Unreserved
    <2>2. UNCHANGED <<pc, using, resident>>
      BY <1>4 DEF LoadBeside, Restart
    <2> QED  BY <1>1, <1>2, <2>1, <2>2, MemoryShrinks
  <1> SUFFICES ASSUME NEW j \in Jobs, JobStep(j)  PROVE MemoryInv'
    BY <1>4 DEF Next
  <1>5. ~CheckBlind(j) /\ ~Stop(j)
    BY <1>2 DEF Guarded, CheckBlind, Stop
  <1>6. ASSUME resident' => resident, using' \in {using, using \ {j}}, kept' \subseteq kept,
               \A i \in Jobs : i # j => pc'[i] = pc[i],
               pc'[j] = "granted" => pc[j] = "granted" \/ Enough(j)
        PROVE  MemoryInv'
    <2>1. using' \in {using, {}}
      BY <1>2, <1>6, OneUser
    <2>2. HeldTts' => HeldTts
      BY <1>6 DEF HeldTts
    <2>3. \A i \in Jobs : pc'[i] = "granted" => pc[i] = "granted" \/ Enough(i)
      BY <1>6
    <2> QED  BY <1>1, <1>2, <1>6, <2>1, <2>2, <2>3, MemoryShrinks
  <1>7. CASE Run(j)
    BY <1>1, <1>2, <1>7, MemoryRun
  <1>8. CASE Check(j) \/ Recheck(j)
    BY <1>3, <1>6, <1>8 DEF Check, Recheck
  <1>9. CASE Ask(j) \/ SetNx(j) \/ Evict(j) \/ BackOff(j) \/ Wake(j) \/ Wait(j)
    BY <1>3, <1>6, <1>9 DEF Ask, SetNx, Evict, BackOff, Wake, Wait
  <1>10. CASE Finish(j) \/ Get(j) \/ Delete(j) \/ Notify(j)
    BY <1>3, <1>6, <1>10 DEF Finish, Get, Delete, Notify
  <1>11. CASE EvictFails(j) \/ RedisFails(j) \/ Repeat(j) \/ Crash(j)
    BY <1>3, <1>6, <1>11 DEF EvictFails, RedisFails, Repeat, Crash
  <1>12. CASE LeaveGpu(j) \/ Expire(j)
    BY <1>3, <1>6, <1>12 DEF LeaveGpu, Expire
  <1> QED
    BY <1>5, <1>7, <1>8, <1>9, <1>10, <1>11, <1>12 DEF JobStep, Acquire, Release, Fault

(* What was reserved never overcommits the card: the memory that a job saw  *)
(* free before it was let in is still free when it runs, but for models     *)
(* loaded beside the slot, unless a worker was shut down, a lock expired    *)
(* under its job, a DEL was carried out twice, or nvidia-smi gave no answer.*)
THEOREM MemorySuffices == Spec => []MemoryFits
  <1>1. Init => MemoryInv
    <2> SUFFICES ASSUME Init PROVE MemoryInv
      OBVIOUS
    <2>1. using = {} /\ ~resident /\ \A j \in Jobs : pc[j] # "granted"
      BY DEF Init
    <2>2. ~HeldTts
      BY DEF Init, HeldTts
    <2>3. resident \in BOOLEAN
      BY DEF Init
    <2>4. HeldTts \in BOOLEAN
      BY DEF HeldTts
    <2>5. Reserved = 0
      BY <2>1, <2>2, <2>3, <2>4, ReservedFacts
    <2> QED  BY <2>1, <2>5, GpuSlotAssumption DEF MemoryInv
  <1>2. SlotInv /\ MemoryInv /\ [Next]_vars => MemoryInv'
    <2>1. ASSUME MemoryInv, UNCHANGED vars  PROVE MemoryInv'
      BY <2>1, ReservedFacts DEF vars, gpuVars, histVars, MemoryInv, Guarded, Sure, HeldTts
    <2> QED  BY <2>1, NextMemory
  <1>3. SlotInv /\ MemoryInv => MemoryFits
    <2> SUFFICES ASSUME SlotInv, MemoryInv, Guarded  PROVE Used <= Capacity + Beside
      BY DEF Guarded, MemoryFits
    <2>1. Beside \in Nat
      BY GpuSlotAssumption DEF Beside, OnCard, Models
    <2>2. Reserved \in Int
      BY ReservedType
    <2> QED  BY <2>1, <2>2, GpuSlotAssumption DEF MemoryInv, Used
  <1> QED  BY <1>1, <1>2, <1>3, SlotInvariance, PTL DEF Spec
=============================================================================
