----------------------------- MODULE MCMediaJob -----------------------------
(* Small instances of MediaJob: a live_slice job on the cpu list, a job     *)
(* with two input files on a GPU list, and a payload that is pushed again.  *)
EXTENDS MediaJobProps, TLC

CONSTANTS slice, lipsync, again, w1, w2

None == {}
OneRepeat == {again}
Copies == [m \in Repeats |-> CHOOSE j \in Jobs : TRUE]

OneJob == {slice}
GpuJob == {lipsync}
TwoJobs == {slice, lipsync}
Keys == {"cpu", "latentsync"}
Route == [j \in Jobs |-> IF j = slice THEN "cpu" ELSE "latentsync"]
Poll == [w \in Workers |-> <<"cpu", "latentsync">>]
TwoInputs == Jobs \ {slice}
Slices == Jobs \cap {slice}
StagesUsed == {5, 100}

Budget(kinds) == [k \in FaultKinds |-> IF k \in kinds THEN 1 ELSE 0]
Refused == Budget({"drop", "create", "workerCrash"})
LateOrLost == Budget({"popLost", "late", "disk"})
NoLate == Budget(FaultKinds \ {"late", "workerCrash"})

SameWorkers == Permutations(Workers)
=============================================================================
