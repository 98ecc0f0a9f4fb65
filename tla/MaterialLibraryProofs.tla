----------------------- MODULE MaterialLibraryProofs -----------------------
(* The safety of MaterialLibrary for any number of materials, groups, tags  *)
(* and concurrent requests.                                                 *)
EXTENDS MaterialLibrary, TLAPS

(* A request at rest has the shape of one, ...                                *)
LEMMA IdleType == Idle \in RequestStates /\ Idle.at = "idle" /\ Idle.id = None
  BY DEF Idle, RequestStates, Ops, Steps

(* ... and holds nothing.                                                     *)
LEMMA IdleSound == Sound(Idle)
  BY DEF Idle, Sound

(* Before anything is saved, all holds.                                       *)
LEMMA InitMaterial == Init => MaterialInv
<1> SUFFICES ASSUME Init PROVE MaterialInv
  OBVIOUS
<1>1. TypeOK
  BY IdleType DEF Init, TypeOK
<1>2. SoundInv
  BY IdleSound DEF Init, SoundInv
<1>3. HeldInv
  BY IdleType DEF Init, HeldInv
<1>4. TagsInv /\ MaterialHasFile /\ NoOrphanDirectory
  BY DEF Init, TagsInv, MaterialHasFile, NoOrphanDirectory
<1> QED
  BY <1>1, <1>2, <1>3, <1>4 DEF MaterialInv

(* What Becomes does to the requests.                                       *)
LEMMA BecomesFacts ==
  ASSUME req \in [Requests -> RequestStates],
         NEW q \in Requests, NEW r \in RequestStates, Becomes(q, r)
  PROVE  /\ req' \in [Requests -> RequestStates]
         /\ req'[q] = r
         /\ \A o \in Requests : o # q => req'[o] = req[o]
  BY DEF Becomes

(* A request stays sound when nothing happens but to another id, or to an   *)
(* id known to be held twice, and the tags of a material only go.           *)
LEMMA StaysSound ==
  ASSUME NEW r, Sound(r), NEW i,
         \A j : j # i => /\ j \in material' <=> j \in material
                         /\ j \in shelf => j \in shelf'
                         /\ j \in dir => j \in dir'
                         /\ j \in gone' => j \in gone
                         /\ TagsOf(j)' \subseteq TagsOf(j),
         overlapped \subseteq overlapped',
         r.id = i => i \in overlapped' /\ r.at # "inserting"
  PROVE  Sound(r)'
<1>1. CASE r.id = i
  BY <1>1 DEF Sound, There
<1>2. CASE r.id # i
  <2>1. There(r.id) => There(r.id)'
    BY <1>2 DEF There
  <2>2. TagsOf(r.id) = {} => TagsOf(r.id)' = {}
    BY <1>2
  <2> HIDE DEF There, TagsOf
  <2> QED
    BY <1>2, <2>1, <2>2 DEF Sound
<1> QED
  BY <1>1, <1>2

(* The ids held twice, when one request moves.                              *)
LEMMA HeldMoves ==
  ASSUME TypeOK, HeldInv, NEW q \in Requests, NEW r \in RequestStates, Becomes(q, r),
         overlapped \subseteq overlapped',
         r.id # None => \A o \in Requests :
             o # q /\ req[o].id = r.id => /\ r.id \in overlapped'
                                          /\ ~At(o, "inserting") /\ r.at # "inserting"
  PROVE  HeldInv'
<1>1. /\ req' \in [Requests -> RequestStates] /\ req'[q] = r
      /\ \A o \in Requests : o # q => req'[o] = req[o]
  BY BecomesFacts DEF TypeOK
<1>2. ASSUME NEW a \in Requests, NEW b \in Requests, a # b, req'[a].id = req'[b].id,
             req'[a].id # None
      PROVE  req'[a].id \in overlapped' /\ ~At(a, "inserting")'
  <2>1. CASE a = q \/ b = q
    BY <1>1, <1>2, <2>1 DEF At
  <2>2. CASE a # q /\ b # q
    BY <1>1, <1>2, <2>2 DEF HeldInv, At
  <2> QED
    BY <2>1, <2>2
<1> QED
  BY <1>2 DEF HeldInv

(* A request that goes on with its id, or ends, leaves the ids held as they *)
(* were.                                                                    *)
LEMMA HeldStays ==
  ASSUME TypeOK, HeldInv, NEW q \in Requests, NEW r \in RequestStates, Becomes(q, r),
         r.id \in {req[q].id, None}, r.at # "inserting", overlapped \subseteq overlapped'
  PROVE  HeldInv'
<1>1. r.id # None => \A o \in Requests :
         o # q /\ req[o].id = r.id => /\ r.id \in overlapped'
                                      /\ ~At(o, "inserting") /\ r.at # "inserting"
  BY DEF HeldInv
<1> QED
  BY <1>1, HeldMoves

(* The other requests stay sound when only one id is touched, that of the    *)
(* request that moves.                                                      *)
LEMMA OthersSound ==
  ASSUME MaterialInv, NEW q \in Requests, req[q].id # None,
         \A j : j # req[q].id => /\ j \in material' <=> j \in material
                                 /\ j \in shelf => j \in shelf'
                                 /\ j \in dir => j \in dir'
                                 /\ j \in gone' => j \in gone
                                 /\ TagsOf(j)' \subseteq TagsOf(j),
         overlapped \subseteq overlapped',
         NEW r \in RequestStates, Becomes(q, r), Sound(r)'
  PROVE  SoundInv'
<1>1. /\ req' \in [Requests -> RequestStates] /\ req'[q] = r
      /\ \A o \in Requests : o # q => req'[o] = req[o]
  BY BecomesFacts DEF MaterialInv, TypeOK
<1>2. ASSUME NEW o \in Requests, o # q PROVE Sound(req[o])'
  <2>1. PICK s : s = req[o]
    OBVIOUS
  <2>2. Sound(s)
    BY <2>1 DEF MaterialInv, SoundInv
  <2>3. s.id = req[q].id => req[q].id \in overlapped' /\ s.at # "inserting"
    BY <1>2, <2>1 DEF MaterialInv, HeldInv, At
  <2>4. Sound(s)'
    BY <2>2, <2>3, StaysSound
  <2> QED
    BY <1>1, <1>2, <2>1, <2>4
<1> QED
  BY <1>1, <1>2 DEF SoundInv

(* A request moves, and nothing else but the history.                       *)
LEMMA RequestMoves ==
  ASSUME MaterialInv, NEW q \in Requests, NEW r \in RequestStates, Becomes(q, r), Sound(r)',
         UNCHANGED <<rows, shelf, dir, gone, asked>>,
         overlapped \subseteq overlapped', overlapped' \subseteq Ids,
         marred \subseteq marred', marred' \subseteq Materials, halfway' = halfway,
         HeldInv',
         \A m \in Materials : req[q].id = m => r.id = m \/ m \in material \cup overlapped' \cup marred',
         At(q, "dropping") => req[q].id \in marred'
  PROVE  MaterialInv'
<1>1. /\ req' \in [Requests -> RequestStates] /\ req'[q] = r
      /\ \A o \in Requests : o # q => req'[o] = req[o]
  BY BecomesFacts DEF MaterialInv, TypeOK
<1>2. UNCHANGED <<material, groupOf, links, shelf, dir, gone, asked>>
  BY DEF rows
<1>3. TypeOK'
  BY <1>1, <1>2 DEF MaterialInv, TypeOK, Fits
<1>4. SoundInv'
  <2>1. ASSUME NEW s, Sound(s) PROVE Sound(s)'
    BY <1>2, <2>1 DEF Sound, There, TagsOf
  <2>2. ASSUME NEW o \in Requests, o # q PROVE Sound(req[o])'
    BY <1>1, <2>1, <2>2 DEF MaterialInv, SoundInv
  <2> QED
    BY <1>1, <2>2 DEF SoundInv
<1>5. TagsInv'
  <2>1. \A m \in Materials \ (material \cup gone) : asked[m] = {}
    BY DEF MaterialInv, TagsInv
  <2>2. ASSUME NEW m \in material \ (overlapped' \cup marred' \cup halfway)
        PROVE  TagsOf(m) = asked[m] \/ \E o \in Requests : At(o, "dropping")' /\ req'[o].id = m
    <3>1. TagsOf(m) = asked[m] \/ \E o \in Requests : At(o, "dropping") /\ req[o].id = m
      BY <2>2 DEF MaterialInv, TagsInv
    <3> QED
      BY <1>1, <2>2, <3>1 DEF At
  <2> QED
    BY <1>2, <2>1, <2>2 DEF TagsInv, TagsOf
<1>6. MaterialHasFile'
  BY <1>2 DEF MaterialInv, MaterialHasFile
<1>7. NoOrphanDirectory'
  <2>1. ASSUME NEW m \in dir \ material PROVE Held(m)' \/ m \in overlapped' \cup marred'
    <3>1. Held(m) \/ m \in overlapped \cup marred
      BY <2>1 DEF MaterialInv, NoOrphanDirectory
    <3>2. m \in Materials
      BY <2>1 DEF MaterialInv, TypeOK
    <3> QED
      BY <1>1, <2>1, <3>1, <3>2 DEF Held
  <2> QED
    BY <1>2, <2>1 DEF NoOrphanDirectory
<1> QED
  BY <1>3, <1>4, <1>5, <1>6, <1>7 DEF MaterialInv

----------------------------------------------------------------------------
(* One lemma per action.                                                    *)

(* A handler that finds its row records an id that another one holds.         *)
LEMMA FindSafe ==
  ASSUME MaterialInv, NEW q \in Requests, NEW i \in Ids, NEW r \in RequestStates,
         Find(q, i, r), r.at # "inserting", [r EXCEPT !.id = i] \in RequestStates,
         Sound([r EXCEPT !.id = i])'
  PROVE  MaterialInv'
<1>1. PICK s : s = [r EXCEPT !.id = i]
  OBVIOUS
<1>2. s \in RequestStates /\ s.id = i /\ s.at # "inserting" /\ Sound(s)' /\ Becomes(q, s)
  BY <1>1 DEF RequestStates, Find
<1>3. overlapped \subseteq overlapped' /\ overlapped' \subseteq Ids
  BY DEF Find, MaterialInv, TypeOK
<1>4. req[q].id = None /\ req[q].at = "idle"
  BY IdleType DEF Find
<1>5. ASSUME NEW o \in Requests, o # q, req[o].id = i
      PROVE  i \in overlapped' /\ ~At(o, "inserting")
  <2>1. i \in overlapped'
    BY <1>5 DEF Find, Held
  <2>2. req[o].at = "inserting" => i \in Materials /\ i \notin material
    BY <1>5 DEF MaterialInv, SoundInv, Sound
  <2>3. i \in material \cup shelf
    BY DEF Find
  <2> QED
    BY <2>1, <2>2, <2>3, MaterialLibraryAssumption DEF At, MaterialInv, TypeOK
<1>6. HeldInv'
  <2>1. s.id # None => \A o \in Requests :
          o # q /\ req[o].id = s.id => /\ s.id \in overlapped'
                                       /\ ~At(o, "inserting") /\ s.at # "inserting"
    BY <1>2, <1>5
  <2> QED
    BY <1>2, <1>3, <2>1, HeldMoves DEF MaterialInv
<1>7. /\ \A m \in Materials : req[q].id = m => s.id = m \/ m \in material \cup overlapped' \cup marred'
      /\ At(q, "dropping") => req[q].id \in marred'
  BY <1>4, MaterialLibraryAssumption DEF At
<1>8. /\ UNCHANGED <<rows, shelf, dir, gone, asked>>
      /\ marred \subseteq marred' /\ marred' \subseteq Materials /\ halfway' = halfway
  BY DEF Find, MaterialInv, TypeOK
<1> QED
  BY <1>2, <1>3, <1>6, <1>7, <1>8, RequestMoves

(* update starts with the find of its material, ...                           *)
LEMMA BeginUpdateSafe ==
  ASSUME MaterialInv, NEW q \in Requests, NEW m \in Materials, NEW g \in Groups \cup {None},
         BeginUpdate(q, m, g)
  PROVE  MaterialInv'
<1>1. PICK r : r = [Idle EXCEPT !.op = "update", !.at = "saving", !.group = g]
  OBVIOUS
<1>2. PICK s : s = [r EXCEPT !.id = m]
  OBVIOUS
<1>3. r \in RequestStates /\ r.at = "saving" /\ r.op = "update"
  BY <1>1, IdleType DEF RequestStates, Ops, Steps
<1>4. s \in RequestStates /\ s.at = "saving" /\ s.op = "update" /\ s.id = m
  BY <1>2, <1>3 DEF RequestStates, Ids
<1>5. Find(q, m, r)
  BY <1>1 DEF BeginUpdate
<1>6. Sound(s)'
  BY <1>4, <1>5 DEF Sound, Find, There, rows
<1> QED
  BY <1>2, <1>3, <1>4, <1>5, <1>6, FindSafe DEF Ids

(* ... the change of tags does, ...                                           *)
LEMMA BeginRetagSafe ==
  ASSUME MaterialInv, NEW q \in Requests, NEW m \in Materials, NEW ts \in SUBSET Tags,
         BeginRetag(q, m, ts)
  PROVE  MaterialInv'
<1>1. PICK r : r = [Idle EXCEPT !.op = "retag", !.at = "saving", !.group = groupOf[m],
                                !.tags = ts]
  OBVIOUS
<1>2. PICK s : s = [r EXCEPT !.id = m]
  OBVIOUS
<1>3. groupOf[m] \in Groups \cup {None}
  BY DEF MaterialInv, TypeOK
<1>4. r \in RequestStates /\ r.at = "saving" /\ r.op = "retag"
  BY <1>1, <1>3, IdleType DEF RequestStates, Ops, Steps
<1>5. s \in RequestStates /\ s.at = "saving" /\ s.op = "retag" /\ s.id = m
  BY <1>2, <1>4 DEF RequestStates, Ids
<1>6. Find(q, m, r)
  BY <1>1 DEF BeginRetag
<1>7. Sound(s)'
  BY <1>5, <1>6 DEF Sound, Find, There, rows
<1> QED
  BY <1>2, <1>4, <1>5, <1>6, <1>7, FindSafe DEF Ids

(* ... the removal of a material does, ...                                    *)
LEMMA BeginRemoveSafe ==
  ASSUME MaterialInv, NEW q \in Requests, NEW m \in Materials, BeginRemove(q, m)
  PROVE  MaterialInv'
<1>1. PICK r : r = [Idle EXCEPT !.op = "remove", !.at = "unlinking"]
  OBVIOUS
<1>2. PICK s : s = [r EXCEPT !.id = m]
  OBVIOUS
<1>3. r \in RequestStates /\ r.at = "unlinking" /\ r.op = "remove"
  BY <1>1, IdleType DEF RequestStates, Ops, Steps
<1>4. s \in RequestStates /\ s.at = "unlinking" /\ s.op = "remove" /\ s.id = m
  BY <1>2, <1>3 DEF RequestStates, Ids
<1>5. Find(q, m, r)
  BY <1>1 DEF BeginRemove, RemovalOrder
<1>6. Sound(s)'
  BY <1>4 DEF Sound
<1> QED
  BY <1>2, <1>3, <1>4, <1>5, <1>6, FindSafe DEF Ids

(* ... and a rename, of a group or a tag.                                     *)
LEMMA BeginRenameSafe ==
  ASSUME MaterialInv, NEW q \in Requests, NEW i \in Groups \cup Tags, BeginRename(q, i)
  PROVE  MaterialInv'
<1>1. PICK r : r = [Idle EXCEPT !.op = "rename", !.at = "saving"]
  OBVIOUS
<1>2. PICK s : s = [r EXCEPT !.id = i]
  OBVIOUS
<1>3. r \in RequestStates /\ r.at = "saving" /\ r.op = "rename"
  BY <1>1, IdleType DEF RequestStates, Ops, Steps
<1>4. s \in RequestStates /\ s.at = "saving" /\ s.op = "rename" /\ s.id = i
  BY <1>2, <1>3 DEF RequestStates, Ids
<1>5. Find(q, i, r)
  BY <1>1 DEF BeginRename
<1>6. Sound(s)'
  BY <1>4, <1>5 DEF Sound, Find, There, rows
<1> QED
  BY <1>2, <1>3, <1>4, <1>5, <1>6, FindSafe DEF Ids

(* Looking up the tags writes nothing: the request goes on or ends.           *)
LEMMA CheckTagsSafe ==
  ASSUME MaterialInv, NEW q \in Requests, CheckTags(q)
  PROVE  MaterialInv'
<1>1. /\ req[q] \in RequestStates /\ req[q].at = "checking" /\ req[q].id \in Ids
      /\ req[q].op \in {"upload", "retag"} /\ There(req[q].id) /\ req[q].id \in Materials
  BY DEF MaterialInv, TypeOK, SoundInv, Sound, CheckTags, At, RequestStates, Ids
<1>2. PICK r : r = IF req[q].tags \subseteq shelf THEN [req[q] EXCEPT !.at = "unlinking"] ELSE Idle
  OBVIOUS
<1>3. Becomes(q, r)
  BY <1>2 DEF CheckTags, Moves, Ends
<1>4. UNCHANGED <<rows, shelf, dir, history>>
  BY DEF CheckTags
<1>5. /\ r \in RequestStates /\ r.at # "inserting" /\ r.id \in {req[q].id, None} /\ Sound(r)'
      /\ r.id = req[q].id \/ req[q].id \in material \cup overlapped
  <2>1. CASE req[q].tags \subseteq shelf
    <3>1. r \in RequestStates /\ r.at = "unlinking" /\ r.id = req[q].id /\ r.op = req[q].op
      BY <1>1, <1>2, <2>1 DEF RequestStates, Steps
    <3>2. There(r.id)'
      BY <1>1, <1>4, <3>1 DEF There, rows, history
    <3> QED
      BY <1>1, <3>1, <3>2 DEF Sound
  <2>2. CASE ~(req[q].tags \subseteq shelf)
    <3>1. r \in RequestStates /\ r.at = "idle" /\ r.id = None /\ r = Idle
      BY <1>2, <2>2, IdleType
    <3>2. req[q].id \in material \cup overlapped
      BY <1>1, MaterialLibraryAssumption DEF There, MaterialInv, TypeOK
    <3> QED
      BY <3>1, <3>2 DEF Sound
  <2> QED
    BY <2>1, <2>2
<1>6. HeldInv'
  BY <1>3, <1>4, <1>5, HeldStays DEF MaterialInv, history
<1>7. /\ \A m \in Materials : req[q].id = m => r.id = m \/ m \in material \cup overlapped' \cup marred'
      /\ At(q, "dropping") => req[q].id \in marred'
  BY <1>1, <1>4, <1>5 DEF At, history
<1> QED
  BY <1>3, <1>4, <1>5, <1>6, <1>7, RequestMoves DEF history, MaterialInv, TypeOK

(* A request that breaks off leaves its id among the marred.                  *)
LEMMA RequestDiesSafe ==
  ASSUME MaterialInv, NEW q \in Requests, RequestDies(q)
  PROVE  MaterialInv'
<1>1. PICK r : r = Idle
  OBVIOUS
<1>2. r \in RequestStates /\ r.id = None /\ r.at = "idle" /\ Becomes(q, r) /\ Sound(r)'
  BY <1>1, IdleType DEF RequestDies, Ends, Sound
<1>3. /\ UNCHANGED <<rows, shelf, dir, gone, asked>> /\ overlapped' = overlapped
      /\ marred \subseteq marred' /\ marred' \subseteq Materials /\ halfway' = halfway
      /\ req[q].id \in Materials => req[q].id \in marred'
  BY DEF RequestDies, MaterialInv, TypeOK
<1>4. HeldInv'
  BY <1>2, <1>3, HeldStays DEF MaterialInv
<1>5. At(q, "dropping") => req[q].id \in Materials
  BY DEF MaterialInv, SoundInv, Sound, At
<1>6. overlapped \subseteq overlapped' /\ overlapped' \subseteq Ids
  BY <1>3 DEF MaterialInv, TypeOK
<1> QED
  BY <1>2, <1>3, <1>4, <1>5, <1>6, RequestMoves

----------------------------------------------------------------------------
(* The actions that touch the material a request holds, and no other.       *)
LEMMA MaterialTouched ==
  ASSUME MaterialInv, NEW q \in Requests, NEW i \in Materials, req[q].id = i,
         NEW r \in RequestStates, Becomes(q, r), r.id \in {i, None}, r.at # "inserting",
         Sound(r)', TypeOK', UNCHANGED <<shelf, overlapped, marred>>,
         halfway \subseteq halfway',
         \A j : j # i => /\ j \in material' <=> j \in material
                         /\ j \in dir' <=> j \in dir
                         /\ j \in gone' <=> j \in gone
                         /\ TagsOf(j)' = TagsOf(j),
         \A j \in Materials : j # i => asked'[j] = asked[j],
         i \in material' => i \in dir' \cup overlapped \cup halfway',
         i \in dir' \ material' => r.id = i \/ i \in overlapped \cup marred,
         i \notin material' \cup gone' => asked'[i] = {},
         i \in material' \ (overlapped \cup marred \cup halfway') =>
            TagsOf(i)' = asked'[i] \/ (r.at = "dropping" /\ r.id = i)
  PROVE  MaterialInv'
<1>1. /\ req' \in [Requests -> RequestStates] /\ req'[q] = r
      /\ \A o \in Requests : o # q => req'[o] = req[o]
  BY BecomesFacts DEF MaterialInv, TypeOK
<1>2. SoundInv'
  <2>1. req[q].id # None
    BY MaterialLibraryAssumption
  <2> QED
    BY <2>1, OthersSound
<1>3. HeldInv'
  BY HeldStays DEF MaterialInv
<1>4. TagsInv'
  <2>1. ASSUME NEW m \in Materials \ (material' \cup gone') PROVE asked'[m] = {}
    BY <2>1 DEF MaterialInv, TagsInv
  <2>2. ASSUME NEW m \in material' \ (overlapped \cup marred \cup halfway')
        PROVE  TagsOf(m)' = asked'[m] \/ \E o \in Requests : At(o, "dropping")' /\ req'[o].id = m
    <3>1. CASE m = i
      BY <1>1, <2>2, <3>1 DEF At
    <3>2. CASE m # i
      <4>1. m \in material \ (overlapped \cup marred \cup halfway) /\ m \in Materials
        BY <2>2, <3>2 DEF MaterialInv, TypeOK
      <4>2. TagsOf(m) = asked[m] \/ \E o \in Requests : At(o, "dropping") /\ req[o].id = m
        BY <4>1 DEF MaterialInv, TagsInv
      <4> QED
        BY <1>1, <3>2, <4>1, <4>2 DEF At
    <3> QED
      BY <3>1, <3>2
  <2> QED
    BY <2>1, <2>2 DEF TagsInv
<1>5. MaterialHasFile'
  <2>1. ASSUME NEW m \in material' PROVE m \in dir' \cup overlapped \cup halfway'
    BY <2>1 DEF MaterialInv, MaterialHasFile
  <2> QED
    BY <2>1 DEF MaterialHasFile
<1>6. NoOrphanDirectory'
  <2>1. ASSUME NEW m \in dir' \ material' PROVE Held(m)' \/ m \in overlapped \cup marred
    <3>1. CASE m = i
      BY <1>1, <2>1, <3>1 DEF Held
    <3>2. CASE m # i
      <4>1. Held(m) \/ m \in overlapped \cup marred
        BY <2>1, <3>2 DEF MaterialInv, NoOrphanDirectory
      <4> QED
        BY <1>1, <3>2, <4>1 DEF Held
    <3> QED
      BY <3>1, <3>2
  <2> QED
    BY <2>1 DEF NoOrphanDirectory
<1> QED
  BY <1>2, <1>3, <1>4, <1>5, <1>6 DEF MaterialInv

(* What is known of a request under way on a material.                      *)
LEMMA HoldsMaterial ==
  ASSUME MaterialInv, NEW q \in Requests, req[q].at # "idle", req[q].op # "rename"
  PROVE  /\ req[q] \in RequestStates /\ Sound(req[q]) /\ req[q].id \in Materials
         /\ req[q].id # None /\ req[q].id \notin shelf
         /\ There(req[q].id) => req[q].id \in material \cup overlapped
<1>1. req[q] \in RequestStates /\ Sound(req[q])
  BY DEF MaterialInv, TypeOK, SoundInv
<1>2. req[q].id \in Materials
  BY <1>1 DEF Sound
<1>3. shelf \subseteq Groups \cup Tags
  BY DEF MaterialInv, TypeOK
<1>4. req[q].id # None /\ req[q].id \notin shelf
  BY <1>2, <1>3, MaterialLibraryAssumption
<1> QED
  BY <1>1, <1>2, <1>4 DEF There

(* The tags of a material are those linked to it.                           *)
LEMMA LinksOfOthers ==
  ASSUME NEW i, NEW ts, links' = LinksWithout(i) \/ links' = links \cup ({i} \X ts)
  PROVE  \A j : j # i => TagsOf(j)' = TagsOf(j)
  BY DEF LinksWithout, TagsOf

(* A material whose links were deleted has no tag.                            *)
LEMMA UnlinkedHasNone ==
  ASSUME NEW i, links' = LinksWithout(i)
  PROVE  TagsOf(i)' = {}
  BY DEF LinksWithout, TagsOf

(* The first half of replaceTagLinks: no tag is left, and the request that took *)
(* them still holds the material.                                             *)
LEMMA UnlinkTagsSafe ==
  ASSUME MaterialInv, NEW q \in Requests, UnlinkTags(q)
  PROVE  MaterialInv'
<1>1. PICK i : i = req[q].id
  OBVIOUS
<1>2. req[q].at = "unlinking" /\ req[q].op # "remove" /\ req[q].op # "rename"
  BY DEF UnlinkTags, At, MaterialInv, SoundInv, Sound
<1>3. /\ req[q] \in RequestStates /\ req[q].op \in {"upload", "retag"}
      /\ i \in Materials /\ i \in material \cup overlapped
  <2>1. /\ req[q] \in RequestStates /\ Sound(req[q]) /\ i \in Materials
        /\ There(i) => i \in material \cup overlapped
    BY <1>1, <1>2, HoldsMaterial
  <2>2. req[q].op \in {"upload", "retag"} /\ There(req[q].id)
    BY <1>2, <2>1 DEF Sound
  <2> QED
    BY <1>1, <2>1, <2>2
<1>4. PICK r : r = IF req[q].tags = {} THEN Idle ELSE [req[q] EXCEPT !.at = "linking"]
  OBVIOUS
<1>5. /\ Becomes(q, r) /\ links' = LinksWithout(i) /\ asked' = [asked EXCEPT ![i] = {}]
      /\ UNCHANGED <<material, groupOf, shelf, dir, gone, overlapped, marred, halfway>>
  BY <1>1, <1>4 DEF UnlinkTags, Relinked, Moves, Ends
<1>6. TagsOf(i)' = {} /\ \A j : j # i => TagsOf(j)' = TagsOf(j)
  BY <1>5, UnlinkedHasNone, LinksOfOthers
<1>7. r \in RequestStates /\ r.id \in {i, None} /\ r.at # "inserting" /\ Sound(r)'
  <2>1. CASE req[q].tags = {}
    BY <1>4, <2>1, IdleType DEF Sound
  <2>2. CASE req[q].tags # {}
    <3>1. r \in RequestStates /\ r.id = i /\ r.at = "linking" /\ r.op \in {"upload", "retag"}
      BY <1>1, <1>3, <1>4, <2>2 DEF RequestStates, Steps
    <3>2. There(i)'
      BY <1>3, <1>5 DEF There
    <3> QED
      BY <1>3, <1>6, <3>1, <3>2 DEF Sound
  <2> QED
    BY <2>1, <2>2
<1>8. /\ req' \in [Requests -> RequestStates]
      /\ asked' \in [Materials -> SUBSET Tags] /\ asked'[i] = {}
      /\ \A j \in Materials : j # i => asked'[j] = asked[j]
  BY <1>3, <1>5, <1>7, BecomesFacts DEF MaterialInv, TypeOK
<1>9. TypeOK'
  BY <1>5, <1>8 DEF MaterialInv, TypeOK, LinksWithout, Fits
<1>10. /\ i \in material' => i \in dir' \cup overlapped \cup halfway'
       /\ i \in dir' \ material' => r.id = i \/ i \in overlapped \cup marred
  BY <1>3, <1>5 DEF MaterialInv, MaterialHasFile
<1> QED
  BY <1>1, <1>3, <1>5, <1>6, <1>7, <1>8, <1>9, <1>10, MaterialTouched

(* The second half: the tags are those last asked for, or somebody else held  *)
(* the material too.                                                          *)
LEMMA LinkTagsSafe ==
  ASSUME MaterialInv, NEW q \in Requests, LinkTags(q)
  PROVE  MaterialInv'
<1>1. PICK i : i = req[q].id
  OBVIOUS
<1>2. PICK ts : ts = req[q].tags
  OBVIOUS
<1>3. req[q].at = "linking" /\ req[q].op \in {"upload", "retag"}
  BY DEF LinkTags, At, MaterialInv, SoundInv, Sound
<1>4. /\ i \in Materials /\ ts \in SUBSET Tags /\ (TagsOf(i) = {} \/ i \in overlapped)
  BY <1>1, <1>2, <1>3, HoldsMaterial DEF Sound, RequestStates
<1>5. PICK r : r = Idle
  OBVIOUS
<1>6. r \in RequestStates /\ r.id = None /\ r.at = "idle" /\ Sound(r)'
  BY <1>5, IdleType DEF Sound
<1>7. /\ Becomes(q, r) /\ i \in material /\ ts \subseteq shelf /\ links' = links \cup ({i} \X ts)
      /\ asked' = [asked EXCEPT ![i] = ts]
      /\ UNCHANGED <<material, groupOf, shelf, dir, gone, overlapped, marred, halfway>>
  BY <1>1, <1>2, <1>5 DEF LinkTags, Ends
<1>8. \A j : j # i => TagsOf(j)' = TagsOf(j)
  BY <1>7, LinksOfOthers
<1>9. TagsOf(i)' = ts \/ i \in overlapped
  BY <1>4, <1>7 DEF TagsOf
<1>10. /\ req' \in [Requests -> RequestStates]
       /\ asked' \in [Materials -> SUBSET Tags] /\ asked'[i] = ts
       /\ \A j \in Materials : j # i => asked'[j] = asked[j]
  BY <1>4, <1>6, <1>7, BecomesFacts DEF MaterialInv, TypeOK
<1>11. TypeOK'
  BY <1>4, <1>7, <1>10 DEF MaterialInv, TypeOK, Fits
<1>12. i \in material' => i \in dir' \cup overlapped \cup halfway'
  BY <1>7 DEF MaterialInv, MaterialHasFile
<1> QED
  BY <1>1, <1>4, <1>6, <1>7, <1>8, <1>9, <1>10, <1>11, <1>12, MaterialTouched

(* A removal takes the links first: the material is about to be dropped.      *)
LEMMA DeleteLinksSafe ==
  ASSUME MaterialInv, NEW q \in Requests, DeleteLinks(q)
  PROVE  MaterialInv'
<1>1. PICK i : i = req[q].id
  OBVIOUS
<1>2. req[q].at = "unlinking" /\ req[q].op = "remove"
  BY DEF DeleteLinks, At
<1>3. req[q] \in RequestStates /\ i \in Materials
  BY <1>1, <1>2, HoldsMaterial
<1>4. PICK r : r = [req[q] EXCEPT !.at = "dropping"]
  OBVIOUS
<1>5. r \in RequestStates /\ r.id = i /\ r.at = "dropping" /\ r.op = "remove"
  BY <1>1, <1>2, <1>3, <1>4 DEF RequestStates, Steps
<1>6. Becomes(q, r)
  BY <1>2, <1>4 DEF DeleteLinks, GoesOn, RemovalOrder, At, Moves
<1>7. links' = LinksWithout(i) /\ UNCHANGED <<material, groupOf, shelf, dir, history>>
  BY <1>1 DEF DeleteLinks
<1>8. \A j : j # i => TagsOf(j)' = TagsOf(j)
  BY <1>7, LinksOfOthers
<1>9. Sound(r)'
  BY <1>3, <1>5 DEF Sound
<1>10. req' \in [Requests -> RequestStates]
  BY <1>5, <1>6, BecomesFacts DEF MaterialInv, TypeOK
<1>11. TypeOK'
  BY <1>7, <1>10 DEF MaterialInv, TypeOK, LinksWithout, Fits, history
<1>12. /\ i \in material' => i \in dir' \cup overlapped \cup halfway'
       /\ i \notin material' \cup gone' => asked'[i] = {}
  BY <1>3, <1>7 DEF MaterialInv, MaterialHasFile, TagsInv, history
<1> QED
  BY <1>1, <1>3, <1>5, <1>6, <1>7, <1>8, <1>9, <1>11, <1>12, MaterialTouched DEF history

(* The row goes next, and its directory is that of a request under way.       *)
LEMMA DropMaterialSafe ==
  ASSUME MaterialInv, NEW q \in Requests, DropMaterial(q)
  PROVE  MaterialInv'
<1>1. PICK i : i = req[q].id
  OBVIOUS
<1>2. req[q].at = "dropping" /\ req[q].op = "remove"
  BY DEF DropMaterial, At, MaterialInv, SoundInv, Sound
<1>3. req[q] \in RequestStates /\ i \in Materials
  BY <1>1, <1>2, HoldsMaterial
<1>4. PICK r : r = [req[q] EXCEPT !.at = "clearing"]
  OBVIOUS
<1>5. r \in RequestStates /\ r.id = i /\ r.at = "clearing" /\ r.op = "remove"
  BY <1>1, <1>2, <1>3, <1>4 DEF RequestStates, Steps
<1>6. Becomes(q, r)
  BY <1>2, <1>4 DEF DropMaterial, GoesOn, RemovalOrder, At, Moves
<1>7. /\ material' = material \ {i} /\ groupOf' = [groupOf EXCEPT ![i] = None]
      /\ links' = LinksWithout(i) /\ gone' = gone \cup {i}
      /\ UNCHANGED <<shelf, dir, asked, overlapped, marred, halfway>>
  BY <1>1 DEF DropMaterial
<1>8. \A j : j # i => TagsOf(j)' = TagsOf(j)
  BY <1>7, LinksOfOthers
<1>9. Sound(r)'
  BY <1>3, <1>5, <1>7 DEF Sound
<1>10. req' \in [Requests -> RequestStates]
  BY <1>5, <1>6, BecomesFacts DEF MaterialInv, TypeOK
<1>11. groupOf' \in [Materials -> Groups \cup {None}]
  BY <1>3, <1>7 DEF MaterialInv, TypeOK
<1>12. \A m \in Materials : IF m \in material' THEN Fits(groupOf'[m]) ELSE groupOf'[m] = None
  BY <1>3, <1>7 DEF MaterialInv, TypeOK
<1>13. links' \subseteq material' \X (shelf \cap Tags)
  <2>1. \A l \in links : l \in material \X (shelf \cap Tags)
    BY DEF MaterialInv, TypeOK
  <2>2. ASSUME NEW l \in links, l[1] # i PROVE l \in (material \ {i}) \X (shelf \cap Tags)
    BY <2>1, <2>2
  <2> QED
    BY <1>7, <2>2 DEF LinksWithout
<1>14. TypeOK'
  BY <1>3, <1>7, <1>10, <1>11, <1>12, <1>13 DEF MaterialInv, TypeOK, Fits, Ids
<1>15. /\ \A j : j # i => (j \in material' <=> j \in material) /\ (j \in gone' <=> j \in gone)
       /\ i \notin material' /\ i \in gone'
  BY <1>7
<1> QED
  BY <1>1, <1>3, <1>5, <1>6, <1>7, <1>8, <1>9, <1>14, <1>15, MaterialTouched

(* The directory goes last, when no row is left, but for a second holder.     *)
LEMMA ClearDirectorySafe ==
  ASSUME MaterialInv, NEW q \in Requests, ClearDirectory(q)
  PROVE  MaterialInv'
<1>1. PICK i : i = req[q].id
  OBVIOUS
<1>2. req[q].at = "clearing" /\ req[q].op = "remove"
  BY DEF ClearDirectory, At, MaterialInv, SoundInv, Sound
<1>3. i \in Materials /\ (i \notin material \/ i \in overlapped)
  BY <1>1, <1>2, HoldsMaterial DEF Sound
<1>4. PICK r : r = Idle
  OBVIOUS
<1>5. r \in RequestStates /\ r.id = None /\ r.at = "idle" /\ Sound(r)'
  BY <1>4, IdleType DEF Sound
<1>6. Becomes(q, r)
  BY <1>2, <1>4 DEF ClearDirectory, GoesOn, RemovalOrder, At, Ends
<1>7. dir' = dir \ {i} /\ UNCHANGED <<rows, shelf, history>>
  BY <1>1 DEF ClearDirectory, DirWithout
<1>8. UNCHANGED <<material, groupOf, links, shelf, gone, asked, overlapped, marred, halfway>>
  BY <1>7 DEF rows, history
<1>9. req' \in [Requests -> RequestStates]
  BY <1>5, <1>6, BecomesFacts DEF MaterialInv, TypeOK
<1>10. TypeOK'
  BY <1>7, <1>8, <1>9 DEF MaterialInv, TypeOK, Fits
<1>11. \A j : TagsOf(j)' = TagsOf(j)
  BY <1>8 DEF TagsOf
<1>12. /\ i \notin material' \cup gone' => asked'[i] = {}
       /\ i \in material' \ (overlapped \cup marred \cup halfway') => FALSE
       /\ i \in material' => i \in dir' \cup overlapped \cup halfway'
       /\ i \notin dir'
  BY <1>3, <1>7, <1>8 DEF MaterialInv, TagsInv
<1> QED
  BY <1>1, <1>3, <1>5, <1>6, <1>7, <1>8, <1>10, <1>11, <1>12, MaterialTouched

(* The catch block of an upload takes the directory; a row that is there by then *)
(* is named halfway.                                                          *)
LEMMA UploadFailsSafe ==
  ASSUME MaterialInv, NEW q \in Requests, UploadFails(q)
  PROVE  MaterialInv'
<1>1. PICK i : i = req[q].id
  OBVIOUS
<1>2. req[q].op = "upload" /\ req[q].at # "idle"
  BY DEF UploadFails, MaterialInv, SoundInv, Sound, Idle
<1>3. i \in Materials /\ (req[q].at = "inserting" => i \notin material \cup gone)
  BY <1>1, <1>2, HoldsMaterial DEF Sound
<1>4. PICK r : r = Idle
  OBVIOUS
<1>5. r \in RequestStates /\ r.id = None /\ r.at = "idle" /\ Sound(r)'
  BY <1>4, IdleType DEF Sound
<1>6. Becomes(q, r) /\ dir' = dir \ {i}
  BY <1>1, <1>4 DEF UploadFails, Ends, DirWithout
<1>7. UNCHANGED <<material, groupOf, links, shelf, gone, asked, overlapped, marred>>
  BY DEF UploadFails, rows
<1>8. /\ halfway \subseteq halfway' /\ halfway' \subseteq Materials
      /\ i \in halfway' \/ i \notin material
  BY <1>1, <1>3 DEF UploadFails, At, MaterialInv, TypeOK
<1>9. req' \in [Requests -> RequestStates]
  BY <1>5, <1>6, BecomesFacts DEF MaterialInv, TypeOK
<1>10. TypeOK'
  BY <1>6, <1>7, <1>8, <1>9 DEF MaterialInv, TypeOK, Fits
<1>11. \A j : TagsOf(j)' = TagsOf(j)
  BY <1>7 DEF TagsOf
<1>12. /\ i \notin material' \cup gone' => asked'[i] = {}
       /\ i \in material' \ (overlapped \cup marred \cup halfway') => FALSE
       /\ i \in material' => i \in dir' \cup overlapped \cup halfway'
       /\ i \notin dir'
  BY <1>3, <1>6, <1>7, <1>8 DEF MaterialInv, TagsInv
<1> QED
  BY <1>1, <1>3, <1>5, <1>6, <1>7, <1>8, <1>10, <1>11, <1>12, MaterialTouched

----------------------------------------------------------------------------
(* The actions that write the row of a material.                            *)

(* Where a row is written, its group is there or it has none.               *)
LEMMA PutRowTypes ==
  ASSUME MaterialInv, NEW i \in Materials, NEW g \in Groups \cup {None}, PutRow(i, g)
  PROVE  /\ material' = material \cup {i} /\ material' \subseteq Materials
         /\ groupOf' \in [Materials -> Groups \cup {None}]
         /\ \A m \in Materials : IF m \in material' THEN Fits(groupOf'[m]) ELSE groupOf'[m] = None
  BY DEF MaterialInv, TypeOK, PutRow

(* The row of an upload appears with its file on the disk and nobody else at it. *)
LEMMA InsertMaterialSafe ==
  ASSUME MaterialInv, NEW q \in Requests, InsertMaterial(q)
  PROVE  MaterialInv'
<1>1. PICK i : i = req[q].id
  OBVIOUS
<1>2. /\ req[q].at = "inserting" /\ req[q].op = "upload" /\ req[q] \in RequestStates
      /\ i \notin material \cup gone /\ i \in dir
  BY <1>1 DEF InsertMaterial, At, MaterialInv, TypeOK, SoundInv, Sound
<1>3. i \in Materials /\ req[q].group \in Groups \cup {None}
  BY <1>1, <1>2, HoldsMaterial DEF RequestStates
<1>4. /\ material' = material \cup {i} /\ material' \subseteq Materials
      /\ groupOf' \in [Materials -> Groups \cup {None}]
      /\ \A m \in Materials : IF m \in material' THEN Fits(groupOf'[m]) ELSE groupOf'[m] = None
  BY <1>1, <1>3, PutRowTypes DEF InsertMaterial
<1>5. UNCHANGED <<links, shelf, dir, gone, asked, overlapped, marred, halfway>>
  BY DEF InsertMaterial, history
<1>6. PICK r : r = IF req[q].tags = {} THEN Idle ELSE [req[q] EXCEPT !.at = "unlinking"]
  OBVIOUS
<1>7. Becomes(q, r)
  BY <1>6 DEF InsertMaterial, Moves, Ends
<1>8. r \in RequestStates /\ r.id \in {i, None} /\ r.at # "inserting" /\ Sound(r)'
  <2>1. CASE req[q].tags = {}
    BY <1>6, <2>1, IdleType DEF Sound
  <2>2. CASE req[q].tags # {}
    <3>1. r \in RequestStates /\ r.id = i /\ r.at = "unlinking" /\ r.op = "upload"
      BY <1>1, <1>2, <1>6, <2>2 DEF RequestStates, Steps
    <3>2. There(i)'
      BY <1>4 DEF There
    <3> QED
      BY <1>3, <3>1, <3>2 DEF Sound
  <2> QED
    BY <2>1, <2>2
<1>9. req' \in [Requests -> RequestStates]
  BY <1>7, <1>8, BecomesFacts DEF MaterialInv, TypeOK
<1>10. links' \subseteq material' \X (shelf \cap Tags)
  BY <1>4, <1>5 DEF MaterialInv, TypeOK
<1>11. TypeOK'
  BY <1>4, <1>5, <1>9, <1>10 DEF MaterialInv, TypeOK, Fits
<1>12. \A j : TagsOf(j)' = TagsOf(j)
  BY <1>5 DEF TagsOf
<1>13. TagsOf(i)' = asked'[i]
  <2>1. TagsOf(i) = {}
    BY <1>2 DEF MaterialInv, TypeOK, TagsOf
  <2>2. asked[i] = {}
    BY <1>2, <1>3 DEF MaterialInv, TagsInv
  <2> QED
    BY <1>5, <1>12, <2>1, <2>2
<1>14. \A j : j # i => (j \in material' <=> j \in material)
  BY <1>4
<1> QED
  BY <1>1, <1>2, <1>3, <1>4, <1>5, <1>7, <1>8, <1>11, <1>12, <1>13, <1>14, MaterialTouched

(* save() of a held material writes one that is there, or one that two held.  *)
LEMMA SaveMaterialSafe ==
  ASSUME MaterialInv, NEW q \in Requests, SaveMaterial(q)
  PROVE  MaterialInv'
<1>1. PICK i : i = req[q].id
  OBVIOUS
<1>2. req[q].at = "saving" /\ req[q].op # "rename"
  BY DEF SaveMaterial, At
<1>3. /\ req[q] \in RequestStates /\ Sound(req[q]) /\ i \in Materials
      /\ There(i) => i \in material \cup overlapped
  BY <1>1, <1>2, HoldsMaterial
<1>4. i \in material \cup overlapped /\ req[q].group \in Groups \cup {None}
  BY <1>1, <1>2, <1>3 DEF Sound, RequestStates
<1>5. /\ material' = material \cup {i} /\ material' \subseteq Materials
      /\ groupOf' \in [Materials -> Groups \cup {None}]
      /\ \A m \in Materials : IF m \in material' THEN Fits(groupOf'[m]) ELSE groupOf'[m] = None
  BY <1>1, <1>3, <1>4, PutRowTypes DEF SaveMaterial
<1>6. UNCHANGED <<links, shelf, dir, gone, asked, overlapped, marred, halfway>>
  BY DEF SaveMaterial, history
<1>7. PICK r : r = IF req[q].op = "retag" THEN [req[q] EXCEPT !.at = "checking"] ELSE Idle
  OBVIOUS
<1>8. Becomes(q, r)
  BY <1>7 DEF SaveMaterial, Moves, Ends
<1>9. r \in RequestStates /\ r.id \in {i, None} /\ r.at # "inserting" /\ Sound(r)'
  <2>1. CASE req[q].op # "retag"
    BY <1>7, <2>1, IdleType DEF Sound
  <2>2. CASE req[q].op = "retag"
    <3>1. r \in RequestStates /\ r.id = i /\ r.at = "checking" /\ r.op = "retag"
      BY <1>1, <1>3, <1>7, <2>2 DEF RequestStates, Steps
    <3>2. There(i)'
      BY <1>5 DEF There
    <3> QED
      BY <1>3, <3>1, <3>2 DEF Sound
  <2> QED
    BY <2>1, <2>2
<1>10. req' \in [Requests -> RequestStates]
  BY <1>8, <1>9, BecomesFacts DEF MaterialInv, TypeOK
<1>11. links' \subseteq material' \X (shelf \cap Tags)
  BY <1>5, <1>6 DEF MaterialInv, TypeOK
<1>12. TypeOK'
  BY <1>5, <1>6, <1>10, <1>11 DEF MaterialInv, TypeOK, Fits
<1>13. \A j : TagsOf(j)' = TagsOf(j)
  BY <1>6 DEF TagsOf
<1>14. i \in overlapped \/ (i \in material /\ i \in dir \cup overlapped \cup halfway)
  BY <1>4 DEF MaterialInv, MaterialHasFile
<1>15. i \in overlapped \cup marred \cup halfway \/ TagsOf(i) = asked[i]
  <2>1. SUFFICES ASSUME i \in material \ (overlapped \cup marred \cup halfway)
                 PROVE  TagsOf(i) = asked[i]
    BY <1>14
  <2>2. ASSUME NEW o \in Requests, At(o, "dropping"), req[o].id = i PROVE FALSE
    <3>1. o # q /\ req[o].id = req[q].id /\ req[q].id # None
      BY <1>1, <1>2, <1>3, <2>2, MaterialLibraryAssumption DEF At
    <3> QED
      BY <1>1, <2>1, <3>1 DEF MaterialInv, HeldInv
  <2> QED
    BY <2>1, <2>2 DEF MaterialInv, TagsInv
<1>16. \A j : j # i => (j \in material' <=> j \in material)
  BY <1>5
<1>17. i \in material'
  BY <1>5
<1> QED
  BY <1>1, <1>3, <1>6, <1>8, <1>9, <1>12, <1>13, <1>14, <1>15, <1>16, <1>17, MaterialTouched

----------------------------------------------------------------------------
(* An upload begins: its id is nobody else's.                               *)
LEMMA BeginUploadSafe ==
  ASSUME MaterialInv, NEW q \in Requests, NEW m \in Materials, NEW g \in Groups \cup {None},
         NEW ts \in SUBSET Tags, BeginUpload(q, m, g, ts)
  PROVE  MaterialInv'
<1>1. PICK r : r = [op |-> "upload", at |-> "inserting", id |-> m, group |-> g, tags |-> ts]
  OBVIOUS
<1>2. /\ r \in RequestStates /\ r.id = m /\ r.at = "inserting" /\ r.op = "upload"
  BY <1>1 DEF RequestStates, Ops, Steps, Ids
<1>3. /\ Becomes(q, r) /\ dir' = dir \cup {m}
      /\ UNCHANGED <<material, groupOf, links, shelf, gone, asked, overlapped, marred, halfway>>
  BY <1>1 DEF BeginUpload, rows, history
<1>4. /\ m \notin material \cup gone \cup dir
      /\ \A o \in Requests : req[o].id # m
  BY DEF BeginUpload, Fresh, Held
<1>5. req[q].id = None /\ req[q].at = "idle"
  BY IdleType DEF BeginUpload
<1>6. /\ req' \in [Requests -> RequestStates] /\ req'[q] = r
      /\ \A o \in Requests : o # q => req'[o] = req[o]
  BY <1>2, <1>3, BecomesFacts DEF MaterialInv, TypeOK
<1>7. TypeOK'
  BY <1>3, <1>6 DEF MaterialInv, TypeOK, Fits
<1>8. SoundInv'
  <2>1. Sound(r)'
    BY <1>2, <1>3, <1>4 DEF Sound
  <2>2. ASSUME NEW s, Sound(s) PROVE Sound(s)'
    BY <1>3, <2>2 DEF Sound, There, TagsOf
  <2>3. ASSUME NEW o \in Requests, o # q PROVE Sound(req[o])'
    BY <1>6, <2>2, <2>3 DEF MaterialInv, SoundInv
  <2> QED
    BY <1>6, <2>1, <2>3 DEF SoundInv
<1>9. HeldInv'
  <2>1. r.id # None => \A o \in Requests :
          o # q /\ req[o].id = r.id => /\ r.id \in overlapped'
                                       /\ ~At(o, "inserting") /\ r.at # "inserting"
    BY <1>2, <1>4
  <2> QED
    BY <1>2, <1>3, <2>1, HeldMoves DEF MaterialInv
<1>10. TagsInv'
  <2>1. ASSUME NEW o \in Requests, At(o, "dropping") PROVE At(o, "dropping")' /\ req'[o] = req[o]
    BY <1>5, <1>6, <2>1 DEF At
  <2> QED
    BY <1>3, <2>1 DEF MaterialInv, TagsInv, TagsOf
<1>11. MaterialHasFile'
  BY <1>3 DEF MaterialInv, MaterialHasFile
<1>12. NoOrphanDirectory'
  <2>1. ASSUME NEW d \in dir' \ material PROVE Held(d)' \/ d \in overlapped \cup marred
    <3>1. CASE d = m
      BY <1>2, <1>6, <3>1 DEF Held
    <3>2. CASE d # m
      <4>1. (\E o \in Requests : req[o].id = d) \/ d \in overlapped \cup marred
        BY <1>3, <2>1, <3>2 DEF MaterialInv, NoOrphanDirectory, Held
      <4>2. d # None
        BY <1>3, <2>1, <3>2, MaterialLibraryAssumption DEF MaterialInv, TypeOK
      <4> QED
        BY <1>5, <1>6, <4>1, <4>2 DEF Held
    <3> QED
      BY <3>1, <3>2
  <2> QED
    BY <1>3, <2>1 DEF NoOrphanDirectory
<1> QED
  BY <1>7, <1>8, <1>9, <1>10, <1>11, <1>12 DEF MaterialInv

----------------------------------------------------------------------------
(* Groups and tags.                                                         *)

(* A new group or tag is linked to nothing.                                   *)
LEMMA CreateShelfSafe ==
  ASSUME MaterialInv, NEW i \in Groups \cup Tags, CreateShelf(i)
  PROVE  MaterialInv'
<1>1. shelf' = shelf \cup {i}
  BY DEF CreateShelf
<1>2. UNCHANGED <<material, groupOf, links, dir, req, gone, asked, overlapped, marred, halfway>>
  BY DEF CreateShelf, rows, history
<1>3. TypeOK'
  BY <1>1, <1>2 DEF MaterialInv, TypeOK, Fits
<1>4. SoundInv'
  <2>1. ASSUME NEW s, Sound(s) PROVE Sound(s)'
    BY <1>1, <1>2, <2>1 DEF Sound, There, TagsOf
  <2> QED
    BY <1>2, <2>1 DEF MaterialInv, SoundInv
<1>5. HeldInv' /\ TagsInv' /\ MaterialHasFile' /\ NoOrphanDirectory'
  BY <1>2 DEF MaterialInv, HeldInv, TagsInv, MaterialHasFile, NoOrphanDirectory, Held, At, TagsOf
<1> QED
  BY <1>3, <1>4, <1>5 DEF MaterialInv

(* save() of a held group or tag, which may have been removed meanwhile.      *)
LEMMA SaveNameSafe ==
  ASSUME MaterialInv, NEW q \in Requests, SaveName(q)
  PROVE  MaterialInv'
<1>1. PICK i : i = req[q].id
  OBVIOUS
<1>2. /\ req[q].at = "saving" /\ i \in Groups \cup Tags
  BY <1>1 DEF SaveName, At, MaterialInv, SoundInv, Sound
<1>3. i \notin Materials /\ i # None
  BY <1>2, MaterialLibraryAssumption
<1>4. PICK r : r = Idle
  OBVIOUS
<1>5. r \in RequestStates /\ r.id = None /\ r.at = "idle" /\ Sound(r)'
  BY <1>4, IdleType DEF Sound
<1>6. Becomes(q, r) /\ shelf' = shelf \cup {i}
  BY <1>1, <1>4 DEF SaveName, Ends
<1>7. UNCHANGED <<material, groupOf, links, dir, gone, asked, overlapped, marred, halfway>>
  BY DEF SaveName, rows, history
<1>8. /\ req' \in [Requests -> RequestStates] /\ req'[q] = r
      /\ \A o \in Requests : o # q => req'[o] = req[o]
  BY <1>5, <1>6, BecomesFacts DEF MaterialInv, TypeOK
<1>9. TypeOK'
  BY <1>2, <1>6, <1>7, <1>8 DEF MaterialInv, TypeOK, Fits
<1>10. SoundInv'
  <2>1. \A j : TagsOf(j)' = TagsOf(j)
    BY <1>7 DEF TagsOf
  <2> QED
    BY <1>1, <1>3, <1>5, <1>6, <1>7, <2>1, OthersSound
<1>11. HeldInv'
  BY <1>5, <1>6, <1>7, HeldStays DEF MaterialInv
<1>12. TagsInv'
  <2>1. ASSUME NEW o \in Requests, At(o, "dropping") PROVE At(o, "dropping")' /\ req'[o] = req[o]
    BY <1>2, <1>8, <2>1 DEF At
  <2> QED
    BY <1>7, <2>1 DEF MaterialInv, TagsInv, TagsOf
<1>13. MaterialHasFile'
  BY <1>7 DEF MaterialInv, MaterialHasFile
<1>14. NoOrphanDirectory'
  <2>1. ASSUME NEW d \in dir \ material PROVE Held(d)' \/ d \in overlapped \cup marred
    <3>1. (\E o \in Requests : req[o].id = d) \/ d \in overlapped \cup marred
      BY <2>1 DEF MaterialInv, NoOrphanDirectory, Held
    <3>2. d # i
      BY <1>3, <2>1 DEF MaterialInv, TypeOK
    <3> QED
      BY <1>1, <1>8, <3>1, <3>2 DEF Held
  <2> QED
    BY <1>7, <2>1 DEF NoOrphanDirectory
<1> QED
  BY <1>9, <1>10, <1>11, <1>12, <1>13, <1>14 DEF MaterialInv

(* A removed tag takes its links along, and nobody is owed it any more.       *)
LEMMA RemoveShelfSafe ==
  ASSUME MaterialInv, NEW i \in Groups \cup Tags, RemoveShelf(i)
  PROVE  MaterialInv'
<1>1. /\ shelf' = shelf \ {i} /\ groupOf' = WithoutGroup(i)
      /\ links' = { l \in links : l[2] # i }
      /\ asked' = [m \in Materials |-> asked[m] \ {i}]
      /\ gone' = gone \cup {i}
      /\ UNCHANGED <<material, dir, req, marred, halfway>>
  BY DEF RemoveShelf
<1>2. overlapped \subseteq overlapped' /\ overlapped' \subseteq Ids
  BY DEF RemoveShelf, MaterialInv, TypeOK, Ids
<1>3. i \notin Materials /\ i # None
  BY MaterialLibraryAssumption
<1>4. TypeOK'
  <2>1. /\ groupOf' \in [Materials -> Groups \cup {None}]
        /\ \A m \in Materials : IF m \in material THEN groupOf'[m] \in (shelf \ {i}) \cup {None}
                                                  ELSE groupOf'[m] = None
    BY <1>1, <1>3 DEF MaterialInv, TypeOK, WithoutGroup, Fits
  <2>2. links' \subseteq material \X ((shelf \ {i}) \cap Tags)
    BY <1>1 DEF MaterialInv, TypeOK
  <2>3. asked' \in [Materials -> SUBSET Tags]
    BY <1>1 DEF MaterialInv, TypeOK
  <2>4. gone' \subseteq Ids /\ shelf' \subseteq Groups \cup Tags
    BY <1>1 DEF MaterialInv, TypeOK, Ids
  <2> QED
    BY <1>1, <1>2, <2>1, <2>2, <2>3, <2>4 DEF MaterialInv, TypeOK, Fits
<1>5. SoundInv'
  <2>1. ASSUME NEW o \in Requests PROVE Sound(req[o])'
    <3>1. PICK s : s = req[o]
      OBVIOUS
    <3>2. Sound(s)
      BY <3>1 DEF MaterialInv, SoundInv
    <3>3. s.id = i => i \in overlapped' /\ s.at # "inserting"
      <4>1. s.id = i => i \in overlapped'
        BY <3>1 DEF RemoveShelf, Held
      <4>2. s.at = "inserting" => s.id \in Materials
        BY <3>2 DEF Sound
      <4> QED
        BY <1>3, <4>1, <4>2
    <3>4. \A j : j # i => /\ j \in material' <=> j \in material
                          /\ j \in shelf => j \in shelf'
                          /\ j \in dir => j \in dir'
                          /\ j \in gone' => j \in gone
                          /\ TagsOf(j)' \subseteq TagsOf(j)
      BY <1>1 DEF TagsOf
    <3>5. Sound(s)'
      BY <1>2, <3>2, <3>3, <3>4, StaysSound
    <3> QED
      BY <1>1, <3>1, <3>5
  <2> QED
    BY <2>1 DEF SoundInv
<1>6. HeldInv'
  BY <1>1, <1>2 DEF MaterialInv, HeldInv, At
<1>7. TagsInv'
  <2>1. ASSUME NEW m \in Materials PROVE TagsOf(m)' = TagsOf(m) \ {i} /\ asked'[m] = asked[m] \ {i}
    BY <1>1 DEF TagsOf
  <2>2. material \subseteq Materials
    BY DEF MaterialInv, TypeOK
  <2>3. ASSUME NEW m \in Materials \ (material' \cup gone') PROVE asked'[m] = {}
    BY <1>1, <1>3, <2>1, <2>3 DEF MaterialInv, TagsInv
  <2>4. ASSUME NEW m \in material' \ (overlapped' \cup marred' \cup halfway')
        PROVE  TagsOf(m)' = asked'[m] \/ \E o \in Requests : At(o, "dropping")' /\ req'[o].id = m
    BY <1>1, <1>2, <2>1, <2>2, <2>4 DEF MaterialInv, TagsInv, At
  <2> QED
    BY <2>3, <2>4 DEF TagsInv
<1>8. MaterialHasFile' /\ NoOrphanDirectory'
  BY <1>1, <1>2 DEF MaterialInv, MaterialHasFile, NoOrphanDirectory, Held
<1> QED
  BY <1>4, <1>5, <1>6, <1>7, <1>8 DEF MaterialInv

(* Every step keeps the invariant.                                            *)
LEMMA NextSafe == MaterialInv /\ [Next]_vars => MaterialInv'
<1> SUFFICES ASSUME MaterialInv, [Next]_vars PROVE MaterialInv'
  OBVIOUS
<1>1. CASE UNCHANGED vars
  BY <1>1 DEF vars, MaterialInv, TypeOK, Fits, SoundInv, Sound, There, TagsOf, HeldInv, At,
              TagsInv, MaterialHasFile, NoOrphanDirectory, Held
<1>2. ASSUME NEW q \in Requests, NEW m \in Materials,
             \/ \E g \in Groups \cup {None} :
                   \/ \E ts \in SUBSET Tags : BeginUpload(q, m, g, ts)
                   \/ BeginUpdate(q, m, g)
             \/ \E ts \in SUBSET Tags : BeginRetag(q, m, ts)
             \/ BeginRemove(q, m)
      PROVE  MaterialInv'
  BY <1>2, BeginUploadSafe, BeginUpdateSafe, BeginRetagSafe, BeginRemoveSafe
<1>3. ASSUME NEW q \in Requests,
             \/ \E i \in Groups \cup Tags : BeginRename(q, i)
             \/ InsertMaterial(q) \/ UploadFails(q) \/ SaveMaterial(q) \/ CheckTags(q)
             \/ SaveName(q) \/ RequestDies(q)
      PROVE  MaterialInv'
  BY <1>3, BeginRenameSafe, InsertMaterialSafe, UploadFailsSafe, SaveMaterialSafe,
     CheckTagsSafe, SaveNameSafe, RequestDiesSafe
<1>4. ASSUME NEW q \in Requests,
             \/ UnlinkTags(q) \/ LinkTags(q)
             \/ DeleteLinks(q) \/ DropMaterial(q) \/ ClearDirectory(q)
      PROVE  MaterialInv'
  BY <1>4, UnlinkTagsSafe, LinkTagsSafe, DeleteLinksSafe, DropMaterialSafe, ClearDirectorySafe
<1>5. ASSUME NEW i \in Groups \cup Tags, CreateShelf(i) \/ RemoveShelf(i)
      PROVE  MaterialInv'
  BY <1>5, CreateShelfSafe, RemoveShelfSafe
<1> QED
  BY <1>1, <1>2, <1>3, <1>4, <1>5 DEF Next

(* A row or a shelf that appears was never gone, or was held twice.         *)
LEMMA NothingComesBack ==
  ASSUME MaterialInv, [Next]_vars, NEW i \in gone, i \in (material \cup shelf)'
  PROVE  i \in material \cup shelf \cup overlapped
<1>1. CASE UNCHANGED <<material, shelf>>
  BY <1>1
<1>2. CASE material' \subseteq material /\ shelf' \subseteq shelf
  BY <1>2
<1>3. ASSUME NEW q \in Requests, InsertMaterial(q) PROVE i \in material \cup shelf
  <2>1. req[q].id \notin gone
    BY <1>3 DEF InsertMaterial, At, MaterialInv, SoundInv, Sound
  <2> QED
    BY <1>3, <2>1 DEF InsertMaterial, PutRow
<1>4. ASSUME NEW q \in Requests, SaveMaterial(q) \/ SaveName(q)
      PROVE  i \in material \cup shelf \cup overlapped
  <2>1. There(req[q].id)
    BY <1>4 DEF SaveMaterial, SaveName, At, MaterialInv, SoundInv, Sound
  <2>2. CASE SaveMaterial(q)
    <3>1. material' = material \cup {req[q].id} /\ shelf' = shelf
      BY <2>2 DEF SaveMaterial, PutRow
    <3> QED
      BY <2>1, <3>1 DEF There
  <2>3. CASE SaveName(q)
    <3>1. material' = material /\ shelf' = shelf \cup {req[q].id}
      BY <2>3 DEF SaveName, rows
    <3> QED
      BY <2>1, <3>1 DEF There
  <2> QED
    BY <1>4, <2>2, <2>3
<1>5. ASSUME NEW j \in Groups \cup Tags, CreateShelf(j) PROVE i \in material \cup shelf
  BY <1>5 DEF CreateShelf, Fresh, rows
<1>6. ASSUME NEW j \in Groups \cup Tags, RemoveShelf(j) PROVE i \in material \cup shelf
  BY <1>6 DEF RemoveShelf
<1>7. ASSUME NEW q \in Requests, DropMaterial(q) PROVE i \in material \cup shelf
  BY <1>7 DEF DropMaterial
<1>8. ASSUME NEW q \in Requests,
             \/ UploadFails(q) \/ CheckTags(q) \/ UnlinkTags(q) \/ LinkTags(q)
             \/ DeleteLinks(q) \/ ClearDirectory(q) \/ RequestDies(q)
      PROVE  UNCHANGED <<material, shelf>>
  BY <1>8 DEF UploadFails, CheckTags, UnlinkTags, LinkTags, DeleteLinks, ClearDirectory,
              RequestDies, rows
<1>9. ASSUME NEW q \in Requests, NEW m \in Materials,
             \/ \E g \in Groups \cup {None} :
                   \/ \E ts \in SUBSET Tags : BeginUpload(q, m, g, ts)
                   \/ BeginUpdate(q, m, g)
             \/ \E ts \in SUBSET Tags : BeginRetag(q, m, ts)
             \/ BeginRemove(q, m)
      PROVE  UNCHANGED <<material, shelf>>
  BY <1>9 DEF BeginUpload, BeginUpdate, BeginRetag, BeginRemove, Find, rows
<1>10. ASSUME NEW q \in Requests, NEW j \in Groups \cup Tags, BeginRename(q, j)
       PROVE  UNCHANGED <<material, shelf>>
  BY <1>10 DEF BeginRename, Find, rows
<1>11. CASE UNCHANGED vars
  BY <1>11 DEF vars
<1> QED
  BY <1>1, <1>2, <1>3, <1>4, <1>5, <1>6, <1>7, <1>8, <1>9, <1>10, <1>11 DEF Next

----------------------------------------------------------------------------
(* The inductive invariant of the material library.                         *)
THEOREM MaterialInvariance == Spec => []MaterialInv
<1> QED
  BY InitMaterial, NextSafe, PTL DEF Spec

(* Every variable keeps its type, and the foreign keys hold: no link without *)
(* its material and tag, no material in a group that is gone.               *)
THEOREM MaterialTypeCorrect == Spec => []TypeOK
<1>1. MaterialInv => TypeOK
  BY DEF MaterialInv
<1> QED
  BY <1>1, MaterialInvariance, PTL

(* MaterialService: a material shown has its file, but where two requests   *)
(* met or an upload failed at its tags.                                     *)
THEOREM ShownHasFile == Spec => []MaterialHasFile
<1>1. MaterialInv => MaterialHasFile
  BY DEF MaterialInv
<1> QED
  BY <1>1, MaterialInvariance, PTL

(* MaterialStorageService: no directory outlives its material, but where a  *)
(* request broke off or two met.                                            *)
THEOREM DirectoryHasRow == Spec => []NoOrphanDirectory
<1>1. MaterialInv => NoOrphanDirectory
  BY DEF MaterialInv
<1> QED
  BY <1>1, MaterialInvariance, PTL

(* replaceTagLinks: a material at rest carries the tags last put on it,     *)
(* unless two requests met on it, one broke off, or its upload failed at    *)
(* its tags.                                                                *)
THEOREM RightTags == Spec => []TagsAsAsked
<1>1. MaterialInv => TagsAsAsked
  BY DEF MaterialInv, TagsInv, TagsAsAsked, Held
<1> QED
  BY <1>1, MaterialInvariance, PTL

(* What was removed comes back only by the save() of a request that held it. *)
THEOREM GoneStaysGone == Spec => RemovedStaysRemoved
<1>1. MaterialInv /\ [Next]_vars =>
        [\A i \in gone : i \in (material \cup shelf)' => i \in material \cup shelf \cup overlapped]_vars
  BY NothingComesBack
<1> QED
  BY <1>1, MaterialInvariance, PTL DEF Spec, RemovedStaysRemoved
=============================================================================
