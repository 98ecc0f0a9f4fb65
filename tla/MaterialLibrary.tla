-------------------------- MODULE MaterialLibrary --------------------------
(***************************************************************************)
(* The material library of one user: materials with their files, groups,   *)
(* tags and the links between tags and materials (MaterialService,         *)
(* MaterialGroupService, MaterialTagService, MaterialStorageService).      *)
(* Each write of the database or the disk is one action; the checks before *)
(* the first write are one.  save() writes the entity the handler found,   *)
(* and inserts it again when the row is gone.  MySQL gives the foreign      *)
(* keys: links go with their material or tag, a material loses its group.   *)
(* Names and the quota are left out.                                       *)
(***************************************************************************)
EXTENDS Integers, FiniteSets

CONSTANTS
    Materials,   \* ids of materials; each has a directory of its own
    Groups,
    Tags,
    Requests,    \* requests served at a time
    None

(* Every id is a randomUUID: none is that of two things.                    *)
ASSUME MaterialLibraryAssumption ==
    /\ None \notin Materials \cup Groups \cup Tags
    /\ Materials \cap (Groups \cup Tags) = {} /\ Groups \cap Tags = {}

VARIABLES
    material,    \* rows of materials
    groupOf,     \* group_id of a row, or None
    links,       \* material_tag_links
    shelf,       \* rows of material_groups and material_tags
    dir,         \* directories on the disk
    req,         \* what each request is about to do, and what it holds
    gone,        \* history: ids whose row was removed
    asked,       \* history: the tags last put on a material
    overlapped,  \* history: ids that two requests held at a time
    marred,      \* history: materials on which a request broke off
    halfway      \* history: materials whose upload failed after the row

vars == <<material, groupOf, links, shelf, dir, req, gone, asked, overlapped, marred, halfway>>
rows == <<material, groupOf, links>>
history == <<gone, asked, overlapped, marred, halfway>>

Idle == [op |-> "none", at |-> "idle", id |-> None, group |-> None, tags |-> {}]
Ops == {"none", "upload", "update", "retag", "remove", "rename"}
Steps == {"idle", "inserting", "saving", "checking", "unlinking", "linking", "dropping",
          "clearing"}
Ids == Materials \cup Groups \cup Tags
RequestStates == [op : Ops, at : Steps, id : Ids \cup {None}, group : Groups \cup {None},
                  tags : SUBSET Tags]

TagsOf(m) == { t \in Tags : <<m, t>> \in links }
Held(i) == \E q \in Requests : req[q].id = i
Fits(g) == g \in shelf \cup {None}

(* Types, and what the foreign keys give.                                   *)
TypeOK ==
    /\ material \subseteq Materials /\ shelf \subseteq Groups \cup Tags
    /\ groupOf \in [Materials -> Groups \cup {None}]
    /\ \A m \in Materials : IF m \in material THEN Fits(groupOf[m]) ELSE groupOf[m] = None
    /\ links \subseteq material \X (shelf \cap Tags)
    /\ req \in [Requests -> RequestStates]
    /\ asked \in [Materials -> SUBSET Tags]
    /\ gone \subseteq Ids /\ overlapped \subseteq Ids
    /\ dir \subseteq Materials /\ marred \subseteq Materials /\ halfway \subseteq Materials

Init ==
    /\ material = {} /\ links = {} /\ shelf = {} /\ dir = {}
    /\ groupOf = [m \in Materials |-> None]
    /\ req = [q \in Requests |-> Idle]
    /\ asked = [m \in Materials |-> {}]
    /\ gone = {} /\ overlapped = {} /\ marred = {} /\ halfway = {}

At(q, step) == req[q].at = step
Becomes(q, r) == req' = [req EXCEPT ![q] = r]
Moves(q, step) == Becomes(q, [req[q] EXCEPT !.at = step])
Ends(q) == Becomes(q, Idle)

(* Mutant: an id may come back once its row is gone.                        *)
NoRow(i) == i \notin material \cup shelf \cup dir /\ ~Held(i)

Fresh(i) == i \notin material \cup shelf \cup dir \cup gone /\ ~Held(i)   \* randomUUID

(* findOwnedMaterial, findOwnedGroup, findOwnedTag.                         *)
Find(q, i, r) ==
    /\ req[q] = Idle /\ i \in material \cup shelf
    /\ Becomes(q, [r EXCEPT !.id = i])
    /\ overlapped' = IF Held(i) THEN overlapped \cup {i} ELSE overlapped
    /\ UNCHANGED <<rows, shelf, dir, gone, asked, marred, halfway>>

----------------------------------------------------------------------------
(* upload: group and tags are checked, the file is written, then the row,   *)
(* then the links.  When the row cannot be written, its group being gone,   *)
(* or a link cannot, the catch block removes the directory, not the row.    *)

BeginUpload(q, m, g, ts) ==
    /\ req[q] = Idle /\ Fresh(m)
    /\ Fits(g) /\ ts \subseteq shelf
    /\ dir' = dir \cup {m}
    /\ Becomes(q, [op |-> "upload", at |-> "inserting", id |-> m, group |-> g, tags |-> ts])
    /\ UNCHANGED <<rows, shelf, history>>

PutRow(m, g) ==
    /\ Fits(g)
    /\ material' = material \cup {m} /\ groupOf' = [groupOf EXCEPT ![m] = g]

InsertMaterial(q) ==
    /\ At(q, "inserting")
    /\ PutRow(req[q].id, req[q].group)
    /\ IF req[q].tags = {} THEN Ends(q) ELSE Moves(q, "unlinking")
    /\ UNCHANGED <<links, shelf, dir, history>>

(* Mutant: the file goes, the directory of the material stays.              *)
DirKept(m) == dir

DirWithout(m) == dir \ {m}                       \* removeMaterialDirectory

UploadFails(q) ==
    /\ req[q].op = "upload"
    /\ dir' = DirWithout(req[q].id)
    /\ halfway' = IF At(q, "inserting") THEN halfway ELSE halfway \cup {req[q].id}
    /\ Ends(q)
    /\ UNCHANGED <<rows, shelf, gone, asked, overlapped, marred>>

----------------------------------------------------------------------------
(* update: the material that was found is saved, with another group if one   *)
(* is given and there; only then are the tags looked up and replaced.       *)

BeginUpdate(q, m, g) ==
    /\ Fits(g)
    /\ Find(q, m, [Idle EXCEPT !.op = "update", !.at = "saving", !.group = g])

BeginRetag(q, m, ts) ==
    Find(q, m, [Idle EXCEPT !.op = "retag", !.at = "saving", !.group = groupOf[m], !.tags = ts])

SaveMaterial(q) ==
    /\ At(q, "saving") /\ req[q].op # "rename"
    /\ PutRow(req[q].id, req[q].group)
    /\ IF req[q].op = "retag" THEN Moves(q, "checking") ELSE Ends(q)
    /\ UNCHANGED <<links, shelf, dir, history>>

(* findOwnedTags: 404 when one is not there.                                *)
CheckTags(q) ==
    /\ At(q, "checking")
    /\ IF req[q].tags \subseteq shelf THEN Moves(q, "unlinking") ELSE Ends(q)
    /\ UNCHANGED <<rows, shelf, dir, history>>

(* replaceTagLinks: one delete, and one save of the new links, which is     *)
(* refused when the material or a tag is gone.                              *)

LinksWithout(m) == { l \in links : l[1] # m }

(* Mutant: the links are only added to.                                     *)
LinksKept(m) == links

Relinked(m) == LinksWithout(m)

UnlinkTags(q) ==
    /\ At(q, "unlinking") /\ req[q].op # "remove"
    /\ links' = Relinked(req[q].id)
    /\ asked' = [asked EXCEPT ![req[q].id] = {}]
    /\ IF req[q].tags = {} THEN Ends(q) ELSE Moves(q, "linking")
    /\ UNCHANGED <<material, groupOf, shelf, dir, gone, overlapped, marred, halfway>>

LinkTags(q) ==
    /\ At(q, "linking")
    /\ req[q].id \in material /\ req[q].tags \subseteq shelf
    /\ links' = links \cup ({req[q].id} \X req[q].tags)
    /\ asked' = [asked EXCEPT ![req[q].id] = req[q].tags]
    /\ Ends(q)
    /\ UNCHANGED <<material, groupOf, shelf, dir, gone, overlapped, marred, halfway>>

----------------------------------------------------------------------------
(* remove: the links, the row, the directory.                               *)

(* Mutant: the directory goes before the row.                               *)
FileFirst == <<"unlinking", "clearing", "dropping">>

RemovalOrder == <<"unlinking", "dropping", "clearing">>

BeginRemove(q, m) == Find(q, m, [Idle EXCEPT !.op = "remove", !.at = RemovalOrder[1]])

GoesOn(q) == IF At(q, RemovalOrder[3]) THEN Ends(q)
             ELSE \E k \in 1..2 : At(q, RemovalOrder[k]) /\ Moves(q, RemovalOrder[k + 1])

DeleteLinks(q) ==
    /\ At(q, "unlinking") /\ req[q].op = "remove"
    /\ links' = LinksWithout(req[q].id)
    /\ GoesOn(q)
    /\ UNCHANGED <<material, groupOf, shelf, dir, history>>

DropMaterial(q) ==
    /\ At(q, "dropping")
    /\ material' = material \ {req[q].id}
    /\ groupOf' = [groupOf EXCEPT ![req[q].id] = None]
    /\ links' = LinksWithout(req[q].id)
    /\ gone' = gone \cup {req[q].id}
    /\ GoesOn(q)
    /\ UNCHANGED <<shelf, dir, asked, overlapped, marred, halfway>>

ClearDirectory(q) ==
    /\ At(q, "clearing")
    /\ dir' = DirWithout(req[q].id)
    /\ GoesOn(q)
    /\ UNCHANGED <<rows, shelf, history>>

----------------------------------------------------------------------------
(* Groups and tags: create, rename (find, then save), remove.               *)

CreateShelf(i) ==
    /\ Fresh(i)
    /\ shelf' = shelf \cup {i}
    /\ UNCHANGED <<rows, dir, req, history>>

BeginRename(q, i) ==
    i \in shelf /\ Find(q, i, [Idle EXCEPT !.op = "rename", !.at = "saving"])

SaveName(q) ==
    /\ At(q, "saving") /\ req[q].op = "rename"
    /\ shelf' = shelf \cup {req[q].id}
    /\ Ends(q)
    /\ UNCHANGED <<rows, dir, history>>

WithoutGroup(g) == [m \in Materials |-> IF groupOf[m] = g THEN None ELSE groupOf[m]]

RemoveShelf(i) ==
    /\ i \in shelf
    /\ shelf' = shelf \ {i}
    /\ groupOf' = WithoutGroup(i)
    /\ links' = { l \in links : l[2] # i }
    /\ asked' = [m \in Materials |-> asked[m] \ {i}]
    /\ gone' = gone \cup {i}
    /\ overlapped' = IF Held(i) THEN overlapped \cup {i} ELSE overlapped
    /\ UNCHANGED <<material, dir, req, marred, halfway>>

(* The process stops, or the database or the disk refuses the next call.    *)
RequestDies(q) ==
    /\ req[q] # Idle
    /\ marred' = marred \cup (Materials \cap {req[q].id})
    /\ Ends(q)
    /\ UNCHANGED <<rows, shelf, dir, gone, asked, overlapped, halfway>>

Next ==
    \/ \E q \in Requests :
        \/ \E m \in Materials :
            \/ \E g \in Groups \cup {None} :
                \/ \E ts \in SUBSET Tags : BeginUpload(q, m, g, ts)
                \/ BeginUpdate(q, m, g)
            \/ \E ts \in SUBSET Tags : BeginRetag(q, m, ts)
            \/ BeginRemove(q, m)
        \/ \E i \in Groups \cup Tags : BeginRename(q, i)
        \/ InsertMaterial(q) \/ UploadFails(q) \/ SaveMaterial(q) \/ CheckTags(q)
        \/ UnlinkTags(q) \/ LinkTags(q)
        \/ DeleteLinks(q) \/ DropMaterial(q) \/ ClearDirectory(q)
        \/ SaveName(q) \/ RequestDies(q)
    \/ \E i \in Groups \cup Tags : CreateShelf(i) \/ RemoveShelf(i)

Spec == Init /\ [][Next]_vars

----------------------------------------------------------------------------
(* A material that is shown has its file, in every state in between and     *)
(* after every crash, unless two requests held it at a time or its upload   *)
(* failed at its tags, whose catch block removes the directory of a row     *)
(* that is there.                                                           *)
MaterialHasFile == material \subseteq dir \cup overlapped \cup halfway

(* A directory without a row is one of a request under way, or of one that  *)
(* broke off or met another.                                                *)
NoOrphanDirectory ==
    \A m \in dir \ material : Held(m) \/ m \in overlapped \cup marred

(* replaceTagLinks, the cascade and the removals together: a material at    *)
(* rest carries the tags last put on it which are still there, unless two   *)
(* requests held it at a time, one broke off on it, or its upload failed at *)
(* its tags.                                                                *)
TagsAsAsked ==
    \A m \in material \ (overlapped \cup marred \cup halfway) :
        ~Held(m) => TagsOf(m) = asked[m]

(* What was removed comes back only by the save() of a request that held it *)
(* while it was removed.                                                    *)
RemovedStaysRemoved ==
    [][\A i \in gone : i \in (material \cup shelf)' => i \in material \cup shelf \cup overlapped]_vars

----------------------------------------------------------------------------
(* The inductive invariant.  Sound: what a request holds fits its next step. *)
(* HeldInv: an id that two requests hold is recorded, and an upload is alone *)
(* until its row is there.  TagsInv: the tags put on a material are there,  *)
(* but in the midst of its removal.                                         *)
There(i) == i \in material \cup shelf \cup overlapped

Sound(r) ==
    /\ IF r.at = "idle" THEN r = Idle
       ELSE r.id \in (IF r.op = "rename" THEN Groups \cup Tags ELSE Materials)
    /\ r.at = "inserting" => r.op = "upload" /\ r.id \notin material \cup gone /\ r.id \in dir
    /\ r.at = "saving" => r.op \in {"update", "retag", "rename"} /\ There(r.id)
    /\ r.at \in {"checking", "linking"} => r.op \in {"upload", "retag"} /\ There(r.id)
    /\ r.at = "unlinking" => r.op = "remove" \/ (r.op \in {"upload", "retag"} /\ There(r.id))
    /\ r.at = "linking" => TagsOf(r.id) = {} \/ r.id \in overlapped
    /\ r.at \in {"dropping", "clearing"} => r.op = "remove"
    /\ r.at = "clearing" => r.id \notin material \/ r.id \in overlapped

SoundInv == \A q \in Requests : Sound(req[q])

HeldInv ==
    \A q, o \in Requests : q # o /\ req[q].id = req[o].id /\ req[q].id # None
                          => req[q].id \in overlapped /\ ~At(q, "inserting")

TagsInv ==
    /\ \A m \in Materials \ (material \cup gone) : asked[m] = {}
    /\ \A m \in material \ (overlapped \cup marred \cup halfway) :
         TagsOf(m) = asked[m] \/ \E q \in Requests : At(q, "dropping") /\ req[q].id = m

MaterialInv == TypeOK /\ SoundInv /\ HeldInv /\ TagsInv /\ MaterialHasFile /\ NoOrphanDirectory
=============================================================================
