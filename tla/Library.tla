------------------------------ MODULE Library ------------------------------
(***************************************************************************)
(* Attachments: the files of the upload directory and the rows that name   *)
(* them (app/routers/jobs.py, tokens.py and media.py, with the plans of    *)
(* services/series_forms.py and the imports of series_imports.py). A file  *)
(* is shared by a job and its copies, so it is removed when the last row   *)
(* that names it has gone, by whichever request finds that out.            *)
(*                                                                         *)
(* A request is a coroutine that reads rows, writes files, commits and     *)
(* removes files in separate steps, with other requests in between; a      *)
(* restart cuts it off. Files get fresh names (uuid4), numbered here in    *)
(* the order of writing. The claim that keeps two edits of one series      *)
(* apart (jobs.py:1136) is left out: what is said here holds without it.   *)
(*                                                                         *)
(* A definition named like its successor with a word added is a slip the   *)
(* properties must notice; no action uses it.                              *)
(***************************************************************************)
EXTENDS Integers, FiniteSets

CONSTANTS Request,    \* coroutines handling requests
          Jobs,       \* job ids
          MaxFiles,   \* bound: files ever written
          MaxOps,     \* bound: requests
          MaxCrashes  \* bound: restarts

ASSUME LibraryAssumption ==
  /\ Jobs \in Nat \ {0} /\ MaxFiles \in Nat /\ MaxOps \in Nat /\ MaxCrashes \in Nat

VARIABLES
  row,     \* the jobs: does the row exist, and its image (0: none)
  assets,  \* attachments of series: path, the job it is a copy for (0: the import itself),
           \*   and the job whose part has it (0: an unused import)
  disk,    \* files in the upload directory
  made,    \* files written so far
  req,     \* requests under way
  torn,    \* files removed rightly while somebody could still store their name
  leaked,  \* files the requests lost sight of
  ops, crashes

vars == <<row, assets, disk, made, req, torn, leaked, ops, crashes>>

Job == 1..Jobs
Path == 1..MaxFiles
Row == [live : BOOLEAN, image : 0..MaxFiles]
Asset == [path : Path, copy : 0..Jobs, owner : 0..Jobs]

(* A request: its kind, the job it loaded (0: a new one), the image it     *)
(* read, the file it wrote, and the attachments or files it works on.      *)
Coroutine == [op : {"none", "create", "import", "edit", "unlinked", "plan", "clone", "delete",
                    "expire", "clean"},
              job : 0..Jobs, old : 0..MaxFiles, new : 0..MaxFiles, refs : SUBSET (Path \X (0..Jobs))]
Idle == [op |-> "none", job |-> 0, old |-> 0, new |-> 0, refs |-> {}]
Gone == [live |-> FALSE, image |-> 0]

TypeOK ==
  /\ row \in [Job -> Row] /\ assets \subseteq Asset /\ disk \subseteq Path /\ made \in 0..MaxFiles
  /\ req \in [Request -> Coroutine] /\ torn \subseteq Path /\ leaked \subseteq Path
  /\ ops \in 0..MaxOps /\ crashes \in 0..MaxCrashes

Live == {j \in Job : row[j].live}
Images(jobs) == {row[j].image : j \in jobs} \ {0}
Owned(owners) == {a \in assets : a.owner \in owners}
Files(owners) == {a.path : a \in Owned(owners)}
Refs(owners) == {<<a.path, a.copy>> : a \in Owned(owners)}
Named == Images(Live) \cup Files(0..Jobs)
Paths(refs) == {r[1] : r \in refs}
ReadsAnything(c) == {req[c].old} \cup Paths(req[c].refs)
Reads(c) == ({req[c].old} \ {0}) \cup Paths(req[c].refs)

Becomes(c, state) == req' = [req EXCEPT ![c] = state]
Starts(c) == req[c].op = "none" /\ ops < MaxOps /\ ops' = ops + 1 /\ UNCHANGED crashes
Goes(c, op) == req[c].op = op /\ UNCHANGED <<ops, crashes>>

(* A file is removed; a copy in the making may have read its name.         *)
Unlink(files) ==
  /\ disk' = disk \ files
  /\ torn' = torn \cup {p \in files \cap disk : \E c \in Request :
                          req[c].op = "clone" /\ p \in Reads(c)}

-----------------------------------------------------------------------------
(* save_upload, and split_pdf for a plan: the file is on disk before any   *)
(* row names it.                                                           *)
Save(c, op, job, old, refs) ==
  /\ Starts(c) /\ made < MaxFiles /\ made' = made + 1 /\ disk' = disk \cup {made + 1}
  /\ Becomes(c, [op |-> op, job |-> job, old |-> old, new |-> made + 1, refs |-> refs])
  /\ UNCHANGED <<row, assets, torn, leaked>>

Upload(c) == Save(c, "create", 0, 0, {})
Import(c) == Save(c, "import", 0, 0, {})

(* A form refused after its file was saved, or a commit that fails, takes  *)
(* the file away again.                                                    *)
Refused(c) ==
  /\ \E op \in {"create", "import", "edit"} : Goes(c, op)
  /\ Unlink({req[c].new}) /\ Becomes(c, Idle) /\ UNCHANGED <<row, assets, made, leaked>>

CreateJob(c, j) ==
  /\ Goes(c, "create") /\ j \notin Live
  /\ row' = [row EXCEPT ![j] = [live |-> TRUE, image |-> req[c].new]]
  /\ Becomes(c, Idle) /\ UNCHANGED <<assets, disk, made, torn, leaked>>

ImportFile(c) ==
  /\ Goes(c, "import")
  /\ assets' = assets \cup {[path |-> req[c].new, copy |-> 0, owner |-> 0]}
  /\ Becomes(c, Idle) /\ UNCHANGED <<row, disk, made, torn, leaked>>

-----------------------------------------------------------------------------
(* edit_job with a new image: the job is loaded and the image saved, the   *)
(* old one removed at once if no other row names it, then the commit, then *)
(* a second look at the old one. A series becomes an ordinary job: what    *)
(* its parts had is let go.                                                *)
EditLoads(c, j) == j \in Live /\ Save(c, "edit", j, row[j].image, Refs({j}))

ReferencedHere(p, j) == p \in Images({j})
Referenced(p, j) == p \in Images(Live \ {j}) \cup Files(0..Jobs)
EditUnlinks(c) ==
  /\ Goes(c, "edit") /\ Becomes(c, [req[c] EXCEPT !.op = "unlinked"])
  /\ LET old == req[c].old
         unused == IF old = 0 \/ Referenced(old, req[c].job) THEN {} ELSE {old}
     IN /\ disk' = disk \ unused
        /\ torn' = torn \cup ({old} \ ({0} \cup Images(Live \ {req[c].job}) \cup Files(0..Jobs)))
  /\ UNCHANGED <<row, assets, made, leaked>>

(* What the request leaves to be cleaned up.                               *)
Leaves(c, files) ==
  Becomes(c, IF files = {} THEN Idle ELSE [Idle EXCEPT !.op = "clean", !.refs = files \X {0}])

(* register_job refuses a date that has passed, or the row has gone: the   *)
(* new file is forgotten.                                                  *)
EditFails(c) ==
  /\ Goes(c, "unlinked") /\ Becomes(c, Idle)
  /\ leaked' = leaked \cup {req[c].new} /\ UNCHANGED <<row, assets, disk, made, torn>>

EditCommits(c) ==
  /\ Goes(c, "unlinked")
  /\ LET j == req[c].job
         let_go == IF req[c].refs = {} THEN {} ELSE Owned({j})
     IN /\ j \in Live /\ row' = [row EXCEPT ![j].image = req[c].new]
        /\ assets' = assets \ let_go
        /\ leaked' = leaked \cup ({row[j].image} \ {0, req[c].old})
        /\ Leaves(c, {a.path : a \in let_go} \cup ({req[c].old} \ {0}))
  /\ UNCHANGED <<disk, made, torn>>

(* delete_unreferenced_path, for what a committed request left behind.     *)
CleanAny(p) == Unlink({p})
Clean(p) == Unlink({p} \ Named)
CleansUp(c) ==
  /\ Goes(c, "clean")
  /\ \E r \in req[c].refs :
       /\ Clean(r[1])
       /\ Becomes(c, IF req[c].refs = {r} THEN Idle ELSE [req[c] EXCEPT !.refs = @ \ {r}])
  /\ UNCHANGED <<row, assets, made, leaked>>

-----------------------------------------------------------------------------
(* A series: validate_plan accepts imports nobody uses and attachments of  *)
(* the series being edited; persist_plan gives them to it and drops its    *)
(* other ones. j = 0: a new series.                                        *)
PlanLoads(c, j, refs) ==
  /\ Starts(c) /\ j \in {0} \cup Live /\ refs # {} /\ refs \subseteq Refs({0, j})
  /\ Becomes(c, [op |-> "plan", job |-> j, old |-> IF j = 0 THEN 0 ELSE row[j].image, new |-> 0,
                 refs |-> refs])
  /\ UNCHANGED <<row, assets, disk, made, torn, leaked>>

(* The form is refused, or an attachment has been deleted since.           *)
PlanFails(c) ==
  /\ Goes(c, "plan") /\ Becomes(c, Idle) /\ UNCHANGED <<row, assets, disk, made, torn, leaked>>

DroppedNone(j, refs) == {}
Dropped(j, refs) == Paths(Refs({j}) \ refs)
PlanCommits(c, j) ==
  /\ Goes(c, "plan") /\ req[c].refs \subseteq Refs(0..Jobs)
  /\ IF req[c].job = 0 THEN j \notin Live ELSE j = req[c].job /\ j \in Live
  /\ LET kept == {a \in assets : <<a.path, a.copy>> \in req[c].refs}
     IN /\ assets' = (assets \ (Owned({j}) \cup kept)) \cup {[a EXCEPT !.owner = j] : a \in kept}
        /\ row' = [row EXCEPT ![j] = [live |-> TRUE, image |-> 0]]
        /\ Leaves(c, Dropped(j, req[c].refs) \cup ({req[c].old} \ {0}))
        /\ leaked' = leaked \cup ({row[j].image} \ {0, req[c].old})
  /\ UNCHANGED <<disk, made, torn>>

-----------------------------------------------------------------------------
(* clone_job: the copy names the same files.                               *)
CloneLoads(c, j) ==
  /\ Starts(c) /\ j \in Live
  /\ Becomes(c, [op |-> "clone", job |-> j, old |-> row[j].image, new |-> 0, refs |-> Refs({j})])
  /\ UNCHANGED <<row, assets, disk, made, torn, leaked>>

CloneCommits(c, k) ==
  /\ Goes(c, "clone") /\ k \notin Live
  /\ row' = [row EXCEPT ![k] = [live |-> TRUE, image |-> req[c].old]]
  /\ assets' = assets \cup [path : Paths(req[c].refs), copy : {k}, owner : {k}]
  /\ Becomes(c, Idle) /\ UNCHANGED <<disk, made, torn, leaked>>

(* delete_job reads what the job names, then deletes it; an edit in        *)
(* between gave it files that stay.                                        *)
DeleteLoads(c, j) ==
  /\ Starts(c) /\ j \in Live
  /\ Becomes(c, [op |-> "delete", job |-> j, old |-> row[j].image, new |-> 0, refs |-> Refs({j})])
  /\ UNCHANGED <<row, assets, disk, made, torn, leaked>>

DeleteCommits(c) ==
  /\ Goes(c, "delete")
  /\ LET j == req[c].job
     IN /\ row' = [row EXCEPT ![j] = Gone] /\ assets' = assets \ Owned({j})
        /\ leaked' = leaked \cup ((Images({j}) \cup Files({j})) \ Reads(c))
        /\ Leaves(c, Reads(c))
  /\ UNCHANGED <<disk, made, torn>>

(* delete_token: the jobs of a connection go, and the images no other job  *)
(* has. The files of its series stay (tokens.py:229 takes images only).    *)
DeleteToken(c, mine) ==
  /\ Starts(c) /\ mine # {} /\ mine \subseteq Live
  /\ row' = [j \in Job |-> IF j \in mine THEN Gone ELSE row[j]]
  /\ assets' = assets \ Owned(mine)
  /\ Unlink(Images(mine) \ Images(Live \ mine))
  /\ leaked' = leaked \cup Files(mine)
  /\ UNCHANGED <<made, req>>

(* cleanup_imports: imports nobody has used for a week. One that a plan    *)
(* takes in between is deleted all the same.                               *)
ExpireLoads(c, old) ==
  /\ Starts(c) /\ old # {} /\ old \subseteq Refs({0})
  /\ Becomes(c, [Idle EXCEPT !.op = "expire", !.refs = old])
  /\ UNCHANGED <<row, assets, disk, made, torn, leaked>>

ExpireCommits(c) ==
  /\ Goes(c, "expire")
  /\ assets' = {a \in assets : <<a.path, a.copy>> \notin req[c].refs}
  /\ Leaves(c, Paths(req[c].refs)) /\ UNCHANGED <<row, disk, made, torn, leaked>>

(* A restart: requests are cut off, and lifespan forgets missing images.   *)
Restored(j) == IF row[j].image \in disk THEN row[j].image ELSE 0
Restart ==
  /\ crashes < MaxCrashes /\ crashes' = crashes + 1
  /\ leaked' = leaked \cup UNION {({req[c].new} \ {0}) \cup (IF req[c].op = "clean" THEN Reads(c) ELSE {}) : c \in Request}
  /\ row' = [j \in Job |-> [row[j] EXCEPT !.image = Restored(j)]]
  /\ req' = [c \in Request |-> Idle]
  /\ UNCHANGED <<assets, disk, made, torn, ops>>

-----------------------------------------------------------------------------
Init ==
  /\ row = [j \in Job |-> Gone] /\ assets = {} /\ disk = {} /\ made = 0
  /\ req = [c \in Request |-> Idle] /\ torn = {} /\ leaked = {} /\ ops = 0 /\ crashes = 0

Handles(c) ==
  \/ Upload(c) \/ Import(c) \/ Refused(c) \/ ImportFile(c) \/ EditUnlinks(c) \/ EditFails(c)
  \/ EditCommits(c) \/ CleansUp(c) \/ PlanFails(c) \/ DeleteCommits(c) \/ ExpireCommits(c)
  \/ \E j \in Job : \/ CreateJob(c, j) \/ EditLoads(c, j) \/ PlanCommits(c, j)
                    \/ CloneLoads(c, j) \/ CloneCommits(c, j) \/ DeleteLoads(c, j)
  \/ \E mine \in SUBSET Job : DeleteToken(c, mine)
  \/ \E j \in 0..Jobs : \E refs \in SUBSET Refs({0, j}) : PlanLoads(c, j, refs)
  \/ \E old \in SUBSET Refs({0}) : ExpireLoads(c, old)

Next == Restart \/ \E c \in Request : Handles(c)

Spec == Init /\ [][Next]_vars

-----------------------------------------------------------------------------
(* A file a row names is there, whatever edits, copies and deletions of    *)
(* the jobs that share it ran around it. (A file is torn when its last row *)
(* went while a copy was being made, or while an edit replaces it.)        *)
NoDangling == Named \subseteq disk \cup torn

(* Nothing is left behind: once no request is under way, every file is     *)
(* named by a row, except what a restart, a failed or overtaken edit or a  *)
(* deleted connection's series gave up.                                    *)
NothingLeft == (\A c \in Request : req[c].op = "none") => disk \subseteq Named \cup leaked
=============================================================================
