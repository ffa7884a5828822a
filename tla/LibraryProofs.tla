--------------------------- MODULE LibraryProofs ---------------------------
(***************************************************************************)
(* Proofs about Library.tla, for any number of requests, jobs and files.   *)
(* TypeInv is TypeOK with what a request of each kind has loaded. FileInv  *)
(* says whose every file is: a request's own (NewInv), named by a row or   *)
(* read by a copy under way (PresentInv), or still to be cleaned up        *)
(* (HeldInv).                                                              *)
(***************************************************************************)
EXTENDS Library, TLAPS

Writing == {"create", "import", "edit", "unlinked"}

(* What a request of each kind has loaded: the file it wrote is set        *)
(* exactly while it writes, and only some kinds have read rows.            *)
Lawful(t) ==
  /\ t.op \in {"edit", "unlinked", "delete"} => t.job \in Job
  /\ t.op \in {"none", "create", "import", "expire", "clean"} => t.old = 0
  /\ t.op \in {"none", "create", "import"} => t.refs = {}
  /\ t.op \in Writing <=> t.new # 0
RequestInv == \A c \in Request : Lawful(req[c])
TypeInv == TypeOK /\ RequestInv

LEMMA IdleLawful == Idle \in Coroutine /\ Lawful(Idle)
BY LibraryAssumption DEF Idle, Coroutine, Lawful, Writing

LEMMA RequestType ==
  ASSUME TypeInv, NEW c \in Request
  PROVE  req[c] \in Coroutine /\ Lawful(req[c])
BY DEF TypeInv, TypeOK, RequestInv

LEMMA Moves ==
  ASSUME TypeInv, NEW c \in Request, NEW t, Becomes(c, t)
  PROVE  /\ req'[c] = t /\ \A d \in Request \ {c} : req'[d] = req[d]
         /\ t \in Coroutine /\ Lawful(t) => req' \in [Request -> Coroutine] /\ RequestInv'
BY DEF Becomes, TypeInv, TypeOK, RequestInv

LEMMA OpsType ==
  ASSUME TypeInv, NEW c, NEW op, Starts(c) \/ Goes(c, op)
  PROVE  ops' \in 0..MaxOps /\ crashes' = crashes
BY LibraryAssumption DEF Starts, Goes, TypeInv, TypeOK

(* The files a request leaves to be cleaned up are the ones it reads then. *)
LEMMA LeavesType ==
  ASSUME TypeInv, NEW c \in Request, NEW files \in SUBSET Path, Leaves(c, files)
  PROVE  \E t \in Coroutine :
           /\ Lawful(t) /\ Becomes(c, t) /\ t.op \in {"none", "clean"} /\ t.new = 0 /\ t.old = 0
           /\ t.op = "none" => files = {}
           /\ t.refs = files \X {0}
<1>0. Idle \in Coroutine /\ Lawful(Idle) /\ Idle.op = "none" /\ Idle.new = 0 /\ Idle.old = 0
      /\ Idle.refs = {}
  BY IdleLawful DEF Idle
<1>1. CASE files = {}
  <2>1. Becomes(c, Idle)
    BY <1>1 DEF Leaves
  <2>2. Idle.refs = files \X {0}
    BY <1>0, <1>1
  <2>. QED BY <2>1, <2>2, <1>0, <1>1
<1>2. CASE files # {}
  <2>. DEFINE t == [Idle EXCEPT !.op = "clean", !.refs = files \X {0}]
  <2>1. Becomes(c, t)
    BY <1>2 DEF Leaves
  <2>2. t.op = "clean" /\ t.new = 0 /\ t.old = 0 /\ t.job = 0 /\ t.refs = files \X {0}
    BY DEF Idle
  <2>3. files \X {0} \subseteq Path \X (0..Jobs)
    BY LibraryAssumption
  <2>4. t \in Coroutine
    <3>1. files \X {0} \in SUBSET (Path \X (0..Jobs))
      BY <2>3
    <3>2. Idle \in Coroutine
      BY <1>0
    <3>. QED BY <3>1, <3>2 DEF Coroutine
  <2>5. Lawful(t)
    BY <2>2 DEF Lawful, Writing
  <2>. HIDE DEF t
  <2>. QED BY <2>1, <2>2, <2>4, <2>5
<1>. QED BY <1>1, <1>2

-----------------------------------------------------------------------------
LEMMA TypeStep ==
  ASSUME TypeInv, NEW c \in Request, NEW t \in Coroutine, Lawful(t), Becomes(c, t),
         row' \in [Job -> Row], assets' \subseteq Asset, disk' \subseteq Path, made' \in 0..MaxFiles,
         torn' \subseteq Path, leaked' \subseteq Path, ops' \in 0..MaxOps, crashes' = crashes
  PROVE  TypeInv'
<1>1. req' \in [Request -> Coroutine] /\ RequestInv'
  BY Moves
<1>2. TypeOK'
  BY <1>1 DEF TypeInv, TypeOK
<1>. QED BY <1>1, <1>2 DEF TypeInv

(* A request that changes itself alone.                                    *)
LEMMA RequestStep ==
  ASSUME TypeInv, NEW c \in Request, NEW t \in Coroutine, Lawful(t), Becomes(c, t),
         UNCHANGED <<row, assets, disk, made, torn, leaked>>, ops' \in 0..MaxOps, crashes' = crashes
  PROVE  TypeInv'
<1>1. /\ row' \in [Job -> Row] /\ assets' \subseteq Asset /\ disk' \subseteq Path
      /\ made' \in 0..MaxFiles /\ torn' \subseteq Path /\ leaked' \subseteq Path
  BY DEF TypeInv, TypeOK
<1>. QED BY <1>1, TypeStep

LEMMA RefsType ==
  ASSUME TypeOK
  PROVE  /\ \A owners : Refs(owners) \subseteq Path \X (0..Jobs) /\ Files(owners) \subseteq Path
         /\ \A j \in Job : row[j].image \in 0..MaxFiles /\ row[j].live \in BOOLEAN
         /\ \A jobs \in SUBSET Job : Images(jobs) \subseteq Path
         /\ Live \subseteq Job /\ Named \subseteq Path
         /\ row \in [Job -> Row] /\ assets \subseteq Asset
<1>1. \A a \in assets : a.path \in Path /\ a.copy \in 0..Jobs
  BY DEF TypeOK, Asset
<1>2. \A j \in Job : row[j].image \in 0..MaxFiles /\ row[j].live \in BOOLEAN
  BY DEF TypeOK, Row
<1>3. \A n \in 0..MaxFiles : n # 0 => n \in Path
  BY LibraryAssumption DEF Path
<1>4. \A jobs \in SUBSET Job : Images(jobs) \subseteq Path
  BY <1>2, <1>3 DEF Images
<1>5. \A owners : Refs(owners) \subseteq Path \X (0..Jobs) /\ Files(owners) \subseteq Path
  BY <1>1 DEF Refs, Files, Owned
<1>6. Live \subseteq Job
  BY DEF Live
<1>. QED BY <1>2, <1>4, <1>5, <1>6 DEF Named, TypeOK

LEMMA ReadsType ==
  ASSUME TypeInv, NEW c \in Request
  PROVE  /\ Reads(c) \subseteq Path /\ Paths(req[c].refs) \subseteq Path
         /\ req[c].new \in 0..MaxFiles /\ req[c].old \in 0..MaxFiles
         /\ req[c].refs \in SUBSET (Path \X (0..Jobs)) /\ req[c].job \in 0..Jobs
         /\ req[c].op \in Writing => req[c].new \in Path
         /\ req[c].old # 0 => req[c].old \in Path
<1>1. /\ req[c].new \in 0..MaxFiles /\ req[c].old \in 0..MaxFiles
      /\ req[c].refs \in SUBSET (Path \X (0..Jobs)) /\ req[c].job \in 0..Jobs
  BY RequestType DEF Coroutine
<1>2. \A n \in 0..MaxFiles : n # 0 => n \in Path
  BY LibraryAssumption DEF Path
<1>3. Paths(req[c].refs) \subseteq Path
  BY <1>1 DEF Paths
<1>4. Reads(c) \subseteq Path
  BY <1>1, <1>2, <1>3 DEF Reads
<1>5. req[c].op \in Writing => req[c].new # 0
  BY RequestType DEF Lawful
<1>. QED BY <1>1, <1>2, <1>3, <1>4, <1>5

LEMMA SaveType ==
  ASSUME TypeInv, NEW c \in Request, NEW op \in {"create", "import", "edit"}, NEW job \in 0..Jobs,
         NEW old \in 0..MaxFiles, NEW refs \in SUBSET (Path \X (0..Jobs)),
         Save(c, op, job, old, refs), op = "edit" => job \in Job,
         op # "edit" => old = 0 /\ refs = {}
  PROVE  TypeInv'
<1>. DEFINE t == [op |-> op, job |-> job, old |-> old, new |-> made + 1, refs |-> refs]
<1>1. Becomes(c, t) /\ made < MaxFiles /\ made' = made + 1 /\ disk' = disk \cup {made + 1}
      /\ UNCHANGED <<row, assets, torn, leaked>>
  BY DEF Save
<1>2. made \in 0..MaxFiles /\ disk \subseteq Path
  BY DEF TypeInv, TypeOK
<1>3. made + 1 \in Path /\ made + 1 \in 0..MaxFiles /\ made + 1 # 0
  BY <1>1, <1>2, LibraryAssumption DEF Path
<1>4. t \in Coroutine
  BY <1>3 DEF Coroutine
<1>5. Lawful(t)
  BY <1>3 DEF Lawful, Writing
<1>6. ops' \in 0..MaxOps /\ crashes' = crashes
  BY OpsType DEF Save
<1>7. /\ row' \in [Job -> Row] /\ assets' \subseteq Asset /\ torn' \subseteq Path
      /\ leaked' \subseteq Path
  BY <1>1 DEF TypeInv, TypeOK
<1>8. disk' \subseteq Path /\ made' \in 0..MaxFiles
  BY <1>1, <1>2, <1>3
<1>. HIDE DEF t
<1>. QED BY <1>1, <1>4, <1>5, <1>6, <1>7, <1>8, TypeStep

LEMMA SavesType ==
  ASSUME TypeInv, NEW c \in Request,
         Upload(c) \/ Import(c) \/ \E j \in Job : EditLoads(c, j)
  PROVE  TypeInv'
<1>0. 0 \in 0..Jobs /\ 0 \in 0..MaxFiles /\ {} \in SUBSET (Path \X (0..Jobs)) /\ Job \subseteq 0..Jobs
  BY LibraryAssumption DEF Job
<1>1. ASSUME Upload(c) PROVE TypeInv'
  <2>1. Save(c, "create", 0, 0, {})
    BY <1>1 DEF Upload
  <2>. QED BY <1>0, <2>1, SaveType
<1>2. ASSUME Import(c) PROVE TypeInv'
  <2>1. Save(c, "import", 0, 0, {})
    BY <1>2 DEF Import
  <2>. QED BY <1>0, <2>1, SaveType
<1>3. ASSUME NEW j \in Job, EditLoads(c, j) PROVE TypeInv'
  <2>1. Save(c, "edit", j, row[j].image, Refs({j}))
    BY <1>3 DEF EditLoads
  <2>2. row[j].image \in 0..MaxFiles /\ Refs({j}) \in SUBSET (Path \X (0..Jobs)) /\ j \in 0..Jobs
    BY <1>0, RefsType DEF TypeInv
  <2>. QED BY <2>1, <2>2, SaveType
<1>. QED BY <1>1, <1>2, <1>3

LEMMA UnlinkType ==
  ASSUME TypeInv, NEW files \in SUBSET Path, Unlink(files)
  PROVE  disk' \subseteq Path /\ torn' \subseteq Path
BY DEF Unlink, TypeInv, TypeOK

(* Requests that start by reading rows.                                    *)
LEMMA LoadsType ==
  ASSUME TypeInv, NEW c \in Request,
         \/ \E j \in Job : CloneLoads(c, j) \/ DeleteLoads(c, j)
         \/ \E j \in 0..Jobs : \E refs \in SUBSET Refs({0, j}) : PlanLoads(c, j, refs)
         \/ \E old \in SUBSET Refs({0}) : ExpireLoads(c, old)
  PROVE  TypeInv'
<1>0. 0 \in 0..Jobs /\ 0 \in 0..MaxFiles /\ Job \subseteq 0..Jobs
  BY LibraryAssumption DEF Job
<1>1. ASSUME NEW op \in {"clone", "delete", "plan"}, NEW job \in 0..Jobs, NEW old \in 0..MaxFiles,
             NEW refs \in SUBSET (Path \X (0..Jobs)), op = "delete" => job \in Job,
             Becomes(c, [op |-> op, job |-> job, old |-> old, new |-> 0, refs |-> refs]),
             Starts(c), UNCHANGED <<row, assets, disk, made, torn, leaked>>
      PROVE  TypeInv'
  <2>. DEFINE t == [op |-> op, job |-> job, old |-> old, new |-> 0, refs |-> refs]
  <2>1. t \in Coroutine
    BY <1>0 DEF Coroutine
  <2>2. Lawful(t)
    BY <1>1 DEF Lawful, Writing
  <2>3. ops' \in 0..MaxOps /\ crashes' = crashes
    BY <1>1, OpsType
  <2>4. Becomes(c, t)
    BY <1>1
  <2>. HIDE DEF t
  <2>. QED BY <1>1, <2>1, <2>2, <2>3, <2>4, RequestStep
<1>2. ASSUME NEW j \in Job, CloneLoads(c, j) \/ DeleteLoads(c, j) PROVE TypeInv'
  <2>1. j \in 0..Jobs /\ row[j].image \in 0..MaxFiles /\ Refs({j}) \in SUBSET (Path \X (0..Jobs))
    BY <1>0, RefsType DEF TypeInv
  <2>2. CASE CloneLoads(c, j)
    BY <2>1, <2>2, <1>1 DEF CloneLoads
  <2>3. CASE DeleteLoads(c, j)
    BY <2>1, <2>3, <1>1 DEF DeleteLoads
  <2>. QED BY <1>2, <2>2, <2>3
<1>3. ASSUME NEW j \in 0..Jobs, NEW refs \in SUBSET Refs({0, j}), PlanLoads(c, j, refs)
      PROVE  TypeInv'
  <2>1. refs \in SUBSET (Path \X (0..Jobs))
    BY RefsType DEF TypeInv
  <2>2. (IF j = 0 THEN 0 ELSE row[j].image) \in 0..MaxFiles
    BY <1>0, RefsType DEF TypeInv, Job
  <2>. DEFINE old == IF j = 0 THEN 0 ELSE row[j].image
  <2>3. Becomes(c, [op |-> "plan", job |-> j, old |-> old, new |-> 0, refs |-> refs])
    BY <1>3 DEF PlanLoads
  <2>4. old \in 0..MaxFiles /\ Starts(c) /\ UNCHANGED <<row, assets, disk, made, torn, leaked>>
    BY <1>3, <2>2 DEF PlanLoads
  <2>. HIDE DEF old
  <2>. QED BY <2>1, <2>3, <2>4, <1>1
<1>4. ASSUME NEW old \in SUBSET Refs({0}), ExpireLoads(c, old) PROVE TypeInv'
  <2>. DEFINE t == [Idle EXCEPT !.op = "expire", !.refs = old]
  <2>1. old \in SUBSET (Path \X (0..Jobs))
    BY RefsType DEF TypeInv
  <2>2. t \in Coroutine
    BY <2>1, IdleLawful DEF Coroutine
  <2>3. t.op = "expire" /\ t.new = 0 /\ t.old = 0
    BY DEF Idle
  <2>4. Lawful(t)
    BY <2>3 DEF Lawful, Writing
  <2>5. Becomes(c, t) /\ Starts(c) /\ UNCHANGED <<row, assets, disk, made, torn, leaked>>
    BY <1>4 DEF ExpireLoads
  <2>6. ops' \in 0..MaxOps /\ crashes' = crashes
    BY <2>5, OpsType
  <2>. HIDE DEF t
  <2>. QED BY <2>2, <2>4, <2>5, <2>6, RequestStep
<1>. QED BY <1>2, <1>3, <1>4

LEMMA EndsType ==
  ASSUME TypeInv, NEW c \in Request, Refused(c) \/ ImportFile(c) \/ EditFails(c) \/ PlanFails(c)
  PROVE  TypeInv'
<1>1. Becomes(c, Idle) /\ ops' \in 0..MaxOps /\ crashes' = crashes
  BY OpsType DEF Refused, ImportFile, EditFails, PlanFails
<1>2. /\ row \in [Job -> Row] /\ assets \subseteq Asset /\ disk \subseteq Path
      /\ made \in 0..MaxFiles /\ torn \subseteq Path /\ leaked \subseteq Path
  BY DEF TypeInv, TypeOK
<1>3. req[c].op \in Writing => req[c].new \in Path
  BY ReadsType
<1>4. row' = row /\ made' = made
  BY DEF Refused, ImportFile, EditFails, PlanFails
<1>5. /\ assets' \subseteq Asset /\ disk' \subseteq Path /\ torn' \subseteq Path
      /\ leaked' \subseteq Path
  <2>1. CASE Refused(c)
    <3>1. req[c].new \in Path /\ Unlink({req[c].new}) /\ UNCHANGED <<assets, leaked>>
      BY <2>1, <1>3 DEF Refused, Goes, Writing
    <3>. QED BY <1>2, <3>1, UnlinkType
  <2>2. CASE ImportFile(c)
    <3>1. req[c].new \in Path
      BY <2>2, <1>3 DEF ImportFile, Goes, Writing
    <3>2. [path |-> req[c].new, copy |-> 0, owner |-> 0] \in Asset
      BY <3>1, LibraryAssumption DEF Asset
    <3>. QED BY <2>2, <1>2, <3>2 DEF ImportFile
  <2>3. CASE EditFails(c)
    <3>1. req[c].new \in Path
      BY <2>3, <1>3 DEF EditFails, Goes, Writing
    <3>. QED BY <2>3, <1>2, <3>1 DEF EditFails
  <2>4. CASE PlanFails(c)
    BY <2>4, <1>2 DEF PlanFails
  <2>. QED BY <2>1, <2>2, <2>3, <2>4
<1>. QED BY <1>1, <1>2, <1>4, <1>5, IdleLawful, TypeStep

LEMMA CreateJobType ==
  ASSUME TypeInv, NEW c \in Request, NEW j \in Job, CreateJob(c, j)
  PROVE  TypeInv'
<1>1. Becomes(c, Idle) /\ ops' \in 0..MaxOps /\ crashes' = crashes
  BY OpsType DEF CreateJob
<1>2. req[c].new \in 0..MaxFiles
  BY ReadsType
<1>3. row' \in [Job -> Row]
  BY <1>2 DEF CreateJob, TypeInv, TypeOK, Row
<1>4. /\ assets' \subseteq Asset /\ disk' \subseteq Path /\ made' \in 0..MaxFiles
      /\ torn' \subseteq Path /\ leaked' \subseteq Path
  BY DEF CreateJob, TypeInv, TypeOK
<1>. QED BY <1>1, <1>3, <1>4, IdleLawful, TypeStep

LEMMA EditUnlinksType ==
  ASSUME TypeInv, NEW c \in Request, EditUnlinks(c)
  PROVE  TypeInv'
<1>. DEFINE t == [req[c] EXCEPT !.op = "unlinked"]
<1>0. req[c] \in Coroutine /\ Lawful(req[c]) /\ req[c].op = "edit"
  BY RequestType DEF EditUnlinks, Goes
<1>1. Becomes(c, t) /\ ops' \in 0..MaxOps /\ crashes' = crashes
  BY OpsType DEF EditUnlinks
<1>2. t \in Coroutine
  BY <1>0 DEF Coroutine
<1>3. t.op = "unlinked" /\ t.job = req[c].job /\ t.new = req[c].new
  BY <1>0 DEF Coroutine
<1>4. Lawful(t)
  BY <1>0, <1>3 DEF Lawful, Writing
<1>5. /\ row' \in [Job -> Row] /\ assets' \subseteq Asset /\ made' \in 0..MaxFiles
      /\ leaked' \subseteq Path
  BY DEF EditUnlinks, TypeInv, TypeOK
<1>6. disk \subseteq Path /\ torn \subseteq Path
  BY DEF TypeInv, TypeOK
<1>7. disk' \subseteq disk /\ torn' \subseteq torn \cup ({req[c].old} \ {0})
  BY DEF EditUnlinks
<1>8. disk' \subseteq Path /\ torn' \subseteq Path
  BY <1>6, <1>7, ReadsType
<1>. HIDE DEF t
<1>. QED BY <1>1, <1>2, <1>4, <1>5, <1>8, TypeStep

LEMMA EditCommitsType ==
  ASSUME TypeInv, NEW c \in Request, EditCommits(c)
  PROVE  TypeInv'
<1>. DEFINE j == req[c].job
            let_go == IF req[c].refs = {} THEN {} ELSE Owned({j})
            files == {a.path : a \in let_go} \cup ({req[c].old} \ {0})
<1>1. /\ req[c].op = "unlinked" /\ j \in Job /\ req[c].new \in 0..MaxFiles
      /\ ops' \in 0..MaxOps /\ crashes' = crashes
  BY ReadsType, OpsType, RequestType DEF EditCommits, Goes, Lawful
<1>2. let_go \subseteq assets /\ \A a \in assets : a.path \in Path
  BY DEF Owned, TypeInv, TypeOK, Asset
<1>3. files \in SUBSET Path
  BY <1>2, ReadsType
<1>4. /\ row' = [row EXCEPT ![j].image = req[c].new] /\ assets' = assets \ let_go
      /\ leaked' = leaked \cup ({row[j].image} \ {0, req[c].old})
      /\ Leaves(c, files) /\ UNCHANGED <<disk, made, torn>>
  BY DEF EditCommits
<1>. HIDE DEF let_go, files
<1>5. row' \in [Job -> Row]
  BY <1>1, <1>4 DEF TypeInv, TypeOK, Row
<1>6. row[j].image # 0 => row[j].image \in Path
  BY <1>1, RefsType, LibraryAssumption DEF TypeInv, Path
<1>7. /\ assets' \subseteq Asset /\ disk' \subseteq Path /\ made' \in 0..MaxFiles
      /\ torn' \subseteq Path /\ leaked' \subseteq Path
  BY <1>4, <1>6 DEF TypeInv, TypeOK
<1>8. PICK t \in Coroutine : Lawful(t) /\ Becomes(c, t)
  BY <1>3, <1>4, LeavesType
<1>. QED BY <1>1, <1>5, <1>7, <1>8, TypeStep

LEMMA CleansUpType ==
  ASSUME TypeInv, NEW c \in Request, CleansUp(c)
  PROVE  TypeInv'
<1>0. req[c] \in Coroutine /\ Lawful(req[c]) /\ req[c].op = "clean"
  BY RequestType DEF CleansUp, Goes
<1>1. PICK r \in req[c].refs :
        /\ Clean(r[1])
        /\ Becomes(c, IF req[c].refs = {r} THEN Idle ELSE [req[c] EXCEPT !.refs = @ \ {r}])
  BY DEF CleansUp
<1>2. ops' \in 0..MaxOps /\ crashes' = crashes
  BY OpsType DEF CleansUp
<1>. DEFINE t == [req[c] EXCEPT !.refs = @ \ {r}]
<1>3. t \in Coroutine
  BY <1>0 DEF Coroutine
<1>4. t.op = "clean" /\ t.new = req[c].new /\ t.old = req[c].old
  BY <1>0 DEF Coroutine
<1>5. Lawful(t)
  BY <1>0, <1>4 DEF Lawful, Writing
<1>. DEFINE u == IF req[c].refs = {r} THEN Idle ELSE t
<1>6. u \in Coroutine /\ Lawful(u)
  BY <1>3, <1>5, IdleLawful
<1>7. Becomes(c, u)
  BY <1>1
<1>8. r[1] \in Path
  BY <1>0, <1>1 DEF Coroutine
<1>9. disk' \subseteq Path /\ torn' \subseteq Path
  <2>1. {r[1]} \ Named \in SUBSET Path
    BY <1>8
  <2>2. Unlink({r[1]} \ Named)
    BY <1>1 DEF Clean
  <2>. QED BY <2>1, <2>2, UnlinkType
<1>10. /\ row' \in [Job -> Row] /\ assets' \subseteq Asset /\ made' \in 0..MaxFiles
       /\ leaked' \subseteq Path
  BY DEF CleansUp, TypeInv, TypeOK
<1>. HIDE DEF t, u
<1>. QED BY <1>2, <1>6, <1>7, <1>9, <1>10, TypeStep

LEMMA PlanCommitsType ==
  ASSUME TypeInv, NEW c \in Request, NEW j \in Job, PlanCommits(c, j)
  PROVE  TypeInv'
<1>. DEFINE kept == {a \in assets : <<a.path, a.copy>> \in req[c].refs}
            files == Dropped(j, req[c].refs) \cup ({req[c].old} \ {0})
<1>1. /\ assets' = (assets \ (Owned({j}) \cup kept)) \cup {[a EXCEPT !.owner = j] : a \in kept}
      /\ row' = [row EXCEPT ![j] = [live |-> TRUE, image |-> 0]] /\ Leaves(c, files)
      /\ leaked' = leaked \cup ({row[j].image} \ {0, req[c].old}) /\ UNCHANGED <<disk, made, torn>>
  BY DEF PlanCommits
<1>2. ops' \in 0..MaxOps /\ crashes' = crashes
  BY OpsType DEF PlanCommits
<1>3. files \in SUBSET Path
  <2>1. Refs({j}) \subseteq Path \X (0..Jobs)
    BY RefsType DEF TypeInv
  <2>. QED BY <2>1, ReadsType DEF Dropped, Paths
<1>4. j \in 0..Jobs /\ 0 \in 0..MaxFiles
  BY LibraryAssumption DEF Job
<1>5. assets' \subseteq Asset
  <2>1. \A a \in kept : [a EXCEPT !.owner = j] \in Asset
    BY <1>4 DEF TypeInv, TypeOK, Asset
  <2>. QED BY <1>1, <2>1 DEF TypeInv, TypeOK
<1>. HIDE DEF kept, files
<1>6. row' \in [Job -> Row]
  BY <1>1, <1>4 DEF TypeInv, TypeOK, Row
<1>7. row[j].image # 0 => row[j].image \in Path
  BY RefsType, LibraryAssumption DEF TypeInv, Path
<1>8. /\ disk' \subseteq Path /\ made' \in 0..MaxFiles
      /\ torn' \subseteq Path /\ leaked' \subseteq Path
  BY <1>1, <1>7 DEF TypeInv, TypeOK
<1>9. PICK t \in Coroutine : Lawful(t) /\ Becomes(c, t)
  BY <1>1, <1>3, LeavesType
<1>. QED BY <1>2, <1>5, <1>6, <1>8, <1>9, TypeStep

LEMMA CloneCommitsType ==
  ASSUME TypeInv, NEW c \in Request, NEW k \in Job, CloneCommits(c, k)
  PROVE  TypeInv'
<1>1. Becomes(c, Idle) /\ ops' \in 0..MaxOps /\ crashes' = crashes
  BY OpsType DEF CloneCommits
<1>2. req[c].old \in 0..MaxFiles /\ Paths(req[c].refs) \subseteq Path /\ k \in 0..Jobs
  BY ReadsType, LibraryAssumption DEF Job
<1>3. row' \in [Job -> Row]
  BY <1>2 DEF CloneCommits, TypeInv, TypeOK, Row
<1>4. assets' \subseteq Asset
  <2>1. [path : Paths(req[c].refs), copy : {k}, owner : {k}] \subseteq Asset
    BY <1>2 DEF Asset
  <2>. QED BY <2>1 DEF CloneCommits, TypeInv, TypeOK
<1>5. /\ disk' \subseteq Path /\ made' \in 0..MaxFiles /\ torn' \subseteq Path /\ leaked' \subseteq Path
  BY DEF CloneCommits, TypeInv, TypeOK
<1>. QED BY <1>1, <1>3, <1>4, <1>5, IdleLawful, TypeStep

LEMMA DeleteCommitsType ==
  ASSUME TypeInv, NEW c \in Request, DeleteCommits(c)
  PROVE  TypeInv'
<1>. DEFINE j == req[c].job
<1>1. j \in Job /\ ops' \in 0..MaxOps /\ crashes' = crashes
  BY RequestType, OpsType DEF DeleteCommits, Goes, Lawful
<1>2. /\ row' = [row EXCEPT ![j] = Gone] /\ assets' = assets \ Owned({j})
      /\ leaked' = leaked \cup ((Images({j}) \cup Files({j})) \ Reads(c))
      /\ Leaves(c, Reads(c)) /\ UNCHANGED <<disk, made, torn>>
  BY DEF DeleteCommits
<1>3. Images({j}) \cup Files({j}) \subseteq Path
  BY <1>1, RefsType DEF TypeInv
<1>4. row' \in [Job -> Row]
  <2>1. Gone \in Row
    BY LibraryAssumption DEF Gone, Row
  <2>. QED BY <1>2, <2>1 DEF TypeInv, TypeOK
<1>5. /\ assets' \subseteq Asset /\ disk' \subseteq Path /\ made' \in 0..MaxFiles
      /\ torn' \subseteq Path /\ leaked' \subseteq Path
  BY <1>2, <1>3 DEF TypeInv, TypeOK
<1>6. PICK t \in Coroutine : Lawful(t) /\ Becomes(c, t)
  BY <1>2, ReadsType, LeavesType
<1>. QED BY <1>1, <1>4, <1>5, <1>6, TypeStep

LEMMA DeleteTokenType ==
  ASSUME TypeInv, NEW c \in Request, NEW mine \in SUBSET Job, DeleteToken(c, mine)
  PROVE  TypeInv'
<1>1. /\ row' = [j \in Job |-> IF j \in mine THEN Gone ELSE row[j]]
      /\ assets' = assets \ Owned(mine) /\ Unlink(Images(mine) \ Images(Live \ mine))
      /\ leaked' = leaked \cup Files(mine) /\ UNCHANGED <<made, req>>
  BY DEF DeleteToken
<1>2. Images(mine) \subseteq Path /\ Files(mine) \subseteq Path
  BY RefsType DEF TypeInv
<1>3. disk' \subseteq Path /\ torn' \subseteq Path
  BY <1>1, <1>2, UnlinkType
<1>4. row' \in [Job -> Row]
  BY <1>1, LibraryAssumption DEF TypeInv, TypeOK, Row, Gone
<1>5. assets' \subseteq Asset /\ leaked' \subseteq Path /\ made' \in 0..MaxFiles
      /\ ops' \in 0..MaxOps /\ crashes' = crashes
  BY <1>1, <1>2, OpsType DEF TypeInv, TypeOK, DeleteToken
<1>6. req' \in [Request -> Coroutine] /\ RequestInv' /\ crashes' \in 0..MaxCrashes
  BY <1>1, <1>5 DEF TypeInv, TypeOK, RequestInv
<1>. QED BY <1>3, <1>4, <1>5, <1>6 DEF TypeInv, TypeOK

LEMMA ExpireCommitsType ==
  ASSUME TypeInv, NEW c \in Request, ExpireCommits(c)
  PROVE  TypeInv'
<1>1. /\ assets' \subseteq assets /\ Leaves(c, Paths(req[c].refs))
      /\ UNCHANGED <<row, disk, made, torn, leaked>>
      /\ ops' \in 0..MaxOps /\ crashes' = crashes
  BY OpsType DEF ExpireCommits
<1>2. PICK t \in Coroutine : Lawful(t) /\ Becomes(c, t)
  BY <1>1, ReadsType, LeavesType
<1>3. /\ row' \in [Job -> Row] /\ assets' \subseteq Asset /\ disk' \subseteq Path
      /\ made' \in 0..MaxFiles /\ torn' \subseteq Path /\ leaked' \subseteq Path
  BY <1>1 DEF TypeInv, TypeOK
<1>. QED BY <1>1, <1>2, <1>3, TypeStep

LEMMA RestartType ==
  ASSUME TypeInv, Restart
  PROVE  TypeInv'
<1>1. /\ crashes < MaxCrashes /\ crashes' = crashes + 1 /\ UNCHANGED <<assets, disk, made, torn, ops>>
      /\ row' = [j \in Job |-> [row[j] EXCEPT !.image = Restored(j)]]
      /\ req' = [c \in Request |-> Idle]
  BY DEF Restart
<1>2. row' \in [Job -> Row]
  BY <1>1, LibraryAssumption DEF TypeInv, TypeOK, Row, Restored
<1>3. leaked' \subseteq Path
  <2>. DEFINE Lost(c) == ({req[c].new} \ {0})
                         \cup (IF req[c].op = "clean" THEN Reads(c) ELSE {})
  <2>1. ASSUME NEW c \in Request PROVE Lost(c) \subseteq Path
    BY ReadsType, LibraryAssumption DEF Path
  <2>2. leaked' = leaked \cup UNION {Lost(c) : c \in Request}
    BY DEF Restart
  <2>. HIDE DEF Lost
  <2>. QED BY <2>1, <2>2 DEF TypeInv, TypeOK
<1>4. req' \in [Request -> Coroutine] /\ RequestInv'
  BY <1>1, IdleLawful DEF RequestInv
<1>5. crashes' \in 0..MaxCrashes
  BY <1>1, LibraryAssumption DEF TypeInv, TypeOK
<1>6. /\ assets' \subseteq Asset /\ disk' \subseteq Path /\ made' \in 0..MaxFiles
      /\ torn' \subseteq Path /\ ops' \in 0..MaxOps
  BY <1>1 DEF TypeInv, TypeOK
<1>. QED BY <1>2, <1>3, <1>4, <1>5, <1>6 DEF TypeInv, TypeOK

LEMMA NextType ==
  ASSUME TypeInv, [Next]_vars
  PROVE  TypeInv'
<1>1. CASE Restart
  BY <1>1, RestartType
<1>2. ASSUME NEW c \in Request, Handles(c) PROVE TypeInv'
  <2>1. CASE Upload(c) \/ Import(c) \/ \E j \in Job : EditLoads(c, j)
    BY <2>1, SavesType
  <2>2. CASE Refused(c) \/ ImportFile(c) \/ EditFails(c) \/ PlanFails(c)
    BY <2>2, EndsType
  <2>3. CASE \E j \in Job : CreateJob(c, j)
    BY <2>3, CreateJobType
  <2>4. CASE EditUnlinks(c)
    BY <2>4, EditUnlinksType
  <2>5. CASE EditCommits(c)
    BY <2>5, EditCommitsType
  <2>6. CASE CleansUp(c)
    BY <2>6, CleansUpType
  <2>7. CASE \E j \in Job : PlanCommits(c, j)
    BY <2>7, PlanCommitsType
  <2>8. CASE \E j \in Job : CloneCommits(c, j)
    BY <2>8, CloneCommitsType
  <2>9. CASE DeleteCommits(c)
    BY <2>9, DeleteCommitsType
  <2>10. CASE \E mine \in SUBSET Job : DeleteToken(c, mine)
    BY <2>10, DeleteTokenType
  <2>11. CASE ExpireCommits(c)
    BY <2>11, ExpireCommitsType
  <2>12. CASE \/ \E j \in Job : CloneLoads(c, j) \/ DeleteLoads(c, j)
              \/ \E j \in 0..Jobs : \E refs \in SUBSET Refs({0, j}) : PlanLoads(c, j, refs)
              \/ \E old \in SUBSET Refs({0}) : ExpireLoads(c, old)
    BY <2>12, LoadsType
  <2>. QED BY <1>2, <2>1, <2>2, <2>3, <2>4, <2>5, <2>6, <2>7, <2>8, <2>9, <2>10, <2>11, <2>12
         DEF Handles
<1>3. CASE UNCHANGED vars
  BY <1>3 DEF vars, TypeInv, TypeOK, RequestInv
<1>. QED BY <1>1, <1>2, <1>3 DEF Next

LEMMA InitType ==
  ASSUME Init
  PROVE  TypeInv
<1>1. row \in [Job -> Row] /\ req \in [Request -> Coroutine] /\ RequestInv
  BY IdleLawful, LibraryAssumption DEF Init, Row, Gone, RequestInv
<1>. QED BY <1>1, LibraryAssumption DEF Init, TypeInv, TypeOK

(* Every variable has its type, and a request has a file of its own exactly *)
(* while it is between writing it and naming it in a row.                  *)
THEOREM TypeCorrect == Spec => []TypeOK
<1>1. Spec => []TypeInv
  BY InitType, NextType, PTL DEF Spec
<1>2. TypeInv => TypeOK
  BY DEF TypeInv
<1>. QED BY <1>1, <1>2, PTL

-----------------------------------------------------------------------------
(* Files *)

(* The names in use: what rows hold and what a copy under way has read,    *)
(* images and attachments apart.                                           *)
Copying == {c \in Request : req[c].op = "clone"}
ImageNames == Images(Live) \cup ({req[c].old : c \in Copying} \ {0})
AssetNames == Files(0..Jobs) \cup UNION {Paths(req[c].refs) : c \in Copying}
InUse == ImageNames \cup AssetNames

(* Files are numbered as they are written, and nothing names a later one.  *)
MadeInv ==
  /\ disk \cup Named \subseteq 1..made
  /\ \A c \in Request : req[c].new <= made /\ Reads(c) \subseteq 1..made

(* The file a request has written is its own: on disk, in no row, read by  *)
(* nobody and written by no other.                                         *)
NewInv ==
  \A c \in Request : req[c].op \in Writing =>
    /\ req[c].new \in disk /\ req[c].new \notin Named
    /\ \A d \in Request : /\ req[c].new \notin Reads(d)
                          /\ req[d].op \in Writing /\ d # c => req[d].new # req[c].new

(* An image is never an attachment of a series.                            *)
KindInv == ImageNames \cap AssetNames = {}

(* A name in use is that of a file that is there.                          *)
PresentInv == InUse \subseteq disk \cup torn

(* Every file is named by a row, or some request still has it in hand.     *)
Keeps(c) == IF req[c].op \in Writing THEN {req[c].new}
            ELSE IF req[c].op = "clean" THEN Reads(c) ELSE {}
HeldInv == disk \subseteq Named \cup leaked \cup UNION {Keeps(c) : c \in Request}

FileInv == MadeInv /\ NewInv /\ KindInv /\ PresentInv /\ HeldInv

LEMMA Same ==
  ASSUME NEW d \in Request, req'[d] = req[d]
  PROVE  Reads(d)' = Reads(d) /\ Keeps(d)' = Keeps(d) /\ Paths(req[d].refs)' = Paths(req[d].refs)
BY DEF Reads, Paths, Keeps

LEMMA NamedInUse ==
  ASSUME TypeInv
  PROVE  /\ Named \subseteq InUse
         /\ \A p \in InUse : p \in Named \/ \E d \in Request : p \in Reads(d)
<1>3. ASSUME NEW p \in InUse PROVE p \in Named \/ \E d \in Request : p \in Reads(d)
  <2>1. CASE p \in Named
    BY <2>1
  <2>2. CASE \E d \in Copying : p = req[d].old /\ p # 0
    BY <2>2 DEF Reads, Copying
  <2>3. CASE \E d \in Copying : p \in Paths(req[d].refs)
    BY <2>3 DEF Reads, Copying
  <2>. QED BY <1>3, <2>1, <2>2, <2>3 DEF InUse, ImageNames, AssetNames, Named
<1>. QED BY <1>3 DEF InUse, Named, ImageNames, AssetNames

(* What a request wrote and does not hold any more.                        *)
Settled(c) == IF req[c].op \in Writing /\ req'[c].op \notin Writing THEN {req[c].new} ELSE {}

(* A step of one request that writes no file.                              *)
LEMMA FileStep ==
  ASSUME TypeInv, TypeInv', FileInv, NEW c \in Request,
         \A d \in Request \ {c} : req'[d] = req[d],
         made' = made, disk' \subseteq disk, leaked \subseteq leaked',
         req'[c].op \in Writing => req[c].op \in Writing /\ req'[c].new = req[c].new,
         disk \ disk' \subseteq Reads(c) \cup Named \cup Settled(c),
         Reads(c)' \subseteq Reads(c) \cup Named,
         NEW images \in SUBSET Settled(c), NEW attached \in SUBSET Settled(c),
         images = {} \/ attached = {},
         ImageNames' \subseteq ImageNames \cup images,
         AssetNames' \subseteq AssetNames \cup attached,
         InUse' \cap (disk \cup torn) \subseteq disk' \cup torn',
         disk' \cap (Named \cup Keeps(c)) \subseteq Named' \cup leaked' \cup Keeps(c)'
  PROVE  FileInv'
<1>0. MadeInv /\ NewInv /\ KindInv /\ PresentInv /\ HeldInv
  BY DEF FileInv
<1>1. \A d \in Request \ {c} : Reads(d)' = Reads(d) /\ Keeps(d)' = Keeps(d)
  BY Same
<1>2. \A p \in Settled(c) : /\ req[c].op \in Writing /\ req'[c].op \notin Writing
                            /\ p = req[c].new /\ p # 0
  BY RequestType DEF Settled, Lawful
<1>3. \A d \in Request : Lawful(req[d]) /\ Lawful(req[d])'
  BY DEF TypeInv, RequestInv
<1>4. Named' \subseteq Named \cup Settled(c) \cup UNION {Reads(d) : d \in Request}
  <2>1. Named' \subseteq InUse'
    BY DEF Named, InUse, ImageNames, AssetNames
  <2>2. InUse' \subseteq InUse \cup Settled(c)
    BY DEF InUse
  <2>. QED BY <2>1, <2>2, NamedInUse
<1>5. \A p \in Settled(c) : p \in disk /\ p \notin InUse
  BY <1>0, <1>2, NamedInUse DEF NewInv
<1>6. MadeInv'
  <2>1. Named' \subseteq 1..made
    BY <1>0, <1>4, <1>5 DEF MadeInv
  <2>2. \A d \in Request : Reads(d)' \subseteq 1..made
    BY <1>0, <1>1 DEF MadeInv
  <2>3. \A d \in Request : req'[d].new <= made
    <3>1. req'[c].new <= made
      <4>1. CASE req'[c].op \in Writing
        BY <4>1, <1>0 DEF MadeInv
      <4>2. CASE req'[c].op \notin Writing
        BY <4>2, <1>3 DEF Lawful, TypeInv, TypeOK
      <4>. QED BY <4>1, <4>2
    <3>. QED BY <3>1, <1>0 DEF MadeInv
  <2>. QED BY <1>0, <2>1, <2>2, <2>3 DEF MadeInv
<1>7. NewInv'
  <2>. SUFFICES ASSUME NEW d \in Request, req'[d].op \in Writing
                PROVE  /\ req'[d].new \in disk' /\ req'[d].new \notin Named'
                       /\ \A e \in Request : /\ req'[d].new \notin Reads(e)'
                                             /\ req'[e].op \in Writing /\ e # d => req'[e].new # req'[d].new
    BY DEF NewInv
  <2>1. req[d].op \in Writing /\ req'[d].new = req[d].new
    OBVIOUS
  <2>2. /\ req[d].new \in disk /\ req[d].new \notin Named
        /\ \A e \in Request : /\ req[d].new \notin Reads(e)
                              /\ req[e].op \in Writing /\ e # d => req[e].new # req[d].new
    BY <1>0, <2>1 DEF NewInv
  <2>3. req[d].new \notin Settled(c)
    BY <1>2, <2>1, <2>2
  <2>4. req'[d].new \in disk' /\ req'[d].new \notin Named'
    BY <1>4, <2>1, <2>2, <2>3
  <2>5. \A e \in Request : req'[d].new \notin Reads(e)'
    BY <1>1, <2>1, <2>2
  <2>6. \A e \in Request : req'[e].op \in Writing => req[e].op \in Writing /\ req'[e].new = req[e].new
    OBVIOUS
  <2>. QED BY <2>1, <2>2, <2>4, <2>5, <2>6
<1>8. KindInv'
  <2>1. \A p \in Settled(c) : p \notin ImageNames /\ p \notin AssetNames
    BY <1>2, <1>5 DEF InUse
  <2>. QED BY <1>0, <2>1 DEF KindInv
<1>9. PresentInv'
  <2>1. InUse' \subseteq InUse \cup Settled(c)
    BY DEF InUse
  <2>2. InUse' \subseteq disk \cup torn
    BY <1>0, <1>5, <2>1 DEF PresentInv
  <2>. QED BY <2>2 DEF PresentInv
<1>10. HeldInv'
  <2>. SUFFICES ASSUME NEW p \in disk'
                PROVE  p \in Named' \cup leaked' \/ \E d \in Request : p \in Keeps(d)'
    BY DEF HeldInv
  <2>1. p \in Named \cup leaked \/ \E d \in Request : p \in Keeps(d)
    BY <1>0 DEF HeldInv
  <2>2. CASE p \in leaked
    BY <2>2
  <2>3. CASE p \in Named \cup Keeps(c)
    BY <2>3
  <2>4. CASE \E d \in Request \ {c} : p \in Keeps(d)
    BY <2>4, <1>1
  <2>. QED BY <2>1, <2>2, <2>3, <2>4
<1>. QED BY <1>6, <1>7, <1>8, <1>9, <1>10 DEF FileInv

(* A request that ends or reads rows, and changes nothing else.            *)
LEMMA ReadStep ==
  ASSUME TypeInv, TypeInv', FileInv, NEW c \in Request, NEW t, Becomes(c, t),
         UNCHANGED <<row, assets, disk, made, torn, leaked>>,
         req[c].op \notin Writing \cup {"clean"}, t.op \notin Writing,
         (({t.old} \ {0}) \cup Paths(t.refs)) \subseteq Named,
         t.op = "clone" => ({t.old} \ {0}) \subseteq Images(Live) /\ Paths(t.refs) \subseteq Files(0..Jobs)
  PROVE  FileInv'
<1>1. req'[c] = t /\ \A d \in Request \ {c} : req'[d] = req[d]
  BY Moves
<1>2. Reads(c)' \subseteq Named
  BY <1>1 DEF Reads, Paths
<1>3. Images(Live)' = Images(Live) /\ Files(0..Jobs)' = Files(0..Jobs) /\ Named' = Named
  BY DEF Images, Live, Files, Owned, Named
<1>4. ImageNames' \subseteq ImageNames
  BY <1>1, <1>3 DEF ImageNames, Copying
<1>5. AssetNames' \subseteq AssetNames
  BY <1>1, <1>3 DEF AssetNames, Copying, Paths
<1>6. PresentInv
  BY DEF FileInv
<1>7. Keeps(c) = {}
  BY DEF Keeps
<1>8. InUse' \cap (disk \cup torn) \subseteq disk' \cup torn'
  OBVIOUS
<1>9. disk' \cap (Named \cup Keeps(c)) \subseteq Named' \cup leaked' \cup Keeps(c)'
  BY <1>3, <1>7
<1>. DEFINE none == {}
<1>10. none \in SUBSET Settled(c) /\ ImageNames' \subseteq ImageNames \cup none
       /\ AssetNames' \subseteq AssetNames \cup none
  BY <1>4, <1>5
<1>11. disk \ disk' \subseteq Reads(c) \cup Named \cup Settled(c)
  OBVIOUS
<1>12. req'[c].op \notin Writing /\ made' = made /\ disk' \subseteq disk /\ leaked \subseteq leaked'
       /\ Reads(c)' \subseteq Reads(c) \cup Named
  BY <1>1, <1>2
<1>. QED BY <1>1, <1>8, <1>9, <1>10, <1>11, <1>12, FileStep

LEMMA OwnedNamed ==
  ASSUME TypeInv, NEW owners, owners \subseteq 0..Jobs
  PROVE  Paths(Refs(owners)) \subseteq Files(0..Jobs) /\ Files(0..Jobs) \subseteq Named
<1>1. ASSUME NEW p \in Paths(Refs(owners)) PROVE p \in Files(0..Jobs)
  <2>1. PICK a \in Owned(owners) : p = <<a.path, a.copy>>[1]
    BY <1>1 DEF Paths, Refs
  <2>2. a \in Owned(0..Jobs) /\ p = a.path
    BY <2>1 DEF Owned
  <2>. QED BY <2>2 DEF Files
<1>2. Files(0..Jobs) \subseteq Named
  BY DEF Named
<1>. QED BY <1>1, <1>2

LEMMA LoadsFile ==
  ASSUME TypeInv, TypeInv', FileInv, NEW c \in Request,
         \/ PlanFails(c)
         \/ \E j \in Job : CloneLoads(c, j) \/ DeleteLoads(c, j)
         \/ \E j \in 0..Jobs : \E refs \in SUBSET Refs({0, j}) : PlanLoads(c, j, refs)
         \/ \E old \in SUBSET Refs({0}) : ExpireLoads(c, old)
  PROVE  FileInv'
<1>0. Idle.op = "none" /\ Idle.old = 0 /\ Idle.refs = {} /\ Paths({}) = {}
  BY DEF Idle, Paths
<1>1. \A j \in Live : ({row[j].image} \ {0}) \subseteq Images(Live) /\ j \in Job /\ {j} \subseteq 0..Jobs
  BY LibraryAssumption DEF Images, Live, Job
<1>2. Images(Live) \subseteq Named /\ Files(0..Jobs) \subseteq Named
  BY DEF Named
<1>3. ASSUME NEW j \in Job, CloneLoads(c, j) \/ DeleteLoads(c, j) PROVE FileInv'
  <2>. DEFINE Loaded(op) == [op |-> op, job |-> j, old |-> row[j].image, new |-> 0, refs |-> Refs({j})]
  <2>0. PICK t : /\ t \in {Loaded("clone"), Loaded("delete")} /\ Becomes(c, t)
    BY <1>3 DEF CloneLoads, DeleteLoads
  <2>1. t.op \in {"clone", "delete"} /\ t.old = row[j].image /\ t.refs = Refs({j})
    BY <2>0
  <2>2. /\ j \in Live /\ req[c].op = "none"
        /\ UNCHANGED <<row, assets, disk, made, torn, leaked>>
    BY <1>3 DEF CloneLoads, DeleteLoads, Starts
  <2>3. ({t.old} \ {0}) \subseteq Images(Live) /\ Paths(t.refs) \subseteq Files(0..Jobs)
    BY <1>1, <2>1, <2>2, OwnedNamed
  <2>4. req[c].op \notin Writing \cup {"clean"} /\ t.op \notin Writing
    BY <2>1, <2>2 DEF Writing
  <2>5. (({t.old} \ {0}) \cup Paths(t.refs)) \subseteq Named
    BY <1>2, <2>3
  <2>. QED BY <2>0, <2>2, <2>3, <2>4, <2>5, ReadStep
<1>4. ASSUME NEW j \in 0..Jobs, NEW refs \in SUBSET Refs({0, j}), PlanLoads(c, j, refs)
      PROVE  FileInv'
  <2>. DEFINE image == IF j = 0 THEN 0 ELSE row[j].image
              t == [op |-> "plan", job |-> j, old |-> image, new |-> 0, refs |-> refs]
  <2>1. Becomes(c, t) /\ req[c].op = "none" /\ j \in {0} \cup Live
        /\ UNCHANGED <<row, assets, disk, made, torn, leaked>>
    BY <1>4 DEF PlanLoads, Starts
  <2>2. t.op = "plan" /\ t.refs = refs /\ t.old = image
    OBVIOUS
  <2>6. (j = 0 => image = 0) /\ (j # 0 => image = row[j].image)
    OBVIOUS
  <2>. HIDE DEF t, image
  <2>7. image = 0 \/ (j \in Live /\ image = row[j].image)
    BY <2>1, <2>6
  <2>3. ({t.old} \ {0}) \subseteq Named
    BY <1>1, <1>2, <2>2, <2>7
  <2>4. Paths(refs) \subseteq Paths(Refs({0, j})) /\ {0, j} \subseteq 0..Jobs
    <3>1. {0, j} \subseteq 0..Jobs
      BY LibraryAssumption
    <3>2. Paths(refs) \subseteq Paths(Refs({0, j}))
      BY DEF Paths
    <3>. QED BY <3>1, <3>2
  <2>5. Paths(t.refs) \subseteq Named
    BY <2>2, <2>4, OwnedNamed
  <2>8. req[c].op \notin Writing \cup {"clean"} /\ t.op \notin Writing /\ t.op # "clone"
    BY <2>1, <2>2 DEF Writing
  <2>. QED BY <2>1, <2>3, <2>5, <2>8, ReadStep
<1>5. ASSUME NEW old \in SUBSET Refs({0}), ExpireLoads(c, old) PROVE FileInv'
  <2>. DEFINE t == [Idle EXCEPT !.op = "expire", !.refs = old]
  <2>1. Becomes(c, t) /\ req[c].op = "none" /\ UNCHANGED <<row, assets, disk, made, torn, leaked>>
    BY <1>5 DEF ExpireLoads, Starts
  <2>2. t.op = "expire" /\ t.refs = old /\ t.old = 0
    BY DEF Idle
  <2>. HIDE DEF t
  <2>3. Paths(old) \subseteq Paths(Refs({0})) /\ {0} \subseteq 0..Jobs
    BY LibraryAssumption DEF Paths
  <2>4. (({t.old} \ {0}) \cup Paths(t.refs)) \subseteq Named
    BY <2>2, <2>3, OwnedNamed
  <2>5. req[c].op \notin Writing \cup {"clean"} /\ t.op \notin Writing /\ t.op # "clone"
    BY <2>1, <2>2 DEF Writing
  <2>. QED BY <2>1, <2>4, <2>5, ReadStep
<1>6. ASSUME PlanFails(c) PROVE FileInv'
  <2>1. /\ req[c].op = "plan" /\ Becomes(c, Idle)
        /\ UNCHANGED <<row, assets, disk, made, torn, leaked>>
    BY <1>6 DEF PlanFails, Goes
  <2>2. req[c].op \notin Writing \cup {"clean"} /\ Idle.op \notin Writing /\ Idle.op # "clone"
    BY <2>1, <1>0 DEF Writing
  <2>3. (({Idle.old} \ {0}) \cup Paths(Idle.refs)) \subseteq Named
    BY <1>0
  <2>. QED BY <2>1, <2>2, <2>3, ReadStep
<1>. QED BY <1>3, <1>4, <1>5, <1>6

(* After a step of a request that does not copy then.                      *)
LEMMA NamesStep ==
  ASSUME NEW c \in Request, \A d \in Request \ {c} : req'[d] = req[d], req'[c].op # "clone"
  PROVE  /\ ImageNames' \subseteq ImageNames \cup Images(Live)'
         /\ AssetNames' \subseteq AssetNames \cup Files(0..Jobs)'
         /\ \A p \in InUse' : p \in Named' \/ \E d \in Copying : p \in Reads(d)
<1>1. Copying' \subseteq Copying /\ \A d \in Copying' : req'[d] = req[d]
  BY DEF Copying
<1>2. {req[d].old : d \in Copying}' \subseteq {req[d].old : d \in Copying}
  BY <1>1
<1>3. (UNION {Paths(req[d].refs) : d \in Copying})' \subseteq UNION {Paths(req[d].refs) : d \in Copying}
  BY <1>1 DEF Paths
<1>4. ASSUME NEW p \in InUse' PROVE p \in Named' \/ \E d \in Copying : p \in Reads(d)
  <2>1. CASE p \in Named'
    BY <2>1
  <2>2. CASE p \in {req[d].old : d \in Copying} \ {0}
    BY <2>2 DEF Reads
  <2>3. CASE p \in UNION {Paths(req[d].refs) : d \in Copying}
    BY <2>3 DEF Reads
  <2>. QED BY <1>2, <1>3, <1>4, <2>1, <2>2, <2>3 DEF InUse, ImageNames, AssetNames, Named
<1>. QED BY <1>2, <1>3, <1>4 DEF ImageNames, AssetNames

(* Removing files that no row names afterwards.                            *)
LEMMA UnlinkStep ==
  ASSUME NEW c \in Request, \A d \in Request \ {c} : req'[d] = req[d], req'[c].op # "clone",
         NEW files, Unlink(files), files \cap Named' = {}
  PROVE  /\ InUse' \cap (disk \cup torn) \subseteq disk' \cup torn'
         /\ disk' = disk \ files /\ disk' \subseteq disk /\ disk \ disk' \subseteq files
<1>1. /\ disk' = disk \ files
      /\ torn' = torn \cup {p \in files \cap disk : \E d \in Request :
                              req[d].op = "clone" /\ p \in Reads(d)}
  BY DEF Unlink
<1>2. ASSUME NEW p \in InUse', p \in disk, p \in files PROVE p \in torn'
  BY <1>1, <1>2, NamesStep DEF Copying
<1>. QED BY <1>1, <1>2

(* An image or an attachment is written before any row names it.           *)
LEMMA SaveFile ==
  ASSUME TypeInv, TypeInv', FileInv, NEW c \in Request, NEW op \in {"create", "import", "edit"},
         NEW job, NEW old, NEW refs, Save(c, op, job, old, refs),
         (({old} \ {0}) \cup Paths(refs)) \subseteq Named
  PROVE  FileInv'
<1>. DEFINE t == [op |-> op, job |-> job, old |-> old, new |-> made + 1, refs |-> refs]
<1>0. MadeInv /\ NewInv /\ KindInv /\ PresentInv /\ HeldInv
  BY DEF FileInv
<1>1. /\ Becomes(c, t) /\ req[c].op = "none" /\ made' = made + 1 /\ disk' = disk \cup {made + 1}
      /\ UNCHANGED <<row, assets, torn, leaked>>
  BY DEF Save, Starts
<1>2. t.op = op /\ t.old = old /\ t.new = made + 1 /\ t.refs = refs
  OBVIOUS
<1>. HIDE DEF t
<1>3. req'[c] = t /\ \A d \in Request \ {c} : req'[d] = req[d]
  BY <1>1, Moves
<1>4. \A d \in Request \ {c} : Reads(d)' = Reads(d) /\ Keeps(d)' = Keeps(d)
  BY <1>3, Same
<1>5. Named' = Named /\ Images(Live)' = Images(Live) /\ Files(0..Jobs)' = Files(0..Jobs)
  BY <1>1 DEF Named, Images, Live, Files, Owned
<1>6. Reads(c)' \subseteq Named
  BY <1>2, <1>3 DEF Reads, Paths
<1>7. made \in Nat /\ \A d \in Request : req[d].new \in Nat
  BY ReadsType, LibraryAssumption DEF TypeInv, TypeOK
<1>8. \A d \in Request : Reads(d)' \subseteq 1..made
  BY <1>0, <1>4, <1>6 DEF MadeInv
<1>9. 1..made \subseteq 1..made' /\ made + 1 \in 1..made' /\ ~ (made + 1 \in 1..made)
  BY <1>1, <1>7
<1>10. MadeInv'
  <2>1. disk' \cup Named' \subseteq 1..made'
    BY <1>0, <1>1, <1>5, <1>9 DEF MadeInv
  <2>2. \A d \in Request : req'[d].new <= made'
    BY <1>0, <1>1, <1>2, <1>3, <1>7 DEF MadeInv
  <2>. QED BY <1>8, <1>9, <2>1, <2>2 DEF MadeInv
<1>11. NewInv'
  <2>. SUFFICES ASSUME NEW d \in Request, req'[d].op \in Writing
                PROVE  /\ req'[d].new \in disk' /\ req'[d].new \notin Named'
                       /\ \A e \in Request : /\ req'[d].new \notin Reads(e)'
                                             /\ req'[e].op \in Writing /\ e # d => req'[e].new # req'[d].new
    BY DEF NewInv
  <2>1. CASE d = c
    <3>1. req'[d].new = made + 1
      BY <1>2, <1>3, <2>1
    <3>2. \A e \in Request : e # c => req'[e].new <= made
      BY <1>0, <1>3 DEF MadeInv
    <3>3. \A e \in Request : e # d => req'[e].new # made + 1
      BY <1>3, <1>7, <2>1, <3>2
    <3>. QED BY <1>0, <1>1, <1>5, <1>8, <1>9, <3>1, <3>3 DEF MadeInv
  <2>2. CASE d # c
    <3>1. req'[d] = req[d]
      BY <1>3, <2>2
    <3>2. /\ req[d].new \in disk /\ req[d].new \notin Named
          /\ \A e \in Request : /\ req[d].new \notin Reads(e)
                                /\ req[e].op \in Writing /\ e # d => req[e].new # req[d].new
      BY <1>0, <3>1 DEF NewInv
    <3>3. req[d].new <= made
      BY <1>0 DEF MadeInv
    <3>4. req'[c].new # req[d].new
      BY <1>2, <1>3, <1>7, <3>3
    <3>5. \A e \in Request : req'[e].op \in Writing /\ e # d => req'[e].new # req'[d].new
      BY <1>3, <3>1, <3>2, <3>4
    <3>6. \A e \in Request : req'[d].new \notin Reads(e)'
      BY <1>4, <1>6, <3>1, <3>2
    <3>. QED BY <1>1, <1>5, <3>1, <3>2, <3>5, <3>6
  <2>. QED BY <2>1, <2>2
<1>12. ImageNames' \subseteq ImageNames /\ AssetNames' \subseteq AssetNames
  <2>1. req'[c].op # "clone"
    BY <1>2, <1>3
  <2>. QED BY <1>3, <1>5, <2>1, NamesStep DEF ImageNames, AssetNames
<1>13. KindInv' /\ PresentInv'
  BY <1>0, <1>1, <1>12 DEF KindInv, PresentInv, InUse
<1>14. HeldInv'
  <2>1. Keeps(c) = {} /\ made + 1 \in Keeps(c)'
    BY <1>1, <1>2, <1>3 DEF Keeps, Writing
  <2>2. \A d \in Request : Keeps(d) \subseteq Keeps(d)'
    BY <1>4, <2>1
  <2>. QED BY <1>0, <1>1, <1>5, <2>1, <2>2 DEF HeldInv
<1>. QED BY <1>10, <1>11, <1>13, <1>14 DEF FileInv

LEMMA SavesFile ==
  ASSUME TypeInv, TypeInv', FileInv, NEW c \in Request,
         Upload(c) \/ Import(c) \/ \E j \in Job : EditLoads(c, j)
  PROVE  FileInv'
<1>1. (({0} \ {0}) \cup Paths({})) \subseteq Named
  BY DEF Paths
<1>2. CASE Upload(c)
  BY <1>1, <1>2, SaveFile DEF Upload
<1>3. CASE Import(c)
  BY <1>1, <1>3, SaveFile DEF Import
<1>4. ASSUME NEW j \in Job, EditLoads(c, j) PROVE FileInv'
  <2>1. j \in Live /\ Save(c, "edit", j, row[j].image, Refs({j}))
    BY <1>4 DEF EditLoads
  <2>2. ({row[j].image} \ {0}) \subseteq Named
    BY <2>1 DEF Named, Images
  <2>3. {j} \subseteq 0..Jobs
    BY LibraryAssumption DEF Job
  <2>4. Paths(Refs({j})) \subseteq Named
    BY <2>3, OwnedNamed
  <2>. QED BY <2>1, <2>2, <2>4, SaveFile
<1>. QED BY <1>2, <1>3, <1>4

LEMMA IdleReads ==
  ASSUME TypeInv, NEW c \in Request, Becomes(c, Idle)
  PROVE  /\ req'[c].op = "none" /\ \A d \in Request \ {c} : req'[d] = req[d]
         /\ Reads(c)' = {} /\ Keeps(c)' = {} /\ req'[c].op \notin Writing /\ req'[c].op # "clone"
<1>1. req'[c] = Idle /\ \A d \in Request \ {c} : req'[d] = req[d]
  BY Moves
<1>2. Idle.op = "none" /\ Idle.old = 0 /\ Idle.refs = {}
  BY DEF Idle
<1>. QED BY <1>1, <1>2 DEF Reads, Paths, Keeps, Writing

LEMMA LeavesReads ==
  ASSUME TypeInv, NEW c \in Request, NEW files \in SUBSET Path, Leaves(c, files)
  PROVE  /\ \A d \in Request \ {c} : req'[d] = req[d]
         /\ Reads(c)' = files /\ Keeps(c)' = files
         /\ req'[c].op \notin Writing /\ req'[c].op # "clone"
<1>1. PICK t \in Coroutine :
        /\ Lawful(t) /\ Becomes(c, t) /\ t.op \in {"none", "clean"} /\ t.new = 0 /\ t.old = 0
        /\ t.op = "none" => files = {}
        /\ t.refs = files \X {0}
  BY LeavesType
<1>2. req'[c] = t /\ \A d \in Request \ {c} : req'[d] = req[d]
  BY <1>1, Moves
<1>3. Paths(files \X {0}) = files
  <2>1. \A p \in files : <<p, 0>> \in files \X {0} /\ <<p, 0>>[1] = p
    OBVIOUS
  <2>2. \A r \in files \X {0} : r[1] \in files
    OBVIOUS
  <2>. QED BY <2>1, <2>2 DEF Paths
<1>4. Reads(c)' = files
  BY <1>1, <1>2, <1>3 DEF Reads, Paths
<1>5. Keeps(c)' = files
  BY <1>1, <1>2, <1>4 DEF Keeps, Writing
<1>. QED BY <1>1, <1>2, <1>4, <1>5 DEF Writing

(* The requests that wrote a file. *)
LEMMA RefusedFile ==
  ASSUME TypeInv, TypeInv', FileInv, NEW c \in Request, Refused(c) \/ EditFails(c)
  PROVE  FileInv'
<1>. DEFINE none == {}
<1>1. /\ Becomes(c, Idle) /\ req[c].op \in Writing /\ UNCHANGED <<row, assets, made>>
  BY DEF Refused, EditFails, Goes, Writing
<1>2. /\ \A d \in Request \ {c} : req'[d] = req[d]
      /\ Reads(c)' = {} /\ Keeps(c)' = {} /\ req'[c].op \notin Writing /\ req'[c].op # "clone"
  BY <1>1, IdleReads
<1>3. Named' = Named /\ Images(Live)' = Images(Live) /\ Files(0..Jobs)' = Files(0..Jobs)
  BY <1>1 DEF Named, Images, Live, Files, Owned
<1>4. Settled(c) = {req[c].new} /\ Keeps(c) = {req[c].new} /\ req[c].new \notin Named
  BY <1>1, <1>2 DEF Settled, Keeps, FileInv, NewInv
<1>5. none \in SUBSET Settled(c) /\ ImageNames' \subseteq ImageNames \cup none
      /\ AssetNames' \subseteq AssetNames \cup none
  BY <1>2, <1>3, NamesStep DEF ImageNames, AssetNames
<1>6. /\ InUse' \cap (disk \cup torn) \subseteq disk' \cup torn' /\ disk' \subseteq disk
      /\ disk \ disk' \subseteq {req[c].new} /\ leaked \subseteq leaked'
      /\ req[c].new \in disk' => req[c].new \in leaked'
  <2>1. CASE Refused(c)
    <3>1. Unlink({req[c].new}) /\ leaked' = leaked
      BY <2>1 DEF Refused
    <3>. QED BY <1>2, <1>3, <1>4, <3>1, UnlinkStep
  <2>2. CASE EditFails(c)
    BY <2>2 DEF EditFails
  <2>. QED BY <2>1, <2>2
<1>7. disk' \cap (Named \cup Keeps(c)) \subseteq Named' \cup leaked' \cup Keeps(c)'
  BY <1>3, <1>4, <1>6
<1>. QED BY <1>1, <1>2, <1>4, <1>5, <1>6, <1>7, FileStep

LEMMA CreateJobFile ==
  ASSUME TypeInv, TypeInv', FileInv, NEW c \in Request, NEW j \in Job, CreateJob(c, j)
  PROVE  FileInv'
<1>. DEFINE none == {}
            image == {req[c].new}
<1>1. /\ Becomes(c, Idle) /\ req[c].op = "create" /\ j \notin Live
      /\ row' = [row EXCEPT ![j] = [live |-> TRUE, image |-> req[c].new]]
      /\ UNCHANGED <<assets, disk, made, torn, leaked>>
  BY DEF CreateJob, Goes
<1>2. /\ \A d \in Request \ {c} : req'[d] = req[d]
      /\ Reads(c)' = {} /\ Keeps(c)' = {} /\ req'[c].op \notin Writing /\ req'[c].op # "clone"
  BY <1>1, IdleReads
<1>3. req[c].new # 0 /\ Settled(c) = image /\ Keeps(c) = image
  BY <1>1, <1>2, RequestType DEF Settled, Keeps, Lawful, Writing
<1>4. row'[j].live /\ row'[j].image = req[c].new /\ \A k \in Job : k # j => row'[k] = row[k]
  BY <1>1 DEF TypeInv, TypeOK
<1>5. Images(Live)' = Images(Live) \cup image
  BY <1>1, <1>3, <1>4 DEF Images, Live
<1>6. Files(0..Jobs)' = Files(0..Jobs)
  BY <1>1 DEF Files, Owned
<1>7. ImageNames' \subseteq ImageNames \cup image /\ AssetNames' \subseteq AssetNames \cup none
  BY <1>2, <1>5, <1>6, NamesStep DEF ImageNames, AssetNames
<1>8. Named' = Named \cup image
  BY <1>5, <1>6 DEF Named
<1>9. disk' \cap (Named \cup Keeps(c)) \subseteq Named' \cup leaked' \cup Keeps(c)'
  BY <1>3, <1>8
<1>10. image \in SUBSET Settled(c) /\ none \in SUBSET Settled(c) /\ none = {}
  BY <1>3
<1>11. /\ made' = made /\ disk' \subseteq disk /\ leaked \subseteq leaked'
       /\ disk \ disk' \subseteq Reads(c) \cup Named \cup Settled(c)
       /\ InUse' \cap (disk \cup torn) \subseteq disk' \cup torn'
  BY <1>1
<1>. HIDE DEF none, image
<1>. QED BY <1>2, <1>7, <1>9, <1>10, <1>11, FileStep

LEMMA ImportFileFile ==
  ASSUME TypeInv, TypeInv', FileInv, NEW c \in Request, ImportFile(c)
  PROVE  FileInv'
<1>. DEFINE none == {}
            file == {req[c].new}
            asset == [path |-> req[c].new, copy |-> 0, owner |-> 0]
<1>1. /\ Becomes(c, Idle) /\ req[c].op = "import" /\ assets' = assets \cup {asset}
      /\ UNCHANGED <<row, disk, made, torn, leaked>>
  BY DEF ImportFile, Goes
<1>2. /\ \A d \in Request \ {c} : req'[d] = req[d]
      /\ Reads(c)' = {} /\ Keeps(c)' = {} /\ req'[c].op \notin Writing /\ req'[c].op # "clone"
  BY <1>1, IdleReads
<1>3. Settled(c) = file /\ Keeps(c) = file
  BY <1>1, <1>2 DEF Settled, Keeps, Writing
<1>4. asset.path = req[c].new /\ asset.owner \in 0..Jobs
  BY LibraryAssumption
<1>. HIDE DEF asset
<1>5. Images(Live)' = Images(Live)
  BY <1>1 DEF Images, Live
<1>6. Files(0..Jobs)' = Files(0..Jobs) \cup file
  BY <1>1, <1>4 DEF Files, Owned
<1>7. ImageNames' \subseteq ImageNames \cup none /\ AssetNames' \subseteq AssetNames \cup file
  BY <1>2, <1>5, <1>6, NamesStep DEF ImageNames, AssetNames
<1>8. Named' = Named \cup file
  BY <1>5, <1>6 DEF Named
<1>9. disk' \cap (Named \cup Keeps(c)) \subseteq Named' \cup leaked' \cup Keeps(c)'
  BY <1>3, <1>8
<1>10. file \in SUBSET Settled(c) /\ none \in SUBSET Settled(c) /\ none = {}
  BY <1>3
<1>11. /\ made' = made /\ disk' \subseteq disk /\ leaked \subseteq leaked'
       /\ disk \ disk' \subseteq Reads(c) \cup Named \cup Settled(c)
       /\ InUse' \cap (disk \cup torn) \subseteq disk' \cup torn'
  BY <1>1
<1>. HIDE DEF none, file
<1>. QED BY <1>2, <1>7, <1>9, <1>10, <1>11, FileStep

LEMMA EditUnlinksFile ==
  ASSUME TypeInv, TypeInv', FileInv, NEW c \in Request, EditUnlinks(c)
  PROVE  FileInv'
<1>. DEFINE none == {}
            t == [req[c] EXCEPT !.op = "unlinked"]
            old == req[c].old
            unused == IF old = 0 \/ Referenced(old, req[c].job) THEN {} ELSE {old}
<1>1. /\ Becomes(c, t) /\ req[c].op = "edit" /\ UNCHANGED <<row, assets, made, leaked>>
      /\ disk' = disk \ unused
      /\ torn' = torn \cup ({old} \ ({0} \cup Images(Live \ {req[c].job}) \cup Files(0..Jobs)))
  BY DEF EditUnlinks, Goes
<1>2. t.op = "unlinked" /\ t.new = req[c].new /\ t.old = req[c].old /\ t.refs = req[c].refs
  BY RequestType DEF Coroutine
<1>. HIDE DEF t
<1>3. req'[c] = t /\ \A d \in Request \ {c} : req'[d] = req[d]
  BY <1>1, Moves
<1>4. Reads(c)' = Reads(c) /\ Keeps(c)' = Keeps(c)
  BY <1>1, <1>2, <1>3 DEF Reads, Paths, Keeps, Writing
<1>5. Named' = Named /\ Images(Live)' = Images(Live) /\ Files(0..Jobs)' = Files(0..Jobs)
  BY <1>1 DEF Named, Images, Live, Files, Owned
<1>6. ImageNames' \subseteq ImageNames \cup none /\ AssetNames' \subseteq AssetNames \cup none
  BY <1>2, <1>3, <1>5, NamesStep DEF ImageNames, AssetNames
<1>7. unused \subseteq torn' /\ unused \subseteq Reads(c)
  BY <1>1 DEF Referenced, Reads
<1>. HIDE DEF unused
<1>8. /\ made' = made /\ disk' \subseteq disk /\ leaked \subseteq leaked'
      /\ disk \ disk' \subseteq Reads(c) \cup Named \cup Settled(c)
      /\ InUse' \cap (disk \cup torn) \subseteq disk' \cup torn'
  BY <1>1, <1>7
<1>9. disk' \cap (Named \cup Keeps(c)) \subseteq Named' \cup leaked' \cup Keeps(c)'
  BY <1>4, <1>5
<1>10. req[c].op \in Writing /\ req'[c].new = req[c].new
  BY <1>1, <1>2, <1>3 DEF Writing
<1>11. none \in SUBSET Settled(c) /\ none = {}
  OBVIOUS
<1>. HIDE DEF none
<1>. QED BY <1>3, <1>4, <1>6, <1>8, <1>9, <1>10, <1>11, FileStep

LEMMA EditCommitsFile ==
  ASSUME TypeInv, TypeInv', FileInv, NEW c \in Request, EditCommits(c)
  PROVE  FileInv'
<1>. DEFINE none == {}
            image == {req[c].new}
            j == req[c].job
            let_go == IF req[c].refs = {} THEN {} ELSE Owned({j})
            files == {a.path : a \in let_go} \cup ({req[c].old} \ {0})
<1>1. /\ req[c].op = "unlinked" /\ j \in Live /\ j \in Job /\ req[c].new # 0
  BY RequestType DEF EditCommits, Goes, Lawful, Live, Writing
<1>2. let_go \subseteq assets /\ \A a \in assets : a.path \in Path /\ a.owner \in 0..Jobs
  BY DEF Owned, TypeInv, TypeOK, Asset
<1>3. files \in SUBSET Path
  BY <1>2, ReadsType
<1>4. /\ row' = [row EXCEPT ![j].image = req[c].new] /\ assets' = assets \ let_go
      /\ leaked' = leaked \cup ({row[j].image} \ {0, req[c].old})
      /\ Leaves(c, files) /\ UNCHANGED <<disk, made, torn>>
  BY DEF EditCommits
<1>5. /\ \A d \in Request \ {c} : req'[d] = req[d]
      /\ Reads(c)' = files /\ Keeps(c)' = files /\ req'[c].op \notin Writing /\ req'[c].op # "clone"
  BY <1>3, <1>4, LeavesReads
<1>6. Settled(c) = image /\ Keeps(c) = image
  BY <1>1, <1>5 DEF Settled, Keeps, Writing
<1>7. /\ row'[j].live /\ row'[j].image = req[c].new /\ \A k \in Job : k # j => row'[k] = row[k]
  BY <1>1, <1>4 DEF TypeInv, TypeOK, Row, Live
<1>8. /\ Images(Live)' \subseteq Images(Live) \cup image /\ image \subseteq Images(Live)'
      /\ Images(Live) \subseteq Images(Live)' \cup {row[j].image}
  BY <1>1, <1>7 DEF Images, Live
<1>9. /\ Files(0..Jobs)' \subseteq Files(0..Jobs)
      /\ Files(0..Jobs) \subseteq Files(0..Jobs)' \cup {a.path : a \in let_go}
      /\ {a.path : a \in let_go} \subseteq Files(0..Jobs)
  <2>. HIDE DEF let_go
  <2>. QED BY <1>2, <1>4 DEF Files, Owned
<1>10. ImageNames' \subseteq ImageNames \cup image /\ AssetNames' \subseteq AssetNames \cup none
  BY <1>5, <1>8, <1>9, NamesStep DEF ImageNames, AssetNames
<1>11. Reads(c)' \subseteq Reads(c) \cup Named
  BY <1>5, <1>9 DEF Reads, Named
<1>12. disk' \cap (Named \cup Keeps(c)) \subseteq Named' \cup leaked' \cup Keeps(c)'
  <2>1. \A p \in Files(0..Jobs) : p \in Files(0..Jobs)' \cup Keeps(c)'
    BY <1>5, <1>9
  <2>2. ~ (0 \in Images(Live))
    BY DEF Images
  <2>3. \A p \in Images(Live) : p \in Images(Live)' \cup leaked' \cup Keeps(c)'
    BY <1>4, <1>5, <1>8, <2>2
  <2>. QED BY <1>6, <1>8, <2>1, <2>3 DEF Named
<1>13. /\ made' = made /\ disk' \subseteq disk /\ leaked \subseteq leaked'
       /\ disk \ disk' \subseteq Reads(c) \cup Named \cup Settled(c)
       /\ InUse' \cap (disk \cup torn) \subseteq disk' \cup torn'
  BY <1>4
<1>14. image \in SUBSET Settled(c) /\ none \in SUBSET Settled(c) /\ none = {}
  BY <1>6
<1>. HIDE DEF none, image, let_go, files
<1>. QED BY <1>5, <1>10, <1>11, <1>12, <1>13, <1>14, FileStep

LEMMA CleansUpFile ==
  ASSUME TypeInv, TypeInv', FileInv, NEW c \in Request, CleansUp(c)
  PROVE  FileInv'
<1>. DEFINE none == {}
<1>0. req[c].op = "clean" /\ req[c].old = 0 /\ UNCHANGED <<row, assets, made, leaked>>
  BY RequestType DEF CleansUp, Goes, Lawful
<1>1. PICK r \in req[c].refs :
        /\ Clean(r[1])
        /\ Becomes(c, IF req[c].refs = {r} THEN Idle ELSE [req[c] EXCEPT !.refs = @ \ {r}])
  BY DEF CleansUp
<1>. DEFINE t == IF req[c].refs = {r} THEN Idle ELSE [req[c] EXCEPT !.refs = @ \ {r}]
<1>2. /\ t.op \in {"none", "clean"} /\ t.old = 0 /\ t.refs = req[c].refs \ {r}
      /\ t.op = "none" => t.refs = {}
  BY <1>0, RequestType DEF Coroutine, Idle
<1>3. Becomes(c, t)
  BY <1>1
<1>. HIDE DEF t
<1>4. req'[c] = t /\ \A d \in Request \ {c} : req'[d] = req[d]
  BY <1>3, Moves
<1>5. Named' = Named /\ Images(Live)' = Images(Live) /\ Files(0..Jobs)' = Files(0..Jobs)
  BY <1>0 DEF Named, Images, Live, Files, Owned
<1>6. ImageNames' \subseteq ImageNames \cup none /\ AssetNames' \subseteq AssetNames \cup none
  BY <1>2, <1>4, <1>5, NamesStep DEF ImageNames, AssetNames
<1>. DEFINE files == {r[1]} \ Named
<1>7. /\ InUse' \cap (disk \cup torn) \subseteq disk' \cup torn'
      /\ disk' = disk \ files /\ disk' \subseteq disk /\ disk \ disk' \subseteq files
  <2>1. Unlink(files) /\ files \cap Named' = {}
    BY <1>1, <1>5 DEF Clean
  <2>2. req'[c].op # "clone"
    BY <1>2, <1>4
  <2>. HIDE DEF files
  <2>. QED BY <1>4, <2>1, <2>2, UnlinkStep
<1>8. r[1] \in Reads(c) /\ Reads(c)' \subseteq Reads(c) /\ Reads(c) \subseteq Reads(c)' \cup {r[1]}
  BY <1>0, <1>1, <1>2, <1>4 DEF Reads, Paths
<1>9. Keeps(c) = Reads(c) /\ Keeps(c)' = Reads(c)'
  <2>1. Keeps(c) = Reads(c)
    BY <1>0 DEF Keeps, Writing
  <2>2. Keeps(c)' = Reads(c)'
    BY <1>2, <1>4 DEF Keeps, Writing, Reads, Paths
  <2>. QED BY <2>1, <2>2
<1>10. disk' \cap (Named \cup Keeps(c)) \subseteq Named' \cup leaked' \cup Keeps(c)'
  BY <1>5, <1>7, <1>8, <1>9
<1>11. req'[c].op \notin Writing
  BY <1>2, <1>4 DEF Writing
<1>12. none \in SUBSET Settled(c) /\ none = {} /\ made' = made /\ leaked \subseteq leaked'
       /\ Reads(c)' \subseteq Reads(c) \cup Named
       /\ disk \ disk' \subseteq Reads(c) \cup Named \cup Settled(c)
  BY <1>0, <1>7, <1>8
<1>. HIDE DEF none, files
<1>. QED BY <1>4, <1>6, <1>7, <1>10, <1>11, <1>12, FileStep

(* The requests that commit what they read.                                *)
LEMMA CommitStep ==
  ASSUME TypeInv, TypeInv', FileInv, NEW c \in Request,
         \A d \in Request \ {c} : req'[d] = req[d],
         req[c].op \notin Writing \cup {"clean"}, req'[c].op \notin Writing \cup {"clone"},
         UNCHANGED <<disk, made, torn>>, leaked \subseteq leaked',
         Reads(c)' \subseteq Reads(c) \cup Named,
         Images(Live)' \subseteq ImageNames, Files(0..Jobs)' \subseteq AssetNames,
         Named \subseteq Named' \cup leaked' \cup Keeps(c)'
  PROVE  FileInv'
<1>. DEFINE none == {}
<1>1. ImageNames' \subseteq ImageNames \cup none /\ AssetNames' \subseteq AssetNames \cup none
  BY NamesStep
<1>2. Keeps(c) = {}
  BY DEF Keeps
<1>3. disk' \cap (Named \cup Keeps(c)) \subseteq Named' \cup leaked' \cup Keeps(c)'
  BY <1>2
<1>4. none \in SUBSET Settled(c) /\ none = {} /\ made' = made /\ disk' \subseteq disk
      /\ InUse' \cap (disk \cup torn) \subseteq disk' \cup torn'
      /\ disk \ disk' \subseteq Reads(c) \cup Named \cup Settled(c)
      /\ req'[c].op \notin Writing
  OBVIOUS
<1>. HIDE DEF none
<1>. QED BY <1>1, <1>3, <1>4, FileStep

LEMMA PlanCommitsFile ==
  ASSUME TypeInv, TypeInv', FileInv, NEW c \in Request, NEW j \in Job, PlanCommits(c, j)
  PROVE  FileInv'
<1>. DEFINE kept == {a \in assets : <<a.path, a.copy>> \in req[c].refs}
            given == {[a EXCEPT !.owner = j] : a \in kept}
            dropped == Dropped(j, req[c].refs)
            files == dropped \cup ({req[c].old} \ {0})
<1>1. /\ req[c].op = "plan" /\ assets' = (assets \ (Owned({j}) \cup kept)) \cup given
      /\ row' = [row EXCEPT ![j] = [live |-> TRUE, image |-> 0]] /\ Leaves(c, files)
      /\ leaked' = leaked \cup ({row[j].image} \ {0, req[c].old}) /\ UNCHANGED <<disk, made, torn>>
  BY DEF PlanCommits, Goes
<1>2. \A a \in assets : a.path \in Path /\ a.copy \in 0..Jobs /\ a.owner \in 0..Jobs
  BY DEF TypeInv, TypeOK, Asset
<1>3. j \in 0..Jobs
  BY LibraryAssumption DEF Job
<1>4. dropped \subseteq Files(0..Jobs) /\ Files(0..Jobs) \subseteq Named
  <2>1. dropped \subseteq Paths(Refs({j}))
    BY DEF Dropped, Paths
  <2>. QED BY <1>3, <2>1, OwnedNamed
<1>5. files \in SUBSET Path
  BY <1>4, RefsType, ReadsType DEF TypeInv
<1>6. /\ \A d \in Request \ {c} : req'[d] = req[d]
      /\ Reads(c)' = files /\ Keeps(c)' = files /\ req'[c].op \notin Writing /\ req'[c].op # "clone"
  BY <1>1, <1>5, LeavesReads
<1>7. req[c].op \notin Writing \cup {"clean"} /\ req'[c].op \notin Writing \cup {"clone"}
  BY <1>1, <1>6 DEF Writing
<1>8. row'[j].live /\ row'[j].image = 0 /\ \A k \in Job : k # j => row'[k] = row[k]
  BY <1>1 DEF TypeInv, TypeOK
<1>9. Images(Live)' \subseteq Images(Live) /\ Images(Live) \subseteq Images(Live)' \cup {row[j].image}
  BY <1>8 DEF Images, Live
<1>10. given \subseteq {[a EXCEPT !.owner = j] : a \in assets}
       /\ \A a \in assets : [a EXCEPT !.owner = j].path = a.path /\ [a EXCEPT !.owner = j].owner = j
  BY DEF TypeInv, TypeOK, Asset
<1>11. Files(0..Jobs)' \subseteq Files(0..Jobs)
  <2>. SUFFICES ASSUME NEW b \in assets', b.owner \in 0..Jobs PROVE b.path \in Files(0..Jobs)
    BY DEF Files, Owned
  <2>1. CASE b \in assets
    BY <2>1 DEF Files, Owned
  <2>2. CASE b \in given
    <3>1. PICK a \in assets : b = [a EXCEPT !.owner = j]
      BY <1>10, <2>2
    <3>. QED BY <1>2, <1>10, <3>1 DEF Files, Owned
  <2>. QED BY <1>1, <2>1, <2>2
<1>12. Files(0..Jobs) \subseteq Files(0..Jobs)' \cup dropped
  <2>. SUFFICES ASSUME NEW a \in assets PROVE a.path \in Files(0..Jobs)' \cup dropped
    BY DEF Files, Owned
  <2>1. CASE a \in kept
    <3>. DEFINE b == [a EXCEPT !.owner = j]
    <3>1. b \in assets'
      BY <1>1, <2>1
    <3>2. b.path = a.path /\ b.owner = j
      BY <1>10
    <3>. HIDE DEF b
    <3>. QED BY <1>3, <3>1, <3>2 DEF Files, Owned
  <2>2. CASE a \notin kept /\ a.owner = j
    <3>1. <<a.path, a.copy>> \in Refs({j}) \ req[c].refs
      BY <2>2 DEF Refs, Owned
    <3>2. <<a.path, a.copy>>[1] \in Paths(Refs({j}) \ req[c].refs)
      BY <3>1 DEF Paths
    <3>. QED BY <3>2 DEF Dropped
  <2>3. CASE a \notin kept /\ a.owner # j
    <3>1. a \in assets'
      BY <1>1, <2>3 DEF Owned
    <3>. QED BY <1>2, <3>1 DEF Files, Owned
  <2>. QED BY <2>1, <2>2, <2>3
<1>13. Named \subseteq Named' \cup leaked' \cup Keeps(c)'
  <2>1. ~ (0 \in Images(Live))
    BY DEF Images
  <2>2. \A p \in Images(Live) : p \in Images(Live)' \cup leaked' \cup Keeps(c)'
    BY <1>1, <1>6, <1>9, <2>1
  <2>. QED BY <1>6, <1>12, <2>2 DEF Named
<1>14. Reads(c)' \subseteq Reads(c) \cup Named
  BY <1>4, <1>6 DEF Reads
<1>15. Images(Live)' \subseteq ImageNames /\ Files(0..Jobs)' \subseteq AssetNames
  BY <1>9, <1>11 DEF ImageNames, AssetNames
<1>16. UNCHANGED <<disk, made, torn>> /\ leaked \subseteq leaked'
  BY <1>1
<1>. HIDE DEF kept, given, files, dropped
<1>. QED BY <1>6, <1>7, <1>13, <1>14, <1>15, <1>16, CommitStep

LEMMA CloneCommitsFile ==
  ASSUME TypeInv, TypeInv', FileInv, NEW c \in Request, NEW k \in Job, CloneCommits(c, k)
  PROVE  FileInv'
<1>. DEFINE copies == [path : Paths(req[c].refs), copy : {k}, owner : {k}]
<1>1. /\ req[c].op = "clone" /\ k \notin Live /\ Becomes(c, Idle)
      /\ row' = [row EXCEPT ![k] = [live |-> TRUE, image |-> req[c].old]]
      /\ assets' = assets \cup copies /\ UNCHANGED <<disk, made, torn, leaked>>
  BY DEF CloneCommits, Goes
<1>2. /\ \A d \in Request \ {c} : req'[d] = req[d]
      /\ Reads(c)' = {} /\ Keeps(c)' = {} /\ req'[c].op \notin Writing /\ req'[c].op # "clone"
  BY <1>1, IdleReads
<1>3. row'[k].live /\ row'[k].image = req[c].old /\ \A j \in Job : k # j => row'[j] = row[j]
  BY <1>1 DEF TypeInv, TypeOK
<1>4. Images(Live)' \subseteq ImageNames /\ Images(Live) \subseteq Images(Live)'
  BY <1>1, <1>3 DEF Images, Live, ImageNames, Copying
<1>5. Files(0..Jobs)' \subseteq AssetNames /\ Files(0..Jobs) \subseteq Files(0..Jobs)'
  <2>1. \A a \in copies : a.path \in Paths(req[c].refs)
    OBVIOUS
  <2>2. Paths(req[c].refs) \subseteq AssetNames /\ Files(0..Jobs) \subseteq AssetNames
    BY <1>1 DEF AssetNames, Copying
  <2>. HIDE DEF copies
  <2>. QED BY <1>1, <2>1, <2>2 DEF Files, Owned
<1>6. Named \subseteq Named'
  BY <1>4, <1>5 DEF Named
<1>7. req[c].op \notin Writing \cup {"clean"} /\ req'[c].op \notin Writing \cup {"clone"}
  BY <1>1, <1>2 DEF Writing
<1>. HIDE DEF copies
<1>8. UNCHANGED <<disk, made, torn>> /\ leaked \subseteq leaked'
  BY <1>1
<1>. QED BY <1>2, <1>4, <1>5, <1>6, <1>7, <1>8, CommitStep

LEMMA DeleteCommitsFile ==
  ASSUME TypeInv, TypeInv', FileInv, NEW c \in Request, DeleteCommits(c)
  PROVE  FileInv'
<1>. DEFINE j == req[c].job
<1>1. /\ req[c].op = "delete" /\ row' = [row EXCEPT ![j] = Gone] /\ assets' = assets \ Owned({j})
      /\ leaked' = leaked \cup ((Images({j}) \cup Files({j})) \ Reads(c))
      /\ Leaves(c, Reads(c)) /\ UNCHANGED <<disk, made, torn>> /\ j \in Job
  BY RequestType DEF DeleteCommits, Goes, Lawful
<1>2. /\ \A d \in Request \ {c} : req'[d] = req[d]
      /\ Reads(c)' = Reads(c) /\ Keeps(c)' = Reads(c)
      /\ req'[c].op \notin Writing /\ req'[c].op # "clone"
  BY <1>1, ReadsType, LeavesReads
<1>3. row'[j] = Gone /\ ~ Gone.live /\ \A k \in Job : k # j => row'[k] = row[k]
  BY <1>1 DEF TypeInv, TypeOK, Gone
<1>4. /\ Images(Live)' \subseteq Images(Live)
      /\ Images(Live) \subseteq Images(Live)' \cup Images({j})
  BY <1>1, <1>3 DEF Images, Live
<1>5. Files(0..Jobs)' \subseteq Files(0..Jobs) /\ Files(0..Jobs) \subseteq Files(0..Jobs)' \cup Files({j})
  BY <1>1 DEF Files, Owned
<1>6. Named \subseteq Named' \cup leaked' \cup Keeps(c)'
  BY <1>1, <1>2, <1>4, <1>5 DEF Named
<1>7. Images(Live)' \subseteq ImageNames /\ Files(0..Jobs)' \subseteq AssetNames
  BY <1>4, <1>5 DEF ImageNames, AssetNames
<1>8. req[c].op \notin Writing \cup {"clean"} /\ req'[c].op \notin Writing \cup {"clone"}
  BY <1>1, <1>2 DEF Writing
<1>9. UNCHANGED <<disk, made, torn>> /\ leaked \subseteq leaked' /\ Reads(c)' \subseteq Reads(c) \cup Named
  BY <1>1, <1>2
<1>. QED BY <1>2, <1>6, <1>7, <1>8, <1>9, CommitStep

LEMMA ExpireCommitsFile ==
  ASSUME TypeInv, TypeInv', FileInv, NEW c \in Request, ExpireCommits(c)
  PROVE  FileInv'
<1>1. /\ req[c].op = "expire" /\ assets' = {a \in assets : <<a.path, a.copy>> \notin req[c].refs}
      /\ Leaves(c, Paths(req[c].refs)) /\ UNCHANGED <<row, disk, made, torn, leaked>>
  BY DEF ExpireCommits, Goes
<1>2. /\ \A d \in Request \ {c} : req'[d] = req[d]
      /\ Reads(c)' = Paths(req[c].refs) /\ Keeps(c)' = Paths(req[c].refs)
      /\ req'[c].op \notin Writing /\ req'[c].op # "clone"
  BY <1>1, ReadsType, LeavesReads
<1>3. Images(Live)' = Images(Live)
  BY <1>1 DEF Images, Live
<1>4. Files(0..Jobs)' \subseteq Files(0..Jobs)
  BY <1>1 DEF Files, Owned
<1>5. Files(0..Jobs) \subseteq Files(0..Jobs)' \cup Paths(req[c].refs)
  <2>. SUFFICES ASSUME NEW a \in assets, a.owner \in 0..Jobs
                PROVE  a.path \in Files(0..Jobs)' \cup Paths(req[c].refs)
    BY DEF Files, Owned
  <2>1. CASE <<a.path, a.copy>> \in req[c].refs
    <3>1. <<a.path, a.copy>>[1] \in Paths(req[c].refs)
      BY <2>1 DEF Paths
    <3>. QED BY <3>1
  <2>2. CASE <<a.path, a.copy>> \notin req[c].refs
    BY <1>1, <2>2 DEF Files, Owned
  <2>. QED BY <2>1, <2>2
<1>6. Named \subseteq Named' \cup leaked' \cup Keeps(c)'
  BY <1>2, <1>3, <1>5 DEF Named
<1>7. Images(Live)' \subseteq ImageNames /\ Files(0..Jobs)' \subseteq AssetNames
  BY <1>3, <1>4 DEF ImageNames, AssetNames
<1>8. req[c].op \notin Writing \cup {"clean"} /\ req'[c].op \notin Writing \cup {"clone"}
  BY <1>1, <1>2 DEF Writing
<1>9. UNCHANGED <<disk, made, torn>> /\ leaked \subseteq leaked' /\ Reads(c)' \subseteq Reads(c) \cup Named
  BY <1>1, <1>2 DEF Reads
<1>. QED BY <1>2, <1>6, <1>7, <1>8, <1>9, CommitStep

LEMMA DeleteTokenFile ==
  ASSUME TypeInv, TypeInv', FileInv, NEW c \in Request, NEW mine \in SUBSET Job, DeleteToken(c, mine)
  PROVE  FileInv'
<1>. DEFINE none == {}
            files == Images(mine) \ Images(Live \ mine)
<1>1. /\ row' = [j \in Job |-> IF j \in mine THEN Gone ELSE row[j]]
      /\ assets' = assets \ Owned(mine) /\ Unlink(files) /\ mine \subseteq Live
      /\ leaked' = leaked \cup Files(mine) /\ made' = made /\ req' = req /\ req[c].op = "none"
  BY DEF DeleteToken, Starts
<1>2. \A j \in Job : row'[j] = IF j \in mine THEN Gone ELSE row[j]
  BY <1>1
<1>3. Live' = Live \ mine /\ \A j \in Live \ mine : row'[j] = row[j]
  BY <1>2 DEF Live, Gone
<1>4. Images(Live)' = Images(Live \ mine)
  BY <1>3 DEF Images
<1>5. Files(0..Jobs)' \subseteq Files(0..Jobs) /\ Files(0..Jobs) \subseteq Files(0..Jobs)' \cup Files(mine)
  BY <1>1 DEF Files, Owned
<1>6. Images(Live) = Images(Live \ mine) \cup Images(mine)
  BY <1>1 DEF Images
<1>7. Reads(c)' = Reads(c) /\ Keeps(c)' = Keeps(c) /\ Keeps(c) = {}
  <2>1. Reads(c)' = Reads(c) /\ Keeps(c)' = Keeps(c)
    BY <1>1, Same
  <2>. QED BY <1>1, <2>1 DEF Keeps, Writing
<1>8. ImageNames' \subseteq ImageNames \cup none /\ AssetNames' \subseteq AssetNames \cup none
  <2>1. \A d \in Request \ {c} : req'[d] = req[d]
    BY <1>1
  <2>2. req'[c].op # "clone"
    BY <1>1
  <2>. QED BY <1>4, <1>5, <1>6, <2>1, <2>2, NamesStep DEF ImageNames, AssetNames
<1>9. files \cap Named' = {}
  <2>1. ImageNames \cap AssetNames = {}
    BY DEF FileInv, KindInv
  <2>2. files \subseteq ImageNames /\ Files(0..Jobs)' \subseteq AssetNames
    BY <1>5, <1>6 DEF ImageNames, AssetNames
  <2>3. files \cap Images(Live)' = {}
    BY <1>4
  <2>. HIDE DEF files
  <2>. QED BY <2>1, <2>2, <2>3 DEF Named
<1>10. /\ InUse' \cap (disk \cup torn) \subseteq disk' \cup torn'
       /\ disk' = disk \ files /\ disk' \subseteq disk /\ disk \ disk' \subseteq files
  <2>1. \A d \in Request \ {c} : req'[d] = req[d]
    BY <1>1
  <2>2. req'[c].op # "clone" /\ Unlink(files)
    BY <1>1
  <2>. HIDE DEF files
  <2>. QED BY <1>9, <2>1, <2>2, UnlinkStep
<1>11. disk' \cap (Named \cup Keeps(c)) \subseteq Named' \cup leaked' \cup Keeps(c)'
  <2>1. \A p \in Images(Live) : p \in Images(Live)' \cup files
    BY <1>4, <1>6
  <2>2. \A p \in Files(0..Jobs) : p \in Files(0..Jobs)' \cup leaked'
    BY <1>1, <1>5
  <2>. HIDE DEF files
  <2>. QED BY <1>7, <1>10, <2>1, <2>2 DEF Named
<1>12. files \subseteq Named
  BY <1>6 DEF Named
<1>13. /\ none \in SUBSET Settled(c) /\ none = {} /\ made' = made /\ leaked \subseteq leaked'
       /\ Reads(c)' \subseteq Reads(c) \cup Named
       /\ disk \ disk' \subseteq Reads(c) \cup Named \cup Settled(c)
       /\ req'[c].op \in Writing => req[c].op \in Writing /\ req'[c].new = req[c].new
       /\ \A d \in Request \ {c} : req'[d] = req[d]
  BY <1>1, <1>7, <1>10, <1>12
<1>. HIDE DEF none, files
<1>. QED BY <1>8, <1>10, <1>11, <1>13, FileStep

LEMMA RestartFile ==
  ASSUME TypeInv, TypeInv', FileInv, Restart
  PROVE  FileInv'
<1>0. MadeInv /\ NewInv /\ KindInv /\ PresentInv /\ HeldInv
  BY DEF FileInv
<1>1. /\ row' = [j \in Job |-> [row[j] EXCEPT !.image = Restored(j)]]
      /\ req' = [c \in Request |-> Idle] /\ UNCHANGED <<assets, disk, made, torn>>
  BY DEF Restart
<1>2. \A j \in Job : row'[j].live = row[j].live /\ row'[j].image = Restored(j)
  BY <1>1 DEF TypeInv, TypeOK, Row
<1>3. /\ Images(Live)' \subseteq Images(Live)
      /\ \A p \in Images(Live) : p \in disk => p \in Images(Live)'
  BY <1>2 DEF Images, Live, Restored
<1>4. Files(0..Jobs)' = Files(0..Jobs)
  BY <1>1 DEF Files, Owned
<1>5. /\ Named' \subseteq Named /\ Named \cap disk \subseteq Named'
  BY <1>3, <1>4 DEF Named
<1>6. \A c \in Request : /\ req'[c].op = "none" /\ req'[c].op \notin Writing
                         /\ req'[c].new = 0 /\ Reads(c)' = {}
  BY <1>1 DEF Idle, Reads, Paths, Writing
<1>7. Copying' = {}
  BY <1>6 DEF Copying
<1>8. ImageNames' \subseteq ImageNames /\ AssetNames' \subseteq AssetNames
  BY <1>3, <1>4, <1>7 DEF ImageNames, AssetNames
<1>9. MadeInv'
  <2>1. disk' \cup Named' \subseteq 1..made'
    BY <1>0, <1>1, <1>5 DEF MadeInv
  <2>2. made' \in Nat
    BY LibraryAssumption DEF TypeInv, TypeOK
  <2>. QED BY <1>6, <2>1, <2>2 DEF MadeInv
<1>10. NewInv'
  BY <1>6 DEF NewInv
<1>11. KindInv' /\ PresentInv'
  BY <1>0, <1>1, <1>8 DEF KindInv, PresentInv, InUse
<1>12. HeldInv'
  <2>. DEFINE Lost(c) == ({req[c].new} \ {0})
                         \cup (IF req[c].op = "clean" THEN Reads(c) ELSE {})
  <2>1. leaked' = leaked \cup UNION {Lost(c) : c \in Request}
    BY DEF Restart
  <2>2. ASSUME NEW c \in Request PROVE Keeps(c) \subseteq Lost(c)
    BY RequestType DEF Keeps, Lawful, Writing
  <2>. HIDE DEF Lost
  <2>3. UNION {Keeps(c) : c \in Request} \subseteq leaked'
    BY <2>1, <2>2
  <2>. QED BY <1>0, <1>1, <1>5, <2>1, <2>3 DEF HeldInv
<1>. QED BY <1>9, <1>10, <1>11, <1>12 DEF FileInv

LEMMA NextFile ==
  ASSUME TypeInv, TypeInv', FileInv, [Next]_vars
  PROVE  FileInv'
<1>1. CASE Restart
  BY <1>1, RestartFile
<1>2. ASSUME NEW c \in Request, Handles(c) PROVE FileInv'
  <2>1. CASE Upload(c) \/ Import(c) \/ \E j \in Job : EditLoads(c, j)
    BY <2>1, SavesFile
  <2>2. CASE Refused(c) \/ EditFails(c)
    BY <2>2, RefusedFile
  <2>3. CASE ImportFile(c)
    BY <2>3, ImportFileFile
  <2>4. CASE \E j \in Job : CreateJob(c, j)
    BY <2>4, CreateJobFile
  <2>5. CASE EditUnlinks(c)
    BY <2>5, EditUnlinksFile
  <2>6. CASE EditCommits(c)
    BY <2>6, EditCommitsFile
  <2>7. CASE CleansUp(c)
    BY <2>7, CleansUpFile
  <2>8. CASE \E j \in Job : PlanCommits(c, j)
    BY <2>8, PlanCommitsFile
  <2>9. CASE \E j \in Job : CloneCommits(c, j)
    BY <2>9, CloneCommitsFile
  <2>10. CASE DeleteCommits(c)
    BY <2>10, DeleteCommitsFile
  <2>11. CASE \E mine \in SUBSET Job : DeleteToken(c, mine)
    BY <2>11, DeleteTokenFile
  <2>12. CASE ExpireCommits(c)
    BY <2>12, ExpireCommitsFile
  <2>13. CASE \/ PlanFails(c)
              \/ \E j \in Job : CloneLoads(c, j) \/ DeleteLoads(c, j)
              \/ \E j \in 0..Jobs : \E refs \in SUBSET Refs({0, j}) : PlanLoads(c, j, refs)
              \/ \E old \in SUBSET Refs({0}) : ExpireLoads(c, old)
    BY <2>13, LoadsFile
  <2>. QED BY <1>2, <2>1, <2>2, <2>3, <2>4, <2>5, <2>6, <2>7, <2>8, <2>9, <2>10, <2>11, <2>12,
              <2>13 DEF Handles
<1>3. CASE UNCHANGED vars
  <2>1. \A c \in Request : Reads(c)' = Reads(c) /\ Keeps(c)' = Keeps(c)
                           /\ Paths(req[c].refs)' = Paths(req[c].refs)
    BY <1>3, Same DEF vars
  <2>2. Named' = Named /\ ImageNames' = ImageNames /\ AssetNames' = AssetNames
    BY <1>3, <2>1 DEF vars, Named, Images, Live, Files, Owned, ImageNames, AssetNames, Copying
  <2>. QED BY <1>3, <2>1, <2>2 DEF vars, FileInv, MadeInv, NewInv, KindInv, PresentInv, HeldInv, InUse
<1>. QED BY <1>1, <1>2, <1>3 DEF Next

LEMMA InitFile ==
  ASSUME Init
  PROVE  FileInv
<1>1. \A c \in Request : req[c].op = "none" /\ req[c].new = 0 /\ Reads(c) = {} /\ Keeps(c) = {}
  BY DEF Init, Idle, Reads, Paths, Keeps, Writing
<1>2. Copying = {} /\ Live = {} /\ Images(Live) = {} /\ Files(0..Jobs) = {}
  BY <1>1 DEF Init, Copying, Live, Gone, Images, Files, Owned
<1>3. Named = {} /\ InUse = {} /\ ImageNames = {} /\ AssetNames = {}
  BY <1>2 DEF Named, InUse, ImageNames, AssetNames
<1>. QED BY <1>1, <1>3 DEF Init, FileInv, MadeInv, NewInv, KindInv, PresentInv, HeldInv, Writing

LEMMA FilesKept == Spec => [](TypeInv /\ FileInv)
<1>1. Init => TypeInv /\ FileInv
  BY InitType, InitFile
<1>2. TypeInv /\ FileInv /\ [Next]_vars => (TypeInv /\ FileInv)'
  BY NextType, NextFile
<1>. QED BY <1>1, <1>2, PTL DEF Spec

(* A file a row names is there, whatever edits, copies and deletions of    *)
(* the jobs that share it ran around it.                                   *)
THEOREM NeverDangling == Spec => []NoDangling
<1>1. TypeInv /\ FileInv => NoDangling
  BY NamedInUse DEF FileInv, PresentInv, NoDangling
<1>. QED BY <1>1, FilesKept, PTL

(* Once no request is under way, every file is named by a row, except what *)
(* a restart, a failed or overtaken edit or a deleted connection's series  *)
(* gave up.                                                                *)
THEOREM NothingLeftAlways == Spec => []NothingLeft
<1>1. TypeInv /\ FileInv => NothingLeft
  BY DEF FileInv, HeldInv, NothingLeft, Keeps, Writing
<1>. QED BY <1>1, FilesKept, PTL

(* A file a request has written and not yet named in a row is its own: no  *)
(* row names it, no other request has read its name, so that taking it     *)
(* away when the form is refused harms nobody.                             *)
THEOREM OwnFileAlways == Spec => []NewInv
<1>1. TypeInv /\ FileInv => NewInv
  BY DEF FileInv
<1>. QED BY <1>1, FilesKept, PTL
=============================================================================
