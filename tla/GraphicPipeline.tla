---------------------------- MODULE GraphicPipeline ----------------------------
(***************************************************************************)
(* GraphicPipeline.generate from stage 6 on: the draft row, the three      *)
(* objects in storage, the publication, and the clean-up when a stage      *)
(* fails, beside the requests that create, clone and publish.  Rendering   *)
(* leaves nothing behind; the input is in JobHandlers.                     *)
(***************************************************************************)
EXTENDS PublicationLineage

CONSTANTS
    LineageKeyed  \* whether stage 7 passes the lineage_key

ASSUME PipelineConstants == LineageKeyed \in BOOLEAN

VARIABLES
    files   \* publication |-> the objects stored under publications/<id>/

pvars == <<lvars, files>>

Parts == {"lowres", "highres", "zip"}

PublishEarly == [lowres |-> "publish", publish |-> "highres", highres |-> "zip", zip |-> "audit"]
\* Stages 10 to 12.
StageAfter == [lowres |-> "highres", highres |-> "zip", zip |-> "publish", publish |-> "audit"]

pub == maker[Runner].pub
Goto(pc) == maker' = [maker EXCEPT ![Runner] = [@ EXCEPT !.pc = pc]]
\* The exception is raised: the job fails, and may be run again.
Gives == maker' = [maker EXCEPT ![Runner] = Idle]
Files(p, parts) == files' = [files EXCEPT ![p] = parts]

\* Stage 7.  As it stands the call leaves out the required lineage_key and raises before
\* any statement; LineageKeyed = FALSE blocks the commit only, and the rows are the same.
DraftCommits ==
    /\ At(Runner, "commit")
    /\ LineageKeyed
    /\ rows' = Committed(Runner)
    /\ maker' = [maker EXCEPT ![Runner] = [Idle EXCEPT !.pc = "lowres", !.kind = "pipeline",
                                                       !.pub = CHOOSE p \in Mine(Runner) : TRUE]]
    /\ UNCHANGED files

\* Stage 10.  An upload that raises may have taken place; when it is not the first, the
\* low resolution image is deleted.
Upload(part) ==
    /\ At(Runner, part)
    /\ \/ Files(pub, files[pub] \cup {part}) /\ Goto(StageAfter[part])
       \/ /\ Files(pub, files[pub] \cup {part}) \/ UNCHANGED files
          /\ IF part = "lowres" THEN Gives
             ELSE maker' = [maker EXCEPT ![Runner] = [@ EXCEPT !.pc = "undo", !.left = {"lowres"}]]
    /\ UNCHANGED rows

\* update_s3_keys_and_publish.
Published(p) == [rows EXCEPT ![p] = [@ EXCEPT !.published = TRUE, !.keys = TRUE]]

\* Stage 11 sets the keys and the status; when it fails, the objects are deleted.
PublishKeys ==
    /\ At(Runner, "publish")
    /\ \/ /\ rows' = Published(pub)
          /\ Goto(StageAfter["publish"])
       \/ /\ UNCHANGED rows
          /\ maker' = [maker EXCEPT ![Runner] = [@ EXCEPT !.pc = "undo", !.left = Parts]]
    /\ UNCHANGED files

\* One object, which may fail to go; the exception that began it is raised in the end.
Undo(part) ==
    /\ At(Runner, "undo")
    /\ part \in maker[Runner].left
    /\ Files(pub, files[pub] \ {part}) \/ UNCHANGED files
    /\ IF maker[Runner].left = {part} THEN Gives
       ELSE maker' = [maker EXCEPT ![Runner] = [@ EXCEPT !.left = maker[Runner].left \ {part}]]
    /\ UNCHANGED rows

\* Stages 12 and 13; an audit that fails fails the job of a graphic that is out.
Audit ==
    /\ At(Runner, "audit")
    /\ Gives
    /\ UNCHANGED <<rows, files>>

-----------------------------------------------------------------------------
\* The process exits: its transactions are rolled back.
Exit ==
    /\ \E m \in Makers : ~At(m, "idle")
    /\ rows' = [p \in Ids |-> IF rows[p].owner = Nobody THEN rows[p] ELSE NoRow]
    /\ maker' = [m \in Makers |-> Idle]
    /\ UNCHANGED files

\* One graphic is out already.
PipelineInit ==
    /\ \E title \in Titles, product \in Products \cup {NoProduct} :
          rows = [p \in Ids |-> IF p = 1 THEN [NoRow EXCEPT !.head = Original(title), !.slug = 1, !.product = product,
                                                            !.config = "full", !.version = 1,
                                                            !.published = TRUE, !.keys = TRUE]
                                         ELSE NoRow]
    /\ maker = [m \in Makers |-> Idle]
    /\ files = [p \in Ids |-> IF p = 1 THEN Parts ELSE {}]

Starts(m) ==
    \/ \E title \in Titles : Create(m, title)
    \/ \E title \in Titles, product \in Products \cup {NoProduct} : m = Runner /\ Generate(title, product)
    \/ \E p \in Ids : Clone(m, p)

StorageStep == (\E part \in Parts : Upload(part) \/ Undo(part)) \/ PublishKeys \/ Audit \/ DraftCommits

PipelineNext ==
    \/ \E m \in Makers : (Starts(m) \/ CreationStep(m) \/ Abort(m)) /\ UNCHANGED files
    \/ StorageStep
    \/ \E p \in Ids : PublishDraft(p) /\ UNCHANGED files
    \/ Exit

PipelineSpec == PipelineInit /\ [][PipelineNext]_pvars

\* A request is carried on and its calls return.  An insert that waits is woken when its
\* rival ends, and is not passed over by new ones for ever.
FairPipelineSpec ==
    /\ PipelineSpec
    /\ \A m \in Makers : WF_pvars(CreationStep(m) /\ UNCHANGED files)
    /\ \A m \in Makers : SF_pvars(InsertStep(m) /\ UNCHANGED files)
    /\ WF_pvars(StorageStep)

-----------------------------------------------------------------------------
RowType ==
    [owner : Makers \cup {Nobody}, head : Headlines, slug : 0 .. MaxSuffix, product : Products \cup {NoProduct},
     config : Configs, version : 0 .. Cardinality(Ids) + 3, published : BOOLEAN, keys : BOOLEAN]

PipelineTypeOK ==
    /\ rows \in [Ids -> RowType]
    /\ maker \in [Makers -> [pc : {"idle", "version", "slugs", "insert", "commit", "refused", "lowres", "highres",
                                   "zip", "publish", "undo", "audit"},
                             kind : {"none", "create", "clone", "pipeline"}, row : RowType, attempt : 0 .. 2,
                             pub : Ids \cup {0}, left : SUBSET Parts]]
    /\ files \in [Ids -> SUBSET Parts]

\* A row that names its files has them all, whatever failed and was cleaned up, for this
\* graphic or for another (pipeline.py:333).
FilesBehindKeys == \A p \in Ids : rows[p].keys => files[p] = Parts

LineageInv == PipelineTypeOK /\ VersionsContiguous /\ SlugsUnique /\ RefusedByRival /\ FilesBehindKeys

\* Everyone who creates a publication ends, those included who wait for the slug or the
\* version of another one's insert.
CreationsEnd == \A m \in Makers : ~At(m, "idle") ~> At(m, "idle")
=============================================================================
