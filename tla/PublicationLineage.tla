-------------------------- MODULE PublicationLineage --------------------------
(***************************************************************************)
(* How publications are created: POST / (create_full), POST /{id}/clone    *)
(* (clone_publication) and stage 7 of the graphics pipeline                *)
(* (create_published), with the slugs and the version numbers they compute *)
(* from a read and the unique constraints that decide between rivals.      *)
(*                                                                         *)
(* The transactions are READ COMMITTED on PostgreSQL: a read sees what is  *)
(* committed, and an insert whose key another transaction has inserted     *)
(* waits until that one has ended.                                         *)
(***************************************************************************)
EXTENDS FiniteSets, FiniteSetsExt, Integers

CONSTANTS
    Makers,     \* requests and the runner of the jobs
    Runner,     \* the maker that runs the pipeline
    Nobody,     \* the owner of a committed row
    Ids,        \* ids of publications, in order; the first is there from the start
    Titles,     \* headlines that administrators give
    Products,   \* StatCan products
    NoProduct,
    MaxSuffix   \* the last suffix generate_slug tries (99)

ASSUME LineageConstants ==
    /\ IsFiniteSet(Makers) /\ Runner \in Makers /\ Nobody \notin Makers
    /\ Ids \subseteq Nat \ {0} /\ IsFiniteSet(Ids) /\ 1 \in Ids
    /\ Titles # {} /\ NoProduct \notin Products
    /\ MaxSuffix \in Nat \ {0}

VARIABLES
    rows,   \* the publications table, with the rows that are flushed and not committed
    maker   \* the local variables of a request or of the pipeline

lvars == <<rows, maker>>

Headlines == [title : Titles, copy : BOOLEAN]
Original(title) == [title |-> title, copy |-> FALSE]
\* Clones of a clone keep the prefix they have.
CopyOf(h) == [h EXCEPT !.copy = TRUE]

\* config_hash: the whole digest, the first 16 characters in a clone, or NULL.
Configs == {"full", "sliced", "null"}

NoRow == [owner |-> Nobody, head |-> Original(CHOOSE t \in Titles : TRUE), slug |-> 0,
          product |-> NoProduct, config |-> "null", version |-> 0, published |-> FALSE, keys |-> FALSE]

\* A slug is the headline with a number, 1 standing for none.
Slug(row) == <<row.head, row.slug>>

Stored == {p \in Ids : rows[p] # NoRow /\ rows[p].owner = Nobody}
Free == {p \in Ids : rows[p] = NoRow}

Idle == [pc |-> "idle", kind |-> "none", row |-> NoRow, attempt |-> 0, pub |-> 0, left |-> {}]
At(m, pc) == maker[m].pc = pc
Goes(m, pc, row) == maker' = [maker EXCEPT ![m] = [@ EXCEPT !.pc = pc, !.row = row]]
Busy == {m \in Makers : maker[m].pc \in {"version", "slugs", "insert"}}

\* A row for each maker that has none yet: the bound on calls.
Begins(m, kind, row, pc) ==
    /\ At(m, "idle")
    /\ Cardinality(Busy) < Cardinality(Free)
    /\ maker' = [maker EXCEPT ![m] = [Idle EXCEPT !.pc = pc, !.kind = kind, !.row = row]]
    /\ UNCHANGED rows

-----------------------------------------------------------------------------
(* What the three ways of creating a row read.                              *)

\* create_full, for any headline.  There is no config_hash: the source_product_id it may be
\* given takes part in no unique constraint, and is left out.
Create(m, title) ==
    /\ m # Runner
    /\ Begins(m, "create", [NoRow EXCEPT !.head = Original(title), !.version = 1], "slugs")

\* clone_publication: the source must be published.
Clone(m, p) ==
    /\ m # Runner
    /\ p \in Stored /\ rows[p].published
    /\ Begins(m, "clone", [NoRow EXCEPT !.head = CopyOf(rows[p].head), !.product = rows[p].product,
                                        !.config = "sliced"], "version")

\* Stage 6 of the pipeline begins with what the job names.
Generate(title, product) ==
    Begins(Runner, "pipeline", [NoRow EXCEPT !.head = Original(title), !.product = product,
                                             !.config = "full"], "version")

SameLineage(r, s) ==
    r.product # NoProduct /\ r.product = s.product /\ r.config # "null" /\ r.config = s.config /\ r.head = s.head
\* get_latest_version, or 0.
Latest(row) == Max({0} \cup {rows[p].version : p \in {q \in Stored : SameLineage(rows[q], row)}})

CountVersions(row) == Cardinality({p \in Stored : rows[p].product = row.product}) + 1
\* The version a new row of a lineage is to have.
NextVersion(row) == IF row.product = NoProduct THEN 1 ELSE Latest(row) + 1

ReadVersion(m) ==
    /\ At(m, "version")
    /\ Goes(m, "slugs", [maker[m].row EXCEPT !.version = NextVersion(maker[m].row)])
    /\ UNCHANGED rows

\* generate_slug over _get_existing_slugs: the first number that is not taken.
FreeSuffixes(h) == {n \in 1 .. MaxSuffix : \A p \in Stored : Slug(rows[p]) # <<h, n>>}

Refused(m) == maker' = [maker EXCEPT ![m] = [@ EXCEPT !.pc = "refused"]]

ReadSlugs(m) ==
    /\ At(m, "slugs")
    /\ LET free == FreeSuffixes(maker[m].row.head)
       IN IF free = {} THEN Refused(m)
          ELSE Goes(m, "insert", [maker[m].row EXCEPT !.slug = Min(free)])
    /\ UNCHANGED rows

-----------------------------------------------------------------------------
(* The insert, under uq_publications_slug and uq_publication_lineage_version. *)

Rivals(row) ==
    {p \in Ids \ Free : \/ Slug(rows[p]) = Slug(row)
                        \/ SameLineage(rows[p], row) /\ rows[p].version = row.version}

\* It waits for the rivals that are not committed.
MayInsert(m) ==
    /\ At(m, "insert")
    /\ \A p \in Rivals(maker[m].row) : rows[p].owner = Nobody

Insert(m) ==
    /\ MayInsert(m)
    /\ Rivals(maker[m].row) = {}
    /\ rows' = [rows EXCEPT ![Min(Free)] = [maker[m].row EXCEPT !.owner = m]]
    /\ maker' = [maker EXCEPT ![m] = [@ EXCEPT !.pc = "commit"]]

\* IntegrityError.  After its rollback create_published tries the next version under the
\* slug it has, up to three times.
NextAttempt(m) ==
    /\ MayInsert(m)
    /\ Rivals(maker[m].row) # {}
    /\ maker[m].kind = "pipeline" /\ maker[m].attempt < 2
    /\ maker' = [maker EXCEPT ![m] = [@ EXCEPT !.attempt = maker[m].attempt + 1,
                     !.row = [maker[m].row EXCEPT !.version = maker[m].row.version + 1]]]
    /\ UNCHANGED rows

\* The pipeline's last attempt; a creation by hand, which has one; and clone_publication,
\* which goes round its loop as well, but the rollback has expired `source`, which cannot
\* be read again without an await.
Collides(m) ==
    /\ MayInsert(m)
    /\ Rivals(maker[m].row) # {}
    /\ maker[m].kind = "pipeline" => maker[m].attempt = 2
    /\ Refused(m)
    /\ UNCHANGED rows

Mine(m) == {p \in Ids : rows[p].owner = m}
Committed(m) == [p \in Ids |-> IF p \in Mine(m) THEN [rows[p] EXCEPT !.owner = Nobody] ELSE rows[p]]
KeepsRow(m) == rows
\* The rollback of get_db, of the pipeline's session, or of the database.
RolledBack(m) == [p \in Ids |-> IF p \in Mine(m) THEN NoRow ELSE rows[p]]

Commit(m) ==
    /\ m # Runner
    /\ At(m, "commit")
    /\ rows' = Committed(m)
    /\ maker' = [maker EXCEPT ![m] = Idle]

\* Any statement, or the commit, fails.
Abort(m) ==
    /\ maker[m].pc \in {"version", "slugs", "insert", "commit"}
    /\ rows' = RolledBack(m)
    /\ maker' = [maker EXCEPT ![m] = Idle]

\* What was refused is answered with 500, or fails the job.
Answer(m) ==
    /\ At(m, "refused")
    /\ maker' = [maker EXCEPT ![m] = Idle]
    /\ UNCHANGED rows

\* POST /publish or a PATCH of the workflow; Publications has more of it.
PublishDraft(p) ==
    /\ p \in Stored
    /\ ~rows[p].published
    /\ rows' = [rows EXCEPT ![p] = [@ EXCEPT !.published = TRUE]]
    /\ UNCHANGED maker

-----------------------------------------------------------------------------
InsertStep(m) == Insert(m) \/ NextAttempt(m) \/ Collides(m)
CreationStep(m) == ReadVersion(m) \/ ReadSlugs(m) \/ InsertStep(m) \/ Commit(m) \/ Answer(m)

\* Versions of a lineage are numbered without gaps or repetitions, whoever races for them
\* (publication_repository.py:129).
VersionsContiguous ==
    \A p \in Stored :
        rows[p].product # NoProduct /\ rows[p].config # "null" =>
            LET family == {q \in Stored : SameLineage(rows[q], rows[p])}
            IN {rows[q].version : q \in family} = 1 .. Cardinality(family)

\* Slugs name one row (publication_repository.py:430), the rows in flight included.
SlugsUnique == \A p, q \in Ids \ Free : Slug(rows[p]) = Slug(rows[q]) => p = q

\* What is refused had a rival that has been committed: its slug, or each version tried.
RefusedByRival ==
    \A m \in Makers :
        At(m, "refused") =>
            \/ FreeSuffixes(maker[m].row.head) = {}
            \/ \E p \in Stored : \/ Slug(rows[p]) = Slug(maker[m].row)
                                 \/ SameLineage(rows[p], maker[m].row) /\ rows[p].version = maker[m].row.version
=============================================================================
