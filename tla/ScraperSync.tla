---------------------------- MODULE ScraperSync ----------------------------
(***************************************************************************)
(* The scraper's job sync (internal): a batch is stored in chunks, each a  *)
(* transaction of its own, and a batch that failed is sent again.          *)
(*                                                                         *)
(* A transaction is modelled at the statements where PostgreSQL's read     *)
(* committed level lets others in: the upsert of the source platform locks *)
(* its row until the commit, a company is looked up in one statement and   *)
(* updated or created in the next, and two transactions that wait for each *)
(* other's rows lose one of the two.                                       *)
(***************************************************************************)
EXTENDS Naturals, Sequences, FiniteSets

CONSTANTS Batches,     \* sequences of jobs the scraper sends
          Names,       \* spellings of platforms, companies and skills
          Slugs,
          Slug,        \* [Names -> Slugs], what normalizeSlug makes of them
          Externals,   \* external job ids
          SourceRuns,
          Syncs,       \* slots of concurrently running syncs
          ChunkSize,   \* INTERNAL_SYNC_TRANSACTION_CHUNK_SIZE
          MaxBatches,  \* bound on the batches sent
          MaxFaults,
          None

ASSUME SyncConstants ==
    /\ Slug \in [Names -> Slugs]
    /\ ChunkSize \in Nat \ {0}
    /\ MaxBatches \in Nat /\ MaxFaults \in Nat
    /\ \A b \in Batches : Len(b) \in Nat \ {0} /\ DOMAIN b = 1..Len(b)
    /\ \A b \in Batches : \A i \in DOMAIN b :
          /\ b[i].platform \in Names /\ b[i].company \in Names
          /\ b[i].skills \subseteq Names
          /\ b[i].external \in Externals
          /\ b[i].run \in SourceRuns \cup {None}

VARIABLES catalog,    \* slugs of the skill table
          companies,  \* [Slugs -> [Slugs -> Nat]]: rows by slug and creating platform
          runs,       \* ingestion runs: [RunIds -> Nat \cup {None}], their counts
          listings,   \* [Keys -> Row \cup {None}]
          sync,       \* [Syncs -> Sync]
          crowded,    \* another sync was in flight together with those there are
          settled,    \* the last batch that ran alone and ended, until the next
          sent, faults

syncVars == <<catalog, companies, runs, listings, sync, crowded, settled, sent, faults>>

normalizeSlug(name) == Slug[name]

(* job_listings_source_external_id_unique, and ingestionRunId.             *)
Keys == Slugs \X Externals
RunIds == SourceRuns \X Slugs
KeyOf(job) == <<normalizeSlug(job.platform), job.external>>
ingestionRunId(job) ==
    IF job.run = None THEN None ELSE <<job.run, normalizeSlug(job.platform)>>
SkillsOf(job) == {normalizeSlug(n) : n \in job.skills}

CompanyRows == {<<s, p, n>> : s \in Slugs, p \in Slugs, n \in 1..MaxBatches}
ASSUME NoneIsNoCompany == None \notin CompanyRows

(* The jobs of the chunk that begins at i. *)
LastOf(batch, i) == IF i + ChunkSize > Len(batch) THEN Len(batch) ELSE i + ChunkSize - 1
(* Regression: the skills of a chunk are those of its first job. *)
SkillsOfFirst(batch, i) == SkillsOf(batch[i])

collectUniqueBatchSkills(batch, i) ==
    UNION {SkillsOf(batch[j]) : j \in i..LastOf(batch, i)}

(* Regression: the counts of a run are those of a chunk. *)
CountByChunk(batch, id) ==
    Cardinality({i \in 1..LastOf(batch, 1) : ingestionRunId(batch[i]) = id})

countJobsByIngestionRun(batch, id) ==
    Cardinality({i \in DOMAIN batch : ingestionRunId(batch[i]) = id})

(* What a transaction has written and locked, and not yet committed. *)
NoTx == [skills |-> {}, platforms |-> {}, locked |-> {}, created |-> {},
         runs |-> << >>, rows |-> << >>]
NoSync == [at |-> "idle", batch |-> << >>, next |-> 1, last |-> 0,
           company |-> None, tx |-> NoTx]

SyncInit ==
    /\ catalog = {}
    /\ companies = [s \in Slugs |-> [p \in Slugs |-> 0]]
    /\ runs = [r \in RunIds |-> None]
    /\ listings = [k \in Keys |-> None]
    /\ sync = [s \in Syncs |-> NoSync]
    /\ crowded = FALSE
    /\ settled = << >>
    /\ sent = 0
    /\ faults = 0

Syncing == {s \in Syncs : sync[s].at # "idle"}
Others(s) == Syncing \ {s}
Job(s) == sync[s].batch[sync[s].next]
PlatformOf(s) == normalizeSlug(Job(s).platform)

----------------------------------------------------------------------------
(* syncScraperJobs: the counts are taken over the whole batch, then chunk  *)
(* after chunk is stored.                                                  *)
SyncScraperJobs(s, batch) ==
    /\ sync[s].at = "idle"
    /\ sent < MaxBatches
    /\ sent' = sent + 1
    /\ sync' = [sync EXCEPT ![s] = [NoSync EXCEPT !.at = "chunk", !.batch = batch]]
    /\ crowded' = (Syncing # {})
    /\ settled' = << >>
    /\ UNCHANGED <<catalog, companies, runs, listings, faults>>

(* ensureSkillMap: the skills of the chunk that are not there are created; *)
(* the statement waits for a transaction that is creating one of them.     *)
EnsureSkillMap(s) ==
    LET wanted == collectUniqueBatchSkills(sync[s].batch, sync[s].next) IN
    /\ sync[s].at = "chunk"
    /\ \A t \in Others(s) : wanted \cap sync[t].tx.skills = {}
    /\ sync' = [sync EXCEPT ![s] =
          [@ EXCEPT !.at = "platform", !.last = LastOf(sync[s].batch, sync[s].next),
                    !.tx = [NoTx EXCEPT !.skills = wanted \ catalog]]]
    /\ UNCHANGED <<catalog, companies, runs, listings, crowded, settled, sent, faults>>

(* Regression: the platform is read, not upserted: no row lock. *)
ReadPlatform(s) ==
    /\ sync[s].at = "platform"
    /\ sync' = [sync EXCEPT ![s] = [@ EXCEPT !.at = "company"]]
    /\ UNCHANGED <<catalog, companies, runs, listings, crowded, settled, sent, faults>>
(* Upserting the platform writes its row: the transaction holds it from    *)
(* here on, and a second one waits.                                        *)
UpsertPlatform(s) ==
    /\ sync[s].at = "platform"
    /\ \A t \in Others(s) : PlatformOf(s) \notin sync[t].tx.platforms
    /\ sync' = [sync EXCEPT ![s] =
          [@ EXCEPT !.at = "company",
                    !.tx = [sync[s].tx EXCEPT !.platforms = @ \cup {PlatformOf(s)}]]]
    /\ UNCHANGED <<catalog, companies, runs, listings, crowded, settled, sent, faults>>

(* Rows of a slug this transaction sees: the committed ones and its own.   *)
VisibleCompanies(s, slug) ==
    {c \in CompanyRows : c[1] = slug /\ c[3] <= companies[slug][c[2]]}
       \cup {c \in sync[s].tx.created : c[1] = slug}

(* upsertCompany looks the slug up, any row of it ... *)
FindCompany(s) ==
    LET found == VisibleCompanies(s, normalizeSlug(Job(s).company)) IN
    /\ sync[s].at = "company"
    /\ \E c \in IF found = {} THEN {None} ELSE found :
          sync' = [sync EXCEPT ![s] = [@ EXCEPT !.at = "write", !.company = c]]
    /\ UNCHANGED <<catalog, companies, runs, listings, crowded, settled, sent, faults>>

(* ... and updates it, or creates one.  A creation is numbered after those *)
(* of its platform, whose row the transaction holds.                       *)
CompanyFree(s) ==
    \A t \in Others(s) : sync[s].company \notin sync[t].tx.locked

NewCompany(s) ==
    LET slug == normalizeSlug(Job(s).company)
        p == PlatformOf(s)
        mine == {c \in sync[s].tx.created : c[1] = slug /\ c[2] = p}
    IN <<slug, p, companies[slug][p] + Cardinality(mine) + 1>>

(* jobListingPrismaData, with the requirements and skills that replace     *)
(* those the listing had.                                                  *)
Listing(job, company) ==
    [company |-> company, run |-> ingestionRunId(job), data |-> job.data,
     skills |-> SkillsOf(job)]

ASSUME NoneIsNoRow ==
    /\ None \notin Nat
    /\ \A b \in Batches : \A i \in DOMAIN b :
          \A c \in CompanyRows : Listing(b[i], c) # None

With(f, k, v) == [x \in DOMAIN f \cup {k} |-> IF x = k THEN v ELSE f[x]]

(* The rest of syncOneJob: the company, the run of the job with the count  *)
(* of the whole batch, the listing of the key.                             *)
WriteJob(s) ==
    LET job == Job(s)
        new == sync[s].company = None
        company == IF new THEN NewCompany(s) ELSE sync[s].company
        id == ingestionRunId(job)
        tx == sync[s].tx
    IN
    /\ sync[s].at = "write"
    /\ CompanyFree(s)
    /\ sync' = [sync EXCEPT ![s] =
          [@ EXCEPT !.at = IF sync[s].next = sync[s].last THEN "commit" ELSE "platform",
                    !.next = sync[s].next + 1,
                    !.company = None,
                    !.tx = [tx EXCEPT
                       !.created = IF new THEN @ \cup {company} ELSE @,
                       !.locked = IF new THEN @ ELSE @ \cup {company},
                       !.runs = IF id = None THEN @
                                ELSE With(@, id, countJobsByIngestionRun(sync[s].batch, id)),
                       !.rows = With(@, KeyOf(job), Listing(job, company))]]]
    /\ UNCHANGED <<catalog, companies, runs, listings, crowded, settled, sent, faults>>

Over(f, g) == [x \in DOMAIN f |-> IF x \in DOMAIN g THEN g[x] ELSE f[x]]

CommitChunk(s) ==
    LET tx == sync[s].tx
        done == sync[s].next > Len(sync[s].batch)
    IN
    /\ sync[s].at = "commit"
    /\ catalog' = catalog \cup tx.skills
    /\ companies' = [g \in Slugs |-> [p \in Slugs |->
          companies[g][p] + Cardinality({c \in tx.created : c[1] = g /\ c[2] = p})]]
    /\ runs' = Over(runs, tx.runs)
    /\ listings' = Over(listings, tx.rows)
    /\ sync' = [sync EXCEPT ![s] =
          IF done THEN NoSync ELSE [@ EXCEPT !.at = "chunk", !.tx = NoTx]]
    /\ settled' = IF done /\ ~crowded THEN sync[s].batch ELSE << >>
    /\ UNCHANGED <<crowded, sent, faults>>

----------------------------------------------------------------------------
(* Whom a transaction waits for. *)
WaitsFor(s, t) ==
    /\ t \in Others(s)
    /\ \/ /\ sync[s].at = "platform"
          /\ PlatformOf(s) \in sync[t].tx.platforms
       \/ /\ sync[s].at = "write"
          /\ sync[s].company \in sync[t].tx.locked

Rollback(s) ==
    /\ sync' = [sync EXCEPT ![s] = NoSync]
    /\ UNCHANGED <<catalog, companies, runs, listings, crowded, settled, sent>>

(* PostgreSQL ends one of two transactions that wait for each other.       *)
Deadlock(s) ==
    /\ \E t \in Syncing : WaitsFor(s, t) /\ WaitsFor(t, s)
    /\ Rollback(s)
    /\ UNCHANGED faults

(* A statement fails, the 30 seconds run out, or the process dies: the     *)
(* chunk is rolled back, those before it stay.                             *)
Interrupt(s) ==
    /\ s \in Syncing
    /\ faults < MaxFaults
    /\ faults' = faults + 1
    /\ Rollback(s)

SyncNext ==
    \E s \in Syncs :
       \/ \E b \in Batches : SyncScraperJobs(s, b)
       \/ EnsureSkillMap(s) \/ UpsertPlatform(s) \/ FindCompany(s)
       \/ WriteJob(s) \/ CommitChunk(s) \/ Deadlock(s) \/ Interrupt(s)

SyncSpec == SyncInit /\ [][SyncNext]_syncVars

----------------------------------------------------------------------------
(* Properties. *)

(* Every variable keeps its shape; a listing refers to rows that exist.    *)
SyncTypeOK ==
    /\ catalog \subseteq Slugs
    /\ \A k \in Keys : listings[k] # None =>
          /\ listings[k].skills \subseteq catalog
          /\ listings[k].run # None => runs[listings[k].run] # None
          /\ LET c == listings[k].company IN c[3] <= companies[c[1]][c[2]]
    /\ \A s \in Syncs :
          /\ sync[s].at \in {"idle", "chunk", "platform", "company", "write", "commit"}
          /\ sync[s].next \in 1..(Len(sync[s].batch) + 1)
          /\ sync[s].company \in CompanyRows \cup {None}
    /\ sent \in 0..MaxBatches
    /\ faults \in 0..MaxFaults

(* Companies are found and created in two statements and no key guards     *)
(* their slug; still no platform brings a company in twice, because the    *)
(* lock on its row keeps its transactions apart.                           *)
OneCompanyPerPlatform ==
    \A g, p \in Slugs : companies[g][p] <= 1

(* A batch that ran alone and ended leaves for each of its keys the last   *)
(* of its jobs, whole, and the run with the number of its jobs, whatever   *)
(* batches were interrupted before it.                                     *)
SequentialSync ==
    \A i \in DOMAIN settled :
       LET job == settled[i]
           row == listings[KeyOf(job)]
           id == ingestionRunId(job)
       IN
       /\ (\A j \in DOMAIN settled : KeyOf(settled[j]) = KeyOf(job) => j <= i) =>
             /\ row # None
             /\ row.data = job.data
             /\ row.skills = SkillsOf(job)
             /\ row.company[1] = normalizeSlug(job.company)
             /\ row.run = id
       /\ id # None => runs[id] = Cardinality({j \in DOMAIN settled :
                                                 ingestionRunId(settled[j]) = id})

============================================================================
