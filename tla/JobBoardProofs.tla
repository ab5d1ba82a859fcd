--------------------------- MODULE JobBoardProofs ---------------------------
(***************************************************************************)
(* TLAPS proofs about the scraper's sync, alone (ScraperSync) and beside   *)
(* the users' lists (JobBoard), for any batches, chunk size, number of     *)
(* syncs and number of failures.                                           *)
(***************************************************************************)
EXTENDS JobBoard, FiniteSetTheorems, TLAPS

---------------------------------------------------------------------------
(* The inductive invariant *)

(* A sync is a record, whatever its batch and its rows are.                *)
Shaped(q) ==
    /\ q = [at |-> q.at, batch |-> q.batch, next |-> q.next, last |-> q.last,
            company |-> q.company, tx |-> q.tx]
    /\ q.tx = [skills |-> q.tx.skills, platforms |-> q.tx.platforms,
               locked |-> q.tx.locked, created |-> q.tx.created,
               runs |-> q.tx.runs, rows |-> q.tx.rows]

SyncsShaped ==
    /\ sync = [s \in Syncs |-> sync[s]]
    /\ \A s \in Syncs : Shaped(sync[s])
    /\ companies \in [Slugs -> [Slugs -> {0, 1}]]
    /\ sent \in 0..MaxBatches

(* Where a sync is in its batch. *)
Placed(q) ==
    /\ q.at \in {"idle", "chunk", "platform", "company", "write", "commit"}
    /\ q.at = "idle" => q.tx.platforms = {}
    /\ q.at # "idle" => q.batch \in Batches /\ sent # 0
    /\ q.at = "chunk" => q.next \in 1..Len(q.batch)
    /\ q.at \in {"platform", "company", "write"} =>
          q.last \in 1..Len(q.batch) /\ q.next \in 1..q.last
    /\ q.at = "commit" => q.last \in 1..Len(q.batch) /\ q.next = q.last + 1

(* The platform of the job at work is locked by its transaction, and no    *)
(* two transactions hold one platform.                                     *)
PlatformHeld(s) ==
    /\ sync[s].tx.platforms \subseteq Slugs
    /\ sync[s].at \in {"company", "write"} => PlatformOf(s) \in sync[s].tx.platforms
PlatformsApart ==
    \A s, t \in Syncs : s # t => sync[s].tx.platforms \cap sync[t].tx.platforms = {}

(* What a transaction created is the first of its slug and platform, and   *)
(* the platform is held; so it is the first when the chunk commits.        *)
CreatedFirst(s) ==
    \A c \in sync[s].tx.created :
       \E g \in Slugs, p \in sync[s].tx.platforms :
          c = <<g, p, 1>> /\ companies[g][p] = 0

(* A company that was not found stays absent on the held platform.         *)
AbsentStays(s) ==
    sync[s].at = "write" /\ sync[s].company = None =>
       LET g == normalizeSlug(Job(s).company) IN
       /\ companies[g][PlatformOf(s)] = 0
       /\ \A c \in sync[s].tx.created : ~(c[1] = g /\ c[2] = PlatformOf(s))

SyncInv ==
    /\ SyncsShaped
    /\ PlatformsApart
    /\ \A s \in Syncs : Placed(sync[s]) /\ PlatformHeld(s) /\ CreatedFirst(s) /\ AbsentStays(s)

---------------------------------------------------------------------------
(* Lemmas *)

LEMMA SyncInvInit == SyncInit => SyncInv
<1> SUFFICES ASSUME SyncInit PROVE SyncInv
  OBVIOUS
<1>1. \A s \in Syncs : sync[s] = NoSync
  BY DEF SyncInit
<1>2. SyncsShaped
  <2>1. companies \in [Slugs -> [Slugs -> {0, 1}]]
    BY DEF SyncInit
  <2>2. sent \in 0..MaxBatches
    BY SyncConstants DEF SyncInit
  <2>3. Shaped(NoSync)
    BY DEF Shaped, NoSync, NoTx
  <2> QED
    BY <1>1, <2>1, <2>2, <2>3 DEF SyncsShaped, SyncInit
<1>3. PlatformsApart
  BY <1>1 DEF PlatformsApart, NoSync, NoTx
<1> QED
  BY <1>1, <1>2, <1>3 DEF SyncInv, Placed, PlatformHeld, CreatedFirst, AbsentStays, NoSync, NoTx

(* The job at work is one of the batch. *)
LEMMA JobAtWork ==
  ASSUME SyncInv, NEW s \in Syncs, sync[s].at \in {"platform", "company", "write"}
  PROVE  PlatformOf(s) \in Slugs /\ normalizeSlug(Job(s).company) \in Slugs
<1>1. sync[s].batch \in Batches /\ sync[s].next \in 1..Len(sync[s].batch)
  BY SyncConstants DEF SyncInv, Placed
<1>2. Job(s).platform \in Names /\ Job(s).company \in Names
  BY <1>1, SyncConstants DEF Job
<1> QED
  BY <1>2, SyncConstants DEF PlatformOf, normalizeSlug

(* The rows of one slug and platform a transaction created: none or one.   *)
LEMMA CreatedCount ==
  ASSUME SyncInv, NEW s \in Syncs, NEW g \in Slugs, NEW p \in Slugs
  PROVE  LET mine == {c \in sync[s].tx.created : c[1] = g /\ c[2] = p} IN
         \/ mine = {} /\ Cardinality(mine) = 0
         \/ /\ Cardinality(mine) = 1
            /\ companies[g][p] = 0 /\ p \in sync[s].tx.platforms
<1> DEFINE mine == {c \in sync[s].tx.created : c[1] = g /\ c[2] = p}
<1>1. CASE mine = {}
  BY <1>1, FS_EmptySet
<1>2. CASE mine # {}
  <2>1. \A c \in mine : c = <<g, p, 1>> /\ companies[g][p] = 0 /\ p \in sync[s].tx.platforms
    <3> SUFFICES ASSUME NEW c \in mine
                 PROVE  c = <<g, p, 1>> /\ companies[g][p] = 0 /\ p \in sync[s].tx.platforms
      OBVIOUS
    <3>1. PICK h \in Slugs, q \in sync[s].tx.platforms :
             c = <<h, q, 1>> /\ companies[h][q] = 0
      BY DEF SyncInv, CreatedFirst
    <3> QED
      BY <3>1
  <2>2. mine = {<<g, p, 1>>}
    BY <1>2, <2>1
  <2>3. Cardinality(mine) = 1
    BY <2>2, FS_Singleton
  <2> QED
    BY <1>2, <2>1, <2>3
<1> QED
  BY <1>1, <1>2

(* A step of one sync that commits nothing preserves the invariant if it   *)
(* preserves its own part.                                                 *)
LEMMA OwnStep ==
  ASSUME SyncInv, NEW s \in Syncs, NEW q, sync' = [sync EXCEPT ![s] = q], Shaped(q),
         UNCHANGED companies, sent' \in {sent, sent + 1}, sent' \in 0..MaxBatches,
         Placed(q)', PlatformHeld(s)', CreatedFirst(s)', AbsentStays(s)',
         \A t \in Syncs \ {s} : q.tx.platforms \cap sync[t].tx.platforms = {}
  PROVE  SyncInv'
<1>1. /\ sync' = [t \in Syncs |-> sync'[t]]
      /\ sync'[s] = q
      /\ \A t \in Syncs \ {s} : sync'[t] = sync[t]
  BY DEF SyncInv, SyncsShaped
<1>2. SyncsShaped'
  BY <1>1 DEF SyncInv, SyncsShaped
<1>3. PlatformsApart'
  BY <1>1 DEF SyncInv, PlatformsApart
<1>4. sent # 0 => sent' # 0
  BY DEF SyncInv, SyncsShaped
<1>5. ASSUME NEW t \in Syncs \ {s}
      PROVE  /\ Placed(sync[t])' /\ PlatformHeld(t)'
             /\ CreatedFirst(t)' /\ AbsentStays(t)'
  BY <1>1, <1>4, <1>5 DEF SyncInv, Placed, PlatformHeld, CreatedFirst, AbsentStays,
     PlatformOf, Job
<1>6. Placed(sync[s])'
  BY <1>1
<1> QED
  BY <1>2, <1>3, <1>5, <1>6 DEF SyncInv

(* A sync that is given up, or has not locked anything yet.                *)
LEMMA EmptyStep ==
  ASSUME SyncInv, NEW s \in Syncs, NEW q, sync' = [sync EXCEPT ![s] = q], Shaped(q),
         UNCHANGED companies, sent' \in {sent, sent + 1}, sent' \in 0..MaxBatches,
         Placed(q)', q.at \in {"idle", "chunk", "platform"},
         q.tx.platforms = {}, q.tx.created = {}
  PROVE  SyncInv'
<1>1. sync'[s] = q
  BY DEF SyncInv, SyncsShaped
<1> QED
  BY <1>1, OwnStep DEF PlatformHeld, CreatedFirst, AbsentStays

LEMMA SyncStep == SyncInv /\ [SyncNext]_syncVars => SyncInv'
<1> SUFFICES ASSUME SyncInv, [SyncNext]_syncVars PROVE SyncInv'
  OBVIOUS
<1>1. /\ \A s \in Syncs : Shaped(sync[s]) /\ Placed(sync[s])
      /\ sent \in 0..MaxBatches /\ MaxBatches \in Nat
  BY SyncConstants DEF SyncInv, SyncsShaped
<1>2. ASSUME NEW s \in Syncs, NEW b \in Batches, SyncScraperJobs(s, b) PROVE SyncInv'
  <2>1. PICK q : q = [NoSync EXCEPT !.at = "chunk", !.batch = b]
    OBVIOUS
  <2>2. /\ q.at = "chunk" /\ q.next = 1 /\ q.batch = b
        /\ q.tx.platforms = {} /\ q.tx.created = {} /\ Shaped(q)
    BY <2>1 DEF Shaped, NoSync, NoTx
  <2>3. 1 \in 1..Len(b)
    BY SyncConstants
  <2>4. sent' = sent + 1 /\ sent' \in 0..MaxBatches /\ sent' # 0
    BY <1>1, <1>2 DEF SyncScraperJobs
  <2>5. sync' = [sync EXCEPT ![s] = q] /\ UNCHANGED companies
    BY <1>2, <2>1 DEF SyncScraperJobs
  <2>6. Placed(q)'
    BY <2>2, <2>3, <2>4 DEF Placed
  <2> QED
    BY <2>2, <2>4, <2>5, <2>6, EmptyStep
<1>3. ASSUME NEW s \in Syncs, EnsureSkillMap(s) PROVE SyncInv'
  <2>1. PICK q : q = [sync[s] EXCEPT !.at = "platform",
                !.last = LastOf(sync[s].batch, sync[s].next),
                !.tx = [NoTx EXCEPT !.skills =
                   collectUniqueBatchSkills(sync[s].batch, sync[s].next) \ catalog]]
    OBVIOUS
  <2>2. Shaped(sync[s])
    BY <1>1
  <2>3. /\ q.at = "platform" /\ q.batch = sync[s].batch /\ q.next = sync[s].next
        /\ q.last = LastOf(sync[s].batch, sync[s].next)
        /\ q.tx.platforms = {} /\ q.tx.created = {} /\ Shaped(q)
    BY <2>1, <2>2 DEF Shaped, NoTx
  <2>4. /\ sync[s].batch \in Batches /\ sent # 0
        /\ sync[s].next \in 1..Len(sync[s].batch)
    BY <1>1, <1>3 DEF EnsureSkillMap, Placed
  <2>5. LET last == LastOf(sync[s].batch, sync[s].next) IN
        last \in 1..Len(sync[s].batch) /\ sync[s].next \in 1..last
    BY <2>4, SyncConstants DEF LastOf
  <2>6. sync' = [sync EXCEPT ![s] = q] /\ UNCHANGED <<companies, sent>>
    BY <1>3, <2>1 DEF EnsureSkillMap
  <2>7. Placed(q)'
    BY <2>3, <2>4, <2>5, <2>6 DEF Placed
  <2> QED
    BY <1>1, <2>3, <2>6, <2>7, EmptyStep
<1>4. ASSUME NEW s \in Syncs, UpsertPlatform(s) PROVE SyncInv'
  <2>1. PICK q : q = [sync[s] EXCEPT !.at = "company",
                         !.tx = [sync[s].tx EXCEPT !.platforms = @ \cup {PlatformOf(s)}]]
    OBVIOUS
  <2>2. Shaped(sync[s]) /\ Placed(sync[s])
    BY <1>1
  <2>3. /\ q.at = "company" /\ q.batch = sync[s].batch /\ q.next = sync[s].next
        /\ q.last = sync[s].last /\ q.tx.created = sync[s].tx.created
        /\ q.tx.platforms = sync[s].tx.platforms \cup {PlatformOf(s)} /\ Shaped(q)
    BY <2>1, <2>2 DEF Shaped
  <2>4. /\ sync' = [sync EXCEPT ![s] = q] /\ UNCHANGED <<companies, sent>>
        /\ sync[s].at = "platform"
        /\ \A t \in Others(s) : PlatformOf(s) \notin sync[t].tx.platforms
    BY <1>4, <2>1 DEF UpsertPlatform
  <2>5. sync'[s] = q
    BY <2>4 DEF SyncInv, SyncsShaped
  <2>6. Placed(q)'
    BY <2>2, <2>3, <2>4 DEF Placed
  <2>7. PlatformHeld(s)'
    BY <2>3, <2>4, <2>5, JobAtWork DEF SyncInv, PlatformHeld, PlatformOf, Job
  <2>8. CreatedFirst(s)' /\ AbsentStays(s)'
    BY <2>3, <2>4, <2>5 DEF SyncInv, CreatedFirst, AbsentStays
  <2>9. \A t \in Syncs \ {s} : q.tx.platforms \cap sync[t].tx.platforms = {}
    <3>1. \A t \in Syncs : sync[t].at = "idle" => sync[t].tx.platforms = {}
      BY <1>1 DEF Placed
    <3> QED
      BY <2>3, <2>4, <3>1 DEF SyncInv, PlatformsApart, Others, Syncing
  <2> QED
    BY <1>1, <2>3, <2>4, <2>6, <2>7, <2>8, <2>9, OwnStep
<1>5. ASSUME NEW s \in Syncs, FindCompany(s) PROVE SyncInv'
  <2> DEFINE g == normalizeSlug(Job(s).company)
             found == VisibleCompanies(s, g)
  <2>1. PICK c \in IF found = {} THEN {None} ELSE found :
           sync' = [sync EXCEPT ![s] = [@ EXCEPT !.at = "write", !.company = c]]
    BY <1>5 DEF FindCompany
  <2>2. PICK q : q = [sync[s] EXCEPT !.at = "write", !.company = c]
    OBVIOUS
  <2>3. Shaped(sync[s]) /\ Placed(sync[s])
    BY <1>1
  <2>4. /\ q.at = "write" /\ q.batch = sync[s].batch /\ q.next = sync[s].next
        /\ q.last = sync[s].last /\ q.tx = sync[s].tx /\ q.company = c /\ Shaped(q)
    BY <2>2, <2>3 DEF Shaped
  <2>5. /\ sync' = [sync EXCEPT ![s] = q] /\ UNCHANGED <<companies, sent>>
        /\ sync[s].at = "company"
    BY <1>5, <2>1, <2>2 DEF FindCompany
  <2>6. sync'[s] = q
    BY <2>5 DEF SyncInv, SyncsShaped
  <2>7. Placed(q)'
    BY <2>3, <2>4, <2>5 DEF Placed
  <2>8. PlatformHeld(s)'
    BY <2>4, <2>5, <2>6 DEF SyncInv, PlatformHeld, PlatformOf, Job
  <2>9. CreatedFirst(s)'
    BY <2>4, <2>5, <2>6 DEF SyncInv, CreatedFirst
  <2>10. AbsentStays(s)'
    <3>1. PlatformOf(s)' = PlatformOf(s) /\ (Job(s).company)' = Job(s).company
      BY <2>4, <2>6 DEF PlatformOf, Job
    <3>2. g \in Slugs /\ PlatformOf(s) \in Slugs
      BY <2>5, JobAtWork
    <3>3. CASE c = None
      <4>1. MaxBatches >= 1
        BY <1>1, <2>3, <2>5 DEF Placed
      <4>2. found = {}
        <5>1. \A d \in sync[s].tx.created : d \in CompanyRows
          BY <1>1, <4>1 DEF SyncInv, CreatedFirst, PlatformHeld, CompanyRows
        <5>2. None \notin found
          BY <5>1, NoneIsNoCompany DEF VisibleCompanies
        <5> QED
          BY <3>3, <5>2
      <4>3. companies[g][PlatformOf(s)] = 0
        <5>1. <<g, PlatformOf(s), 1>> \in CompanyRows
          BY <1>1, <3>2, <4>1 DEF CompanyRows
        <5>2. ~(1 <= companies[g][PlatformOf(s)])
          BY <4>2, <5>1 DEF VisibleCompanies
        <5> QED
          BY <3>2, <5>2 DEF SyncInv, SyncsShaped
      <4>4. \A d \in sync[s].tx.created : d[1] # g
        BY <4>2 DEF VisibleCompanies
      <4> QED
        BY <2>4, <2>5, <2>6, <3>1, <4>3, <4>4 DEF AbsentStays, normalizeSlug
    <3>4. CASE c # None
      BY <2>4, <2>6, <3>4 DEF AbsentStays
    <3> QED
      BY <3>3, <3>4
  <2> QED
    BY <1>1, <2>4, <2>5, <2>7, <2>8, <2>9, <2>10, OwnStep DEF SyncInv, PlatformsApart
<1>6. ASSUME NEW s \in Syncs, WriteJob(s) PROVE SyncInv'
  <2> DEFINE job == Job(s)
             new == sync[s].company = None
             company == IF new THEN NewCompany(s) ELSE sync[s].company
             id == ingestionRunId(job)
             g == normalizeSlug(job.company)
             p == PlatformOf(s)
  <2>1. PICK q : q = [sync[s] EXCEPT
                    !.at = IF sync[s].next = sync[s].last THEN "commit" ELSE "platform",
                    !.next = sync[s].next + 1,
                    !.company = None,
                    !.tx = [sync[s].tx EXCEPT
                       !.created = IF new THEN @ \cup {company} ELSE @,
                       !.locked = IF new THEN @ ELSE @ \cup {company},
                       !.runs = IF id = None THEN @
                                ELSE With(@, id, countJobsByIngestionRun(sync[s].batch, id)),
                       !.rows = With(@, KeyOf(job), Listing(job, company))]]
    OBVIOUS
  <2>2. Shaped(sync[s]) /\ Placed(sync[s])
    BY <1>1
  <2>3. /\ q.at = IF sync[s].next = sync[s].last THEN "commit" ELSE "platform"
        /\ q.batch = sync[s].batch /\ q.next = sync[s].next + 1 /\ q.last = sync[s].last
        /\ q.tx.platforms = sync[s].tx.platforms
        /\ q.tx.created = IF new THEN sync[s].tx.created \cup {company}
                          ELSE sync[s].tx.created
        /\ Shaped(q)
    BY <2>1, <2>2 DEF Shaped
  <2>4. /\ sync' = [sync EXCEPT ![s] = q] /\ UNCHANGED <<companies, sent>>
        /\ sync[s].at = "write"
    BY <1>6, <2>1 DEF WriteJob
  <2>5. sync'[s] = q
    BY <2>4 DEF SyncInv, SyncsShaped
  <2>6. Placed(q)'
    <3>1. /\ sync[s].batch \in Batches /\ sent # 0
          /\ sync[s].last \in 1..Len(sync[s].batch) /\ sync[s].next \in 1..sync[s].last
      BY <2>2, <2>4 DEF Placed
    <3>2. Len(sync[s].batch) \in Nat
      BY <3>1, SyncConstants
    <3> QED
      BY <2>3, <2>4, <3>1, <3>2 DEF Placed
  <2>7. PlatformHeld(s)'
    BY <2>3, <2>5 DEF SyncInv, PlatformHeld
  <2>8. CreatedFirst(s)'
    <3>1. \A c \in sync[s].tx.created :
             \E h \in Slugs, o \in sync[s].tx.platforms :
                c = <<h, o, 1>> /\ companies[h][o] = 0
      BY DEF SyncInv, CreatedFirst
    <3>2. CASE new
      <4>1. g \in Slugs /\ p \in Slugs /\ p \in sync[s].tx.platforms
        BY <2>4, JobAtWork DEF SyncInv, PlatformHeld
      <4>2. /\ companies[g][p] = 0
            /\ {c \in sync[s].tx.created : c[1] = g /\ c[2] = p} = {}
        BY <2>4, <3>2 DEF SyncInv, AbsentStays
      <4>3. Cardinality({c \in sync[s].tx.created : c[1] = g /\ c[2] = p}) = 0
        BY <4>2, FS_EmptySet
      <4>4. NewCompany(s) = <<g, p, 1>>
        BY <4>2, <4>3 DEF NewCompany
      <4>5. q.tx.created = sync[s].tx.created \cup {<<g, p, 1>>}
        BY <2>3, <3>2, <4>4
      <4> HIDE DEF g, p
      <4> QED
        BY <2>3, <2>4, <2>5, <3>1, <4>1, <4>2, <4>5 DEF CreatedFirst
    <3>3. CASE ~new
      BY <2>3, <2>4, <2>5, <3>1, <3>3 DEF CreatedFirst
    <3> QED
      BY <3>2, <3>3
  <2>9. AbsentStays(s)'
    BY <2>3, <2>5 DEF AbsentStays
  <2>10. \A t \in Syncs \ {s} : q.tx.platforms \cap sync[t].tx.platforms = {}
    BY <2>3 DEF SyncInv, PlatformsApart
  <2> QED
    BY <1>1, <2>3, <2>4, <2>6, <2>7, <2>8, <2>9, <2>10, OwnStep
<1>7. ASSUME NEW s \in Syncs, CommitChunk(s) PROVE SyncInv'
  <2> DEFINE mine(g, p) == {c \in sync[s].tx.created : c[1] = g /\ c[2] = p}
             done == sync[s].next > Len(sync[s].batch)
  <2>1. PICK q : q = IF done THEN NoSync ELSE [sync[s] EXCEPT !.at = "chunk", !.tx = NoTx]
    OBVIOUS
  <2>2. /\ sync' = [sync EXCEPT ![s] = q] /\ UNCHANGED sent
        /\ companies' = [g \in Slugs |-> [p \in Slugs |->
                           companies[g][p] + Cardinality(mine(g, p))]]
        /\ sync[s].at = "commit"
    BY <1>7, <2>1 DEF CommitChunk
  <2>3. Shaped(sync[s]) /\ Placed(sync[s])
    BY <1>1
  <2>4. /\ Shaped(q) /\ q.tx.platforms = {} /\ q.tx.created = {}
        /\ q.at \in {"idle", "chunk"}
        /\ q.at = "chunk" => q.batch = sync[s].batch /\ q.next = sync[s].next /\ ~done
    BY <2>1, <2>3 DEF Shaped, NoSync, NoTx
  <2>5. Placed(q)'
    <3>1. /\ sync[s].batch \in Batches /\ sent # 0
          /\ sync[s].last \in 1..Len(sync[s].batch) /\ sync[s].next = sync[s].last + 1
      BY <2>2, <2>3 DEF Placed
    <3>2. Len(sync[s].batch) \in Nat
      BY <3>1, SyncConstants
    <3> QED
      BY <2>2, <2>4, <3>1, <3>2 DEF Placed
  <2>6. \A g, p \in Slugs : \/ companies'[g][p] = companies[g][p]
                           \/ /\ companies[g][p] = 0 /\ companies'[g][p] = 1
                              /\ p \in sync[s].tx.platforms
    <3> SUFFICES ASSUME NEW g \in Slugs, NEW p \in Slugs
                 PROVE  \/ companies'[g][p] = companies[g][p]
                        \/ /\ companies[g][p] = 0 /\ companies'[g][p] = 1
                           /\ p \in sync[s].tx.platforms
      OBVIOUS
    <3>1. companies'[g][p] = companies[g][p] + Cardinality(mine(g, p))
      BY <2>2
    <3>2. \/ Cardinality(mine(g, p)) = 0
          \/ /\ Cardinality(mine(g, p)) = 1
             /\ companies[g][p] = 0 /\ p \in sync[s].tx.platforms
      BY CreatedCount
    <3>3. companies[g][p] \in {0, 1}
      BY DEF SyncInv, SyncsShaped
    <3> HIDE DEF mine
    <3> QED
      BY <3>1, <3>2, <3>3
  <2> HIDE DEF mine
  <2>7. /\ sync' = [t \in Syncs |-> sync'[t]]
        /\ sync'[s] = q
        /\ \A t \in Syncs \ {s} : sync'[t] = sync[t]
    BY <2>2 DEF SyncInv, SyncsShaped
  <2>8. companies' \in [Slugs -> [Slugs -> {0, 1}]]
    <3>1. \A g, p \in Slugs : companies'[g][p] \in {0, 1}
      BY <2>6 DEF SyncInv, SyncsShaped
    <3> QED
      BY <2>2, <3>1
  <2>9. SyncsShaped' /\ PlatformsApart'
    BY <2>2, <2>4, <2>7, <2>8 DEF SyncInv, SyncsShaped, PlatformsApart
  <2>10. PlatformHeld(s)' /\ CreatedFirst(s)' /\ AbsentStays(s)'
    BY <2>4, <2>7 DEF PlatformHeld, CreatedFirst, AbsentStays
  <2>11. ASSUME NEW t \in Syncs \ {s}
         PROVE  /\ Placed(sync[t])' /\ PlatformHeld(t)'
                /\ CreatedFirst(t)' /\ AbsentStays(t)'
    <3>1. sync'[t] = sync[t] /\ PlatformOf(t)' = PlatformOf(t) /\ Job(t)' = Job(t)
      BY <2>7 DEF PlatformOf, Job
    <3>2. Placed(sync[t])' /\ PlatformHeld(t)'
      BY <2>2, <3>1 DEF SyncInv, Placed, PlatformHeld
    <3>3. \A g \in Slugs : \A p \in sync[t].tx.platforms : companies'[g][p] = companies[g][p]
      BY <2>6 DEF SyncInv, PlatformsApart, PlatformHeld
    <3>4. CreatedFirst(t)'
      BY <3>1, <3>3 DEF SyncInv, CreatedFirst
    <3>5. AbsentStays(t)'
      BY <3>1, <3>3, JobAtWork DEF SyncInv, AbsentStays, PlatformHeld
    <3> QED
      BY <3>2, <3>4, <3>5
  <2> QED
    BY <2>5, <2>7, <2>9, <2>10, <2>11 DEF SyncInv
<1>8. ASSUME NEW s \in Syncs, Rollback(s) PROVE SyncInv'
  <2>1. Shaped(NoSync) /\ Placed(NoSync)'
    BY DEF Shaped, Placed, NoSync, NoTx
  <2>2. sync' = [sync EXCEPT ![s] = NoSync] /\ UNCHANGED <<companies, sent>>
    BY <1>8 DEF Rollback
  <2>3. NoSync.at = "idle" /\ NoSync.tx.platforms = {} /\ NoSync.tx.created = {}
    BY DEF NoSync, NoTx
  <2> QED
    BY <1>1, <2>1, <2>2, <2>3, EmptyStep
<1>9. CASE UNCHANGED syncVars
  BY <1>9 DEF syncVars, SyncInv, SyncsShaped, PlatformsApart, Placed, PlatformHeld,
     CreatedFirst, AbsentStays, PlatformOf, Job
<1> QED
  BY <1>2, <1>3, <1>4, <1>5, <1>6, <1>7, <1>8, <1>9 DEF SyncNext, Deadlock, Interrupt

---------------------------------------------------------------------------
(* What the tables and the transactions hold *)

StoredCompanies == {c \in CompanyRows : c[3] <= companies[c[1]][c[2]]}
CountedRuns == {id \in RunIds : runs[id] # None}

(* A listing refers to skills, a run and a company of these, and it was    *)
(* seen at a time.                                                         *)
Refers(row, skills, ids, rows) ==
    /\ row.data.seen \in Nat
    /\ row.skills \subseteq skills
    /\ row.run # None => row.run \in ids
    /\ row.company \in rows

(* What a transaction wrote refers to what is stored or what it wrote too, *)
(* and the skills of the jobs to come are there.                           *)
TxOK(q) ==
    /\ q.tx.skills \subseteq Slugs
    /\ \A id \in DOMAIN q.tx.runs : id \in RunIds /\ q.tx.runs[id] \in Nat
    /\ \A k \in DOMAIN q.tx.rows :
          /\ k \in Keys /\ q.tx.rows[k] # None
          /\ Refers(q.tx.rows[k], catalog \cup q.tx.skills,
                    CountedRuns \cup DOMAIN q.tx.runs, StoredCompanies \cup q.tx.created)
    /\ q.at = "idle" => q = NoSync
    /\ q.at = "chunk" => q.tx = NoTx
    /\ q.at \in {"platform", "company", "write"} =>
          \A j \in q.next..q.last : SkillsOf(q.batch[j]) \subseteq catalog \cup q.tx.skills
    /\ q.company # None =>
          /\ q.at = "write"
          /\ q.company \in StoredCompanies \cup q.tx.created
          /\ q.company[1] = normalizeSlug(q.batch[q.next].company)

TablesOK ==
    /\ catalog \subseteq Slugs
    /\ faults \in 0..MaxFaults
    /\ listings = [k \in Keys |-> listings[k]]
    /\ runs \in [RunIds -> Nat \cup {None}]
    /\ \A k \in Keys : listings[k] # None =>
          Refers(listings[k], catalog, CountedRuns, StoredCompanies)

RowsInv == TablesOK /\ \A s \in Syncs : TxOK(sync[s])

LEMMA RowsInvInit == SyncInit => RowsInv
<1> SUFFICES ASSUME SyncInit PROVE RowsInv
  OBVIOUS
<1>1. TablesOK
  BY SyncConstants DEF SyncInit, TablesOK
<1>2. TxOK(NoSync)
  BY DEF TxOK, NoSync, NoTx
<1> QED
  BY <1>1, <1>2 DEF SyncInit, RowsInv

(* What syncing one job of a batch writes. *)
LEMMA JobOfBatch ==
  ASSUME NEW b \in Batches, NEW i \in 1..Len(b)
  PROVE  /\ KeyOf(b[i]) \in Keys
         /\ SkillsOf(b[i]) \subseteq Slugs
         /\ ingestionRunId(b[i]) # None => ingestionRunId(b[i]) \in RunIds
         /\ \A id : countJobsByIngestionRun(b, id) \in Nat
         /\ \A c \in CompanyRows : Listing(b[i], c) # None
         /\ b[i].data.seen \in Nat
<1>1. /\ DOMAIN b = 1..Len(b) /\ Len(b) \in Nat
      /\ b[i].platform \in Names /\ b[i].skills \subseteq Names
      /\ b[i].external \in Externals /\ b[i].run \in SourceRuns \cup {None}
      /\ Slug \in [Names -> Slugs]
  BY SyncConstants
<1>2. /\ KeyOf(b[i]) \in Keys
      /\ SkillsOf(b[i]) \subseteq Slugs
      /\ ingestionRunId(b[i]) # None => ingestionRunId(b[i]) \in RunIds
  BY <1>1 DEF KeyOf, Keys, SkillsOf, ingestionRunId, RunIds, normalizeSlug
<1>3. ASSUME NEW id PROVE countJobsByIngestionRun(b, id) \in Nat
  <2>1. IsFiniteSet(1..Len(b))
    BY <1>1, FS_Interval
  <2>2. {j \in DOMAIN b : ingestionRunId(b[j]) = id} \subseteq 1..Len(b)
    BY <1>1
  <2> QED
    BY <2>1, <2>2, FS_Subset, FS_CardinalityType DEF countJobsByIngestionRun
<1> QED
  BY <1>1, <1>2, <1>3, NoneIsNoRow, BoardConstants

(* Nothing that is stored is taken back. *)
TablesGrow ==
    /\ catalog \subseteq catalog'
    /\ CountedRuns \subseteq CountedRuns' /\ StoredCompanies \subseteq StoredCompanies'

LEMMA TxStays ==
  ASSUME NEW q, TxOK(q), TablesGrow PROVE TxOK(q)'
BY DEF TxOK, TablesGrow, Refers

(* A step of one sync that commits nothing. *)
LEMMA TxStep ==
  ASSUME SyncInv, RowsInv, NEW s \in Syncs, NEW q, sync' = [sync EXCEPT ![s] = q],
         UNCHANGED <<catalog, companies, runs, listings>>, faults' \in 0..MaxFaults, TxOK(q)
  PROVE  RowsInv'
<1>1. /\ sync'[s] = q
      /\ \A t \in Syncs \ {s} : sync'[t] = sync[t]
  BY DEF SyncInv, SyncsShaped
<1>2. TablesGrow
  BY DEF TablesGrow, CountedRuns, StoredCompanies
<1>3. TablesOK'
  BY DEF RowsInv, TablesOK, CountedRuns, StoredCompanies
<1>4. ASSUME NEW t \in Syncs PROVE TxOK(sync[t])'
  <2>1. CASE t = s
    BY <1>1, <1>2, <2>1, TxStays
  <2>2. PICK o : o = sync[t]
    OBVIOUS
  <2>3. CASE t # s
    BY <1>1, <1>2, <2>2, <2>3, TxStays DEF RowsInv
  <2> QED
    BY <2>1, <2>3
<1> QED
  BY <1>3, <1>4 DEF RowsInv

(* The record after the writes of one job. *)
WritesJob(s, q, company) ==
    LET job == Job(s)
        id == ingestionRunId(job)
        tx == sync[s].tx
    IN
    /\ Shaped(q)
    /\ q.at = IF sync[s].next = sync[s].last THEN "commit" ELSE "platform"
    /\ q.next = sync[s].next + 1 /\ q.company = None
    /\ q.batch = sync[s].batch /\ q.last = sync[s].last
    /\ q.tx.skills = tx.skills /\ q.tx.platforms = tx.platforms
    /\ q.tx.created = IF sync[s].company = None THEN tx.created \cup {company} ELSE tx.created
    /\ q.tx.runs = IF id = None THEN tx.runs
                   ELSE With(tx.runs, id, countJobsByIngestionRun(sync[s].batch, id))
    /\ q.tx.rows = With(tx.rows, KeyOf(job), Listing(job, company))
    /\ company \in CompanyRows /\ company \in StoredCompanies \cup q.tx.created
    /\ tx.created \subseteq q.tx.created
    /\ company[1] = normalizeSlug(job.company)

LEMMA JobWritten ==
  ASSUME SyncInv, RowsInv, NEW s \in Syncs, WriteJob(s)
  PROVE  \E q, company : sync' = [sync EXCEPT ![s] = q] /\ WritesJob(s, q, company)
<1> DEFINE job == Job(s)
           new == sync[s].company = None
           g == normalizeSlug(job.company)
           p == PlatformOf(s)
<1>1. PICK company : company = IF new THEN NewCompany(s) ELSE sync[s].company
  OBVIOUS
<1>2. PICK id : id = ingestionRunId(job)
  OBVIOUS
<1>3. PICK q : q = [sync[s] EXCEPT
                    !.at = IF sync[s].next = sync[s].last THEN "commit" ELSE "platform",
                    !.next = sync[s].next + 1,
                    !.company = None,
                    !.tx = [sync[s].tx EXCEPT
                       !.created = IF new THEN @ \cup {company} ELSE @,
                       !.locked = IF new THEN @ ELSE @ \cup {company},
                       !.runs = IF id = None THEN @
                                ELSE With(@, id, countJobsByIngestionRun(sync[s].batch, id)),
                       !.rows = With(@, KeyOf(job), Listing(job, company))]]
  OBVIOUS
<1>4. sync' = [sync EXCEPT ![s] = q] /\ sync[s].at = "write"
  BY <1>1, <1>2, <1>3 DEF WriteJob
<1>5. Shaped(sync[s]) /\ Placed(sync[s]) /\ TxOK(sync[s]) /\ CreatedFirst(s)
  BY DEF SyncInv, SyncsShaped, RowsInv
<1>6. /\ Shaped(q)
      /\ q.at = IF sync[s].next = sync[s].last THEN "commit" ELSE "platform"
      /\ q.next = sync[s].next + 1 /\ q.company = None
      /\ q.batch = sync[s].batch /\ q.last = sync[s].last
      /\ q.tx.skills = sync[s].tx.skills /\ q.tx.platforms = sync[s].tx.platforms
      /\ q.tx.created = IF new THEN sync[s].tx.created \cup {company} ELSE sync[s].tx.created
      /\ q.tx.runs = IF id = None THEN sync[s].tx.runs
                     ELSE With(sync[s].tx.runs, id, countJobsByIngestionRun(sync[s].batch, id))
      /\ q.tx.rows = With(sync[s].tx.rows, KeyOf(job), Listing(job, company))
  BY <1>3, <1>5 DEF Shaped
<1>7. MaxBatches >= 1 /\ MaxBatches \in Nat
  BY <1>4, <1>5, SyncConstants DEF Placed, SyncInv, SyncsShaped
<1>8. g \in Slugs /\ p \in Slugs
  BY <1>4, JobAtWork
<1>9. \A c \in sync[s].tx.created : c \in CompanyRows
  <2> SUFFICES ASSUME NEW c \in sync[s].tx.created PROVE c \in CompanyRows
    OBVIOUS
  <2>1. PICK h \in Slugs, o \in sync[s].tx.platforms : c = <<h, o, 1>>
    BY <1>5 DEF CreatedFirst
  <2>2. o \in Slugs
    BY DEF SyncInv, PlatformHeld
  <2> QED
    BY <1>7, <2>1, <2>2 DEF CompanyRows
<1>10. company \in CompanyRows /\ company \in StoredCompanies \cup q.tx.created /\ company[1] = g
  <2>1. CASE new
    <3>1. {c \in sync[s].tx.created : c[1] = g /\ c[2] = p} = {} /\ companies[g][p] = 0
      BY <1>4, <2>1 DEF SyncInv, AbsentStays
    <3>2. Cardinality({c \in sync[s].tx.created : c[1] = g /\ c[2] = p}) = 0
      BY <3>1, FS_EmptySet
    <3>3. NewCompany(s) = <<g, p, 1>>
      BY <3>1, <3>2 DEF NewCompany
    <3> HIDE DEF g, p
    <3>4. company = <<g, p, 1>>
      BY <1>1, <2>1, <3>3
    <3> QED
      BY <1>6, <1>7, <1>8, <2>1, <3>4 DEF CompanyRows
  <2>2. CASE ~new
    BY <1>1, <1>5, <1>6, <1>9, <2>2 DEF TxOK, StoredCompanies, Job
  <2> QED
    BY <2>1, <2>2
<1> QED
  BY <1>2, <1>4, <1>6, <1>10 DEF WritesJob

(* A commit stores the companies the transaction created. *)
LEMMA CommittedCompanies ==
  ASSUME SyncInv, NEW s \in Syncs, CommitChunk(s)
  PROVE  /\ StoredCompanies \subseteq StoredCompanies'
         /\ sync[s].tx.created \subseteq StoredCompanies'
<1> DEFINE mine(g, p) == {c \in sync[s].tx.created : c[1] = g /\ c[2] = p}
<1>1. companies' = [g \in Slugs |-> [p \in Slugs |->
                       companies[g][p] + Cardinality(mine(g, p))]]
  BY DEF CommitChunk
<1>2. ASSUME NEW g \in Slugs, NEW p \in Slugs
      PROVE  /\ companies[g][p] <= companies'[g][p]
             /\ mine(g, p) # {} => 1 <= companies'[g][p]
  <2>1. companies[g][p] \in {0, 1} /\ companies'[g][p] = companies[g][p] + Cardinality(mine(g, p))
    BY <1>1 DEF SyncInv, SyncsShaped
  <2>2. \/ mine(g, p) = {} /\ Cardinality(mine(g, p)) = 0
        \/ Cardinality(mine(g, p)) = 1
    BY CreatedCount
  <2> HIDE DEF mine
  <2> QED
    BY <2>1, <2>2
<1>3. companies \in [Slugs -> [Slugs -> {0, 1}]] /\ sent \in 0..MaxBatches /\ MaxBatches \in Nat
  BY SyncConstants DEF SyncInv, SyncsShaped
<1>4. StoredCompanies \subseteq StoredCompanies'
  <2> SUFFICES ASSUME NEW c \in StoredCompanies PROVE c \in StoredCompanies'
    OBVIOUS
  <2>1. PICK g \in Slugs, p \in Slugs, n \in 1..MaxBatches : c = <<g, p, n>>
    BY DEF StoredCompanies, CompanyRows
  <2>2. n <= companies[g][p] /\ c \in CompanyRows
    BY <2>1 DEF StoredCompanies
  <2>3. companies[g][p] \in Nat /\ companies[g][p] <= companies'[g][p] /\ companies'[g][p] \in Nat
    <3>1. Cardinality(mine(g, p)) \in {0, 1}
      BY CreatedCount
    <3> HIDE DEF mine
    <3> QED
      BY <1>1, <1>3, <3>1
  <2> HIDE DEF mine
  <2> QED
    BY <2>1, <2>2, <2>3 DEF StoredCompanies
<1>5. ASSUME NEW c \in sync[s].tx.created PROVE c \in StoredCompanies'
  <2>1. PICK g \in Slugs, p \in sync[s].tx.platforms : c = <<g, p, 1>>
    BY DEF SyncInv, CreatedFirst
  <2>2. p \in Slugs /\ sent # 0
    BY DEF SyncInv, PlatformHeld, Placed, CommitChunk
  <2>3. c \in mine(g, p)
    BY <2>1
  <2>4. 1 <= companies'[g][p]
    BY <1>2, <2>2, <2>3
  <2>5. 1 \in 1..MaxBatches
    BY <1>3, <2>2
  <2> QED
    BY <2>1, <2>2, <2>4, <2>5 DEF StoredCompanies, CompanyRows
<1> QED
  BY <1>4, <1>5

(* Before a chunk commits a transaction keeps what it wrote and what it    *)
(* sees of the tables.                                                     *)
LEMMA RowsStep == SyncInv /\ RowsInv /\ [SyncNext]_syncVars => RowsInv'
<1> SUFFICES ASSUME SyncInv, RowsInv, [SyncNext]_syncVars PROVE RowsInv'
  OBVIOUS
<1>1. /\ \A s \in Syncs : Shaped(sync[s]) /\ Placed(sync[s]) /\ TxOK(sync[s])
      /\ sent \in 0..MaxBatches /\ MaxBatches \in Nat
      /\ faults \in 0..MaxFaults /\ MaxFaults \in Nat
  BY SyncConstants DEF SyncInv, SyncsShaped, RowsInv, TablesOK
<1>2. ASSUME NEW s \in Syncs, NEW b \in Batches, SyncScraperJobs(s, b) PROVE RowsInv'
  <2>1. PICK q : q = [NoSync EXCEPT !.at = "chunk", !.batch = b]
    OBVIOUS
  <2>2. q.at = "chunk" /\ q.company = None /\ q.tx = NoTx
    BY <2>1 DEF NoSync
  <2>3. TxOK(q)
    BY <2>2 DEF TxOK, NoTx
  <2>4. /\ sync' = [sync EXCEPT ![s] = q]
        /\ UNCHANGED <<catalog, companies, runs, listings, faults>>
    BY <1>2, <2>1 DEF SyncScraperJobs
  <2> QED
    BY <1>1, <2>3, <2>4, TxStep
<1>3. ASSUME NEW s \in Syncs, EnsureSkillMap(s) PROVE RowsInv'
  <2> DEFINE wanted == collectUniqueBatchSkills(sync[s].batch, sync[s].next)
             last == LastOf(sync[s].batch, sync[s].next)
  <2>1. PICK q : q = [sync[s] EXCEPT !.at = "platform", !.last = last,
                          !.tx = [NoTx EXCEPT !.skills = wanted \ catalog]]
    OBVIOUS
  <2>2. /\ Shaped(sync[s]) /\ sync[s].at = "chunk" /\ sync[s].company = None
        /\ sync[s].batch \in Batches /\ sync[s].next \in 1..Len(sync[s].batch)
    BY <1>1, <1>3 DEF EnsureSkillMap, Placed, TxOK
  <2>3. /\ q.at = "platform" /\ q.batch = sync[s].batch /\ q.next = sync[s].next
        /\ q.last = last /\ q.company = None
        /\ q.tx.skills = wanted \ catalog
        /\ q.tx.runs = << >> /\ q.tx.rows = << >> /\ q.tx.created = {}
    BY <2>1, <2>2 DEF Shaped, NoTx
  <2>4. last \in 1..Len(sync[s].batch)
    BY <2>2, SyncConstants DEF LastOf
  <2>5. \A j \in sync[s].next..last : SkillsOf(sync[s].batch[j]) \subseteq wanted
    BY DEF collectUniqueBatchSkills
  <2>6. wanted \subseteq Slugs
    BY <2>2, <2>4, JobOfBatch DEF collectUniqueBatchSkills
  <2>7. TxOK(q)
    BY <2>3, <2>5, <2>6 DEF TxOK
  <2>8. /\ sync' = [sync EXCEPT ![s] = q]
        /\ UNCHANGED <<catalog, companies, runs, listings, faults>>
    BY <1>3, <2>1 DEF EnsureSkillMap
  <2> QED
    BY <1>1, <2>7, <2>8, TxStep
<1>4. ASSUME NEW s \in Syncs, UpsertPlatform(s) PROVE RowsInv'
  <2>1. PICK q : q = [sync[s] EXCEPT !.at = "company",
                         !.tx = [sync[s].tx EXCEPT !.platforms = @ \cup {PlatformOf(s)}]]
    OBVIOUS
  <2>2. Shaped(sync[s]) /\ TxOK(sync[s]) /\ sync[s].at = "platform"
    BY <1>1, <1>4 DEF UpsertPlatform
  <2>3. /\ q.at = "company" /\ q.batch = sync[s].batch /\ q.next = sync[s].next
        /\ q.last = sync[s].last /\ q.company = sync[s].company
        /\ q.tx.created = sync[s].tx.created /\ q.tx.skills = sync[s].tx.skills
        /\ q.tx.runs = sync[s].tx.runs /\ q.tx.rows = sync[s].tx.rows
    BY <2>1, <2>2 DEF Shaped
  <2>4. TxOK(q)
    BY <2>2, <2>3 DEF TxOK
  <2>5. /\ sync' = [sync EXCEPT ![s] = q]
        /\ UNCHANGED <<catalog, companies, runs, listings, faults>>
    BY <1>4, <2>1 DEF UpsertPlatform
  <2> QED
    BY <1>1, <2>4, <2>5, TxStep
<1>5. ASSUME NEW s \in Syncs, FindCompany(s) PROVE RowsInv'
  <2> DEFINE g == normalizeSlug(Job(s).company)
             found == VisibleCompanies(s, g)
  <2>1. PICK c \in IF found = {} THEN {None} ELSE found :
           sync' = [sync EXCEPT ![s] = [@ EXCEPT !.at = "write", !.company = c]]
    BY <1>5 DEF FindCompany
  <2>2. PICK q : q = [sync[s] EXCEPT !.at = "write", !.company = c]
    OBVIOUS
  <2>3. Shaped(sync[s]) /\ TxOK(sync[s]) /\ sync[s].at = "company"
    BY <1>1, <1>5 DEF FindCompany
  <2>4. /\ q.at = "write" /\ q.batch = sync[s].batch /\ q.next = sync[s].next
        /\ q.last = sync[s].last /\ q.tx = sync[s].tx /\ q.company = c
    BY <2>2, <2>3 DEF Shaped
  <2>5. c # None => c \in StoredCompanies \cup sync[s].tx.created /\ c[1] = g
    BY <2>1 DEF VisibleCompanies, StoredCompanies
  <2>6. TxOK(q)
    BY <2>3, <2>4, <2>5 DEF TxOK, Job
  <2>7. /\ sync' = [sync EXCEPT ![s] = q]
        /\ UNCHANGED <<catalog, companies, runs, listings, faults>>
    BY <1>5, <2>1, <2>2 DEF FindCompany
  <2> QED
    BY <1>1, <2>6, <2>7, TxStep
<1>6. ASSUME NEW s \in Syncs, WriteJob(s) PROVE RowsInv'
  <2>1. PICK q, company :
           /\ sync' = [sync EXCEPT ![s] = q]
           /\ WritesJob(s, q, company)
    BY <1>1, <1>6, JobWritten
  <2>2. /\ TxOK(sync[s]) /\ sync[s].batch \in Batches
        /\ sync[s].last \in 1..Len(sync[s].batch) /\ sync[s].next \in 1..sync[s].last
        /\ sync[s].at = "write"
    BY <1>1, <1>6 DEF WriteJob, Placed
  <2>3. PICK job, id, key, count :
           /\ job = sync[s].batch[sync[s].next] /\ id = ingestionRunId(job)
           /\ key = KeyOf(job) /\ count = countJobsByIngestionRun(sync[s].batch, id)
    OBVIOUS
  <2>4. /\ key \in Keys /\ (id # None => id \in RunIds) /\ count \in Nat
        /\ Listing(job, company) # None /\ job.data.seen \in Nat
        /\ SkillsOf(job) \subseteq catalog \cup sync[s].tx.skills
    <3>1. sync[s].next \in 1..Len(sync[s].batch) /\ sync[s].next \in sync[s].next..sync[s].last
      BY <2>2, SyncConstants
    <3>2. company \in CompanyRows
      BY <2>1 DEF WritesJob
    <3> QED
      BY <2>2, <2>3, <3>1, <3>2, JobOfBatch DEF TxOK
  <2>5. Listing(job, company).company = company /\ Listing(job, company).run = id
        /\ Listing(job, company).skills = SkillsOf(job)
        /\ Listing(job, company).data = job.data
    BY <2>3 DEF Listing
  <2>6. /\ \A i \in DOMAIN q.tx.runs : \/ i \in DOMAIN sync[s].tx.runs /\ q.tx.runs[i] = sync[s].tx.runs[i]
                                       \/ i = id /\ id # None /\ q.tx.runs[i] = count
        /\ DOMAIN sync[s].tx.runs \subseteq DOMAIN q.tx.runs
        /\ id # None => id \in DOMAIN q.tx.runs
    <3>1. q.tx.runs = IF id = None THEN sync[s].tx.runs ELSE With(sync[s].tx.runs, id, count)
      BY <2>1, <2>3 DEF WritesJob, Job
    <3> QED
      BY <3>1 DEF With
  <2>7. \A k \in DOMAIN q.tx.rows :
           \/ k \in DOMAIN sync[s].tx.rows /\ q.tx.rows[k] = sync[s].tx.rows[k]
           \/ k = key /\ q.tx.rows[k] = Listing(job, company)
    <3>1. q.tx.rows = With(sync[s].tx.rows, key, Listing(job, company))
      BY <2>1, <2>3 DEF WritesJob, Job
    <3> QED
      BY <3>1 DEF With
  <2>8. /\ q.at \in {"commit", "platform"} /\ q.next = sync[s].next + 1
        /\ q.batch = sync[s].batch /\ q.last = sync[s].last /\ q.company = None
        /\ q.tx.skills = sync[s].tx.skills
        /\ sync[s].tx.created \subseteq q.tx.created
        /\ company \in StoredCompanies \cup q.tx.created
    BY <2>1 DEF WritesJob
  <2>9. \A j \in q.next..q.last : j \in sync[s].next..sync[s].last
    BY <2>2, <2>8
  <2>10. \A k \in DOMAIN q.tx.rows :
           /\ k \in Keys /\ q.tx.rows[k] # None
           /\ Refers(q.tx.rows[k], catalog \cup q.tx.skills,
                     CountedRuns \cup DOMAIN q.tx.runs, StoredCompanies \cup q.tx.created)
    BY <2>2, <2>4, <2>5, <2>6, <2>7, <2>8 DEF TxOK, Refers
  <2>11. \A i \in DOMAIN q.tx.runs : i \in RunIds /\ q.tx.runs[i] \in Nat
    BY <2>2, <2>4, <2>6 DEF TxOK
  <2>12. \A j \in q.next..q.last : SkillsOf(q.batch[j]) \subseteq catalog \cup q.tx.skills
    BY <2>2, <2>8, <2>9 DEF TxOK
  <2>13. TxOK(q)
    BY <2>2, <2>8, <2>10, <2>11, <2>12 DEF TxOK
  <2>14. UNCHANGED <<catalog, companies, runs, listings, faults>>
    BY <1>6 DEF WriteJob
  <2> QED
    BY <1>1, <2>1, <2>13, <2>14, TxStep
<1>7. ASSUME NEW s \in Syncs, CommitChunk(s) PROVE RowsInv'
  <2>1. PICK q : q = IF sync[s].next > Len(sync[s].batch) THEN NoSync
                     ELSE [sync[s] EXCEPT !.at = "chunk", !.tx = NoTx]
    OBVIOUS
  <2>2. PICK tx : tx = sync[s].tx
    OBVIOUS
  <2>3. /\ sync' = [sync EXCEPT ![s] = q] /\ UNCHANGED faults
        /\ catalog' = catalog \cup tx.skills
        /\ runs' = Over(runs, tx.runs) /\ listings' = Over(listings, tx.rows)
        /\ sync[s].at = "commit"
    BY <1>7, <2>1, <2>2 DEF CommitChunk
  <2>4. Shaped(sync[s]) /\ TxOK(sync[s])
    BY <1>1
  <2>5. /\ StoredCompanies \subseteq StoredCompanies'
        /\ sync[s].tx.created \subseteq StoredCompanies'
    BY <1>7, CommittedCompanies
  <2>6. /\ runs' \in [RunIds -> Nat \cup {None}]
        /\ CountedRuns' = CountedRuns \cup DOMAIN tx.runs
    <3>1. runs \in [RunIds -> Nat \cup {None}]
      BY DEF RowsInv, TablesOK
    <3>2. \A id \in DOMAIN tx.runs : id \in RunIds /\ tx.runs[id] \in Nat
      BY <2>2, <2>4 DEF TxOK
    <3>3. /\ DOMAIN runs' = RunIds /\ runs' = [id \in RunIds |-> runs'[id]]
          /\ \A id \in RunIds : runs'[id] = IF id \in DOMAIN tx.runs THEN tx.runs[id] ELSE runs[id]
      BY <2>3, <3>1 DEF Over
    <3>4. runs' \in [RunIds -> Nat \cup {None}]
      BY <3>1, <3>2, <3>3
    <3>5. \A id \in RunIds : runs'[id] # None <=> runs[id] # None \/ id \in DOMAIN tx.runs
      BY <3>2, <3>3, NoneIsNoRow
    <3> QED
      BY <3>2, <3>4, <3>5 DEF CountedRuns
  <2>7. TablesGrow
    BY <2>3, <2>5, <2>6 DEF TablesGrow
  <2>8. TablesOK'
    <3>1. /\ DOMAIN listings = Keys /\ listings' = [k \in Keys |-> listings'[k]]
          /\ \A k \in Keys : listings'[k] = IF k \in DOMAIN tx.rows THEN tx.rows[k] ELSE listings[k]
      BY <2>3 DEF RowsInv, TablesOK, Over
    <3>2. ASSUME NEW k \in Keys, listings'[k] # None
          PROVE  Refers(listings'[k], catalog', CountedRuns', StoredCompanies')
      <4>1. CASE k \in DOMAIN tx.rows
        BY <2>2, <2>3, <2>4, <2>5, <2>6, <3>1, <4>1 DEF TxOK, Refers
      <4>2. CASE k \notin DOMAIN tx.rows
        BY <2>7, <3>1, <3>2, <4>2 DEF RowsInv, TablesOK, TablesGrow, Refers
      <4> QED
        BY <4>1, <4>2
    <3>3. catalog' \subseteq Slugs
      BY <2>2, <2>3, <2>4 DEF RowsInv, TablesOK, TxOK
    <3> QED
      BY <1>1, <2>3, <2>6, <3>1, <3>2, <3>3 DEF TablesOK
  <2>9. TxOK(q)
    <3>1. CASE q = NoSync
      BY <3>1 DEF TxOK, NoSync, NoTx
    <3>2. CASE q = [sync[s] EXCEPT !.at = "chunk", !.tx = NoTx]
      <4>1. q.at = "chunk" /\ q.tx = NoTx /\ q.company = sync[s].company
        BY <2>4, <3>2 DEF Shaped
      <4>2. q.company = None
        BY <2>3, <2>4, <4>1 DEF TxOK
      <4> QED
        BY <4>1, <4>2 DEF TxOK, NoTx
    <3> QED
      BY <2>1, <3>1, <3>2
  <2>10. ASSUME NEW t \in Syncs PROVE TxOK(sync[t])'
    <3>1. PICK o : o = sync'[t]
      OBVIOUS
    <3>2. TxOK(o)
      BY <1>1, <2>3, <2>9, <3>1 DEF SyncInv, SyncsShaped
    <3> QED
      BY <2>7, <3>1, <3>2, TxStays
  <2> QED
    BY <2>8, <2>10 DEF RowsInv
<1>8. ASSUME NEW s \in Syncs, Rollback(s), faults' \in 0..MaxFaults PROVE RowsInv'
  <2>1. TxOK(NoSync)
    BY DEF TxOK, NoSync, NoTx
  <2> QED
    BY <1>8, <2>1, TxStep DEF Rollback
<1>9. CASE UNCHANGED syncVars
  BY <1>9 DEF syncVars, RowsInv, TablesOK, TxOK, CountedRuns, StoredCompanies
<1>10. ASSUME NEW s \in Syncs, Deadlock(s) \/ Interrupt(s)
      PROVE  Rollback(s) /\ faults' \in 0..MaxFaults
  BY <1>1, <1>10 DEF Deadlock, Interrupt
<1> QED
  BY <1>2, <1>3, <1>4, <1>5, <1>6, <1>7, <1>8, <1>9, <1>10 DEF SyncNext

---------------------------------------------------------------------------
(* A sync that runs alone *)

Matches(row, job) ==
    /\ row # None
    /\ row.data = job.data /\ row.skills = SkillsOf(job)
    /\ row.company[1] = normalizeSlug(job.company)
    /\ row.run = ingestionRunId(job)

(* Of the first n jobs of a batch the last of each key is there, and their *)
(* runs have their counts.                                                 *)
Holds(batch, n, rows, counts) ==
    \A i \in 1..n :
       /\ (\A j \in 1..n : KeyOf(batch[j]) = KeyOf(batch[i]) => j <= i) =>
             Matches(rows[KeyOf(batch[i])], batch[i])
       /\ ingestionRunId(batch[i]) # None =>
             counts[ingestionRunId(batch[i])] =
                countJobsByIngestionRun(batch, ingestionRunId(batch[i]))

(* What a sync that is alone sees holds the jobs it has done.              *)
Progress(q) ==
    Holds(q.batch, q.next - 1, Over(listings, q.tx.rows), Over(runs, q.tx.runs))
Alone ==
    ~crowded => /\ \A s, t \in Syncing : s = t
                /\ \A s \in Syncing : Progress(sync[s])

Settled ==
    settled # << >> =>
       /\ Syncing = {} /\ settled \in Batches
       /\ Holds(settled, Len(settled), listings, runs)

AloneInv == Alone /\ Settled

(* Nothing written leaves the table as it is. *)
LEMMA OverNothing == \A f : Over(f, << >>) = [x \in DOMAIN f |-> f[x]]
BY DEF Over

(* A step of one sync that is not the last of its batch, nor its first.    *)
LEMMA AloneStep ==
  ASSUME SyncInv, AloneInv, NEW s \in Syncing, NEW q, sync' = [sync EXCEPT ![s] = q],
         q.at # "idle" => (Progress(sync[s]) => Progress(q)'),
         crowded' = crowded, settled' \in {settled, << >>}
  PROVE  AloneInv'
<1>1. /\ sync'[s] = q
      /\ \A t \in Syncs \ {s} : sync'[t] = sync[t]
  BY DEF SyncInv, SyncsShaped, Syncing
<1>2. Syncing' \subseteq Syncing
  BY <1>1 DEF Syncing
<1>3. settled = << >> /\ settled' = << >>
  BY DEF AloneInv, Settled
<1>4. ASSUME ~crowded PROVE (\A a, b \in Syncing' : a = b) /\ \A t \in Syncing' : Progress(sync[t])'
  <2>1. \A a, b \in Syncing : a = b
    BY <1>4 DEF AloneInv, Alone
  <2>2. ASSUME NEW t \in Syncing' PROVE t = s /\ q.at # "idle"
    BY <1>1, <1>2, <2>1 DEF Syncing
  <2>3. Progress(sync[s])
    BY <1>4 DEF AloneInv, Alone
  <2>4. ASSUME NEW t \in Syncing' PROVE Progress(sync[t])'
    <3>1. q.at # "idle" /\ sync'[t] = q
      BY <1>1, <2>2
    <3>2. Progress(q)'
      BY <2>3, <3>1
    <3> QED
      BY <3>1, <3>2
  <2> QED
    BY <1>2, <2>1, <2>4
<1> QED
  BY <1>3, <1>4 DEF AloneInv, Alone, Settled

LEMMA AloneInvInit == SyncInit => AloneInv
BY DEF SyncInit, AloneInv, Alone, Settled, Syncing, NoSync

LEMMA AloneInvStep == SyncInv /\ RowsInv /\ AloneInv /\ [SyncNext]_syncVars => AloneInv'
<1> SUFFICES ASSUME SyncInv, RowsInv, AloneInv, [SyncNext]_syncVars PROVE AloneInv'
  OBVIOUS
<1>1. /\ \A s \in Syncs : Shaped(sync[s]) /\ Placed(sync[s]) /\ TxOK(sync[s])
      /\ DOMAIN listings = Keys /\ listings = [k \in Keys |-> listings[k]]
      /\ runs \in [RunIds -> Nat \cup {None}]
  BY DEF SyncInv, SyncsShaped, RowsInv, TablesOK
<1>2. ASSUME NEW s \in Syncs, NEW b \in Batches, SyncScraperJobs(s, b) PROVE AloneInv'
  <2>1. PICK q : q = [NoSync EXCEPT !.at = "chunk", !.batch = b]
    OBVIOUS
  <2>2. q.at = "chunk" /\ q.next = 1
    BY <2>1 DEF NoSync
  <2>3. /\ sync' = [sync EXCEPT ![s] = q] /\ crowded' = (Syncing # {}) /\ settled' = << >>
    BY <1>2, <2>1 DEF SyncScraperJobs
  <2>4. /\ sync'[s] = q
        /\ \A t \in Syncs \ {s} : sync'[t] = sync[t]
    BY <2>3 DEF SyncInv, SyncsShaped
  <2>5. ~crowded' => Syncing' = {s}
    BY <2>2, <2>3, <2>4 DEF Syncing
  <2>6. Progress(q)'
    BY <2>2 DEF Progress, Holds
  <2>7. ~crowded' => \A t \in Syncing' : Progress(sync[t])'
    BY <2>4, <2>5, <2>6
  <2> QED
    BY <2>3, <2>5, <2>7 DEF AloneInv, Alone, Settled
<1>3. ASSUME NEW s \in Syncs, EnsureSkillMap(s) PROVE AloneInv'
  <2>1. PICK q : q = [sync[s] EXCEPT !.at = "platform",
            !.last = LastOf(sync[s].batch, sync[s].next),
            !.tx = [NoTx EXCEPT !.skills =
               collectUniqueBatchSkills(sync[s].batch, sync[s].next) \ catalog]]
    OBVIOUS
  <2>2. Shaped(sync[s]) /\ sync[s].at = "chunk" /\ sync[s].tx = NoTx
    BY <1>1, <1>3 DEF EnsureSkillMap, TxOK
  <2>3. /\ q.batch = sync[s].batch /\ q.next = sync[s].next
        /\ q.tx.rows = sync[s].tx.rows /\ q.tx.runs = sync[s].tx.runs
    BY <2>1, <2>2 DEF Shaped, NoTx
  <2>4. /\ sync' = [sync EXCEPT ![s] = q] /\ UNCHANGED <<listings, runs, crowded, settled>>
    BY <1>3, <2>1 DEF EnsureSkillMap
  <2>5. Progress(sync[s]) => Progress(q)'
    BY <2>3, <2>4 DEF Progress
  <2>6. s \in Syncing
    BY <2>2 DEF Syncing
  <2> QED
    BY <2>4, <2>5, <2>6, AloneStep
<1>4. ASSUME NEW s \in Syncs, UpsertPlatform(s) PROVE AloneInv'
  <2>1. PICK q : q = [sync[s] EXCEPT !.at = "company",
                         !.tx = [sync[s].tx EXCEPT !.platforms = @ \cup {PlatformOf(s)}]]
    OBVIOUS
  <2>2. Shaped(sync[s]) /\ sync[s].at = "platform"
    BY <1>1, <1>4 DEF UpsertPlatform
  <2>3. /\ q.batch = sync[s].batch /\ q.next = sync[s].next
        /\ q.tx.rows = sync[s].tx.rows /\ q.tx.runs = sync[s].tx.runs
    BY <2>1, <2>2 DEF Shaped
  <2>4. /\ sync' = [sync EXCEPT ![s] = q] /\ UNCHANGED <<listings, runs, crowded, settled>>
    BY <1>4, <2>1 DEF UpsertPlatform
  <2>5. Progress(sync[s]) => Progress(q)'
    BY <2>3, <2>4 DEF Progress
  <2>6. s \in Syncing
    BY <2>2 DEF Syncing
  <2> QED
    BY <2>4, <2>5, <2>6, AloneStep
<1>5. ASSUME NEW s \in Syncs, FindCompany(s) PROVE AloneInv'
  <2>1. PICK c : sync' = [sync EXCEPT ![s] = [@ EXCEPT !.at = "write", !.company = c]]
    BY <1>5 DEF FindCompany
  <2>2. PICK q : q = [sync[s] EXCEPT !.at = "write", !.company = c]
    OBVIOUS
  <2>3. Shaped(sync[s]) /\ sync[s].at = "company"
    BY <1>1, <1>5 DEF FindCompany
  <2>4. q.batch = sync[s].batch /\ q.next = sync[s].next /\ q.tx = sync[s].tx
    BY <2>2, <2>3 DEF Shaped
  <2>5. /\ sync' = [sync EXCEPT ![s] = q] /\ UNCHANGED <<listings, runs, crowded, settled>>
    BY <1>5, <2>1, <2>2 DEF FindCompany
  <2>6. Progress(sync[s]) => Progress(q)'
    BY <2>4, <2>5 DEF Progress
  <2>7. s \in Syncing
    BY <2>3 DEF Syncing
  <2> QED
    BY <2>5, <2>6, <2>7, AloneStep
<1>6. ASSUME NEW s \in Syncs, WriteJob(s) PROVE AloneInv'
  <2>1. PICK q, company :
           /\ sync' = [sync EXCEPT ![s] = q]
           /\ WritesJob(s, q, company)
    BY <1>1, <1>6, JobWritten
  <2>2. PICK n, batch, rows, counts, job :
           /\ n = sync[s].next /\ batch = sync[s].batch /\ job = batch[n]
           /\ rows = Over(listings, sync[s].tx.rows)
           /\ counts = Over(runs, sync[s].tx.runs)
    OBVIOUS
  <2>3. batch \in Batches /\ n \in 1..Len(batch) /\ n \in Nat \ {0}
    BY <1>1, <1>6, <2>2, SyncConstants DEF WriteJob, Placed
  <2>4. PICK key, id, count :
           key = KeyOf(job) /\ id = ingestionRunId(job) /\ count = countJobsByIngestionRun(batch, id)
    OBVIOUS
  <2>5. key \in Keys /\ (id # None => id \in RunIds) /\ Listing(job, company) # None
    BY <2>1, <2>2, <2>3, <2>4, JobOfBatch DEF WritesJob
  <2>6. PICK newRows, newCounts :
           newRows = Over(listings, q.tx.rows) /\ newCounts = Over(runs, q.tx.runs)
    OBVIOUS
  <2>7. newRows[key] = Listing(job, company) /\ \A k \in Keys \ {key} : newRows[k] = rows[k]
    <3>1. q.tx.rows = With(sync[s].tx.rows, key, Listing(job, company))
      BY <2>1, <2>2, <2>4 DEF WritesJob, Job
    <3> QED
      BY <1>1, <2>2, <2>5, <2>6, <3>1 DEF Over, With
  <2>8. /\ id # None => newCounts[id] = count
        /\ \A i \in RunIds \ {id} : newCounts[i] = counts[i]
    <3>1. q.tx.runs = IF id = None THEN sync[s].tx.runs ELSE With(sync[s].tx.runs, id, count)
      BY <2>1, <2>2, <2>4 DEF WritesJob, Job
    <3>2. DOMAIN runs = RunIds
      BY <1>1
    <3> QED
      BY <2>2, <2>5, <2>6, <3>1, <3>2 DEF Over, With
  <2>9. Matches(Listing(job, company), job)
    BY <2>1, <2>2, <2>5 DEF Matches, Listing, WritesJob, Job
  <2>10. ASSUME Holds(batch, n - 1, rows, counts) PROVE Holds(batch, n, newRows, newCounts)
    <3> SUFFICES ASSUME NEW i \in 1..n
          PROVE /\ (\A j \in 1..n : KeyOf(batch[j]) = KeyOf(batch[i]) => j <= i) =>
                      Matches(newRows[KeyOf(batch[i])], batch[i])
                /\ ingestionRunId(batch[i]) # None =>
                      newCounts[ingestionRunId(batch[i])] =
                         countJobsByIngestionRun(batch, ingestionRunId(batch[i]))
      BY DEF Holds
    <3>1. i \in 1..Len(batch) /\ Len(batch) \in Nat
      BY <2>3, SyncConstants
    <3>2. KeyOf(batch[i]) \in Keys /\ (ingestionRunId(batch[i]) # None => ingestionRunId(batch[i]) \in RunIds)
      BY <2>3, <3>1, JobOfBatch
    <3>3. CASE i = n
      BY <2>2, <2>4, <2>7, <2>8, <2>9, <3>3
    <3>4. CASE i # n
      <4>1. i \in 1..(n - 1) /\ ~(n <= i) /\ n \in 1..n /\ \A j \in 1..(n - 1) : j \in 1..n
        BY <2>3, <3>4
      <4>2. ASSUME \A j \in 1..n : KeyOf(batch[j]) = KeyOf(batch[i]) => j <= i
            PROVE  Matches(newRows[KeyOf(batch[i])], batch[i])
        <5>1. KeyOf(batch[i]) # key
          BY <2>2, <2>4, <4>1, <4>2
        <5>2. Matches(rows[KeyOf(batch[i])], batch[i])
          BY <2>10, <4>1, <4>2 DEF Holds
        <5> QED
          BY <2>7, <3>2, <5>1, <5>2
      <4>3. ASSUME ingestionRunId(batch[i]) # None
            PROVE  newCounts[ingestionRunId(batch[i])] =
                      countJobsByIngestionRun(batch, ingestionRunId(batch[i]))
        <5>1. counts[ingestionRunId(batch[i])] =
                  countJobsByIngestionRun(batch, ingestionRunId(batch[i]))
          BY <2>10, <4>1, <4>3 DEF Holds
        <5> QED
          BY <2>4, <2>8, <3>2, <4>3, <5>1
      <4> QED
        BY <4>2, <4>3
    <3> QED
      BY <3>3, <3>4
  <2>11. UNCHANGED <<listings, runs, crowded, settled>> /\ s \in Syncing
    BY <1>6 DEF WriteJob, Syncing
  <2>12. q.batch = batch /\ q.next = n + 1 /\ q.next - 1 = n
    BY <2>1, <2>2, <2>3 DEF WritesJob
  <2>13. Progress(sync[s]) => Progress(q)'
    BY <2>2, <2>6, <2>10, <2>11, <2>12 DEF Progress
  <2> QED
    BY <2>1, <2>11, <2>13, AloneStep
<1>7. ASSUME NEW s \in Syncs, CommitChunk(s) PROVE AloneInv'
  <2>1. PICK q : q = IF sync[s].next > Len(sync[s].batch) THEN NoSync
                     ELSE [sync[s] EXCEPT !.at = "chunk", !.tx = NoTx]
    OBVIOUS
  <2>2. /\ sync' = [sync EXCEPT ![s] = q] /\ crowded' = crowded
        /\ runs' = Over(runs, sync[s].tx.runs) /\ listings' = Over(listings, sync[s].tx.rows)
        /\ settled' = IF sync[s].next > Len(sync[s].batch) /\ ~crowded
                      THEN sync[s].batch ELSE << >>
        /\ sync[s].at = "commit" /\ s \in Syncing
    BY <1>7, <2>1 DEF CommitChunk, Syncing
  <2>3. CASE ~(sync[s].next > Len(sync[s].batch))
    <3>1. q.batch = sync[s].batch /\ q.next = sync[s].next /\ q.tx = NoTx
      BY <1>1, <2>1, <2>3 DEF Shaped
    <3>2. Over(listings', << >>) = listings' /\ Over(runs', << >>) = runs'
      BY <2>2, OverNothing DEF Over
    <3>3. q.tx.rows = << >> /\ q.tx.runs = << >>
      BY <3>1 DEF NoTx
    <3>4. Progress(sync[s]) => Progress(q)'
      BY <2>2, <3>1, <3>2, <3>3 DEF Progress
    <3> QED
      BY <2>2, <2>3, <3>4, AloneStep
  <2>4. CASE sync[s].next > Len(sync[s].batch) /\ crowded
    BY <2>1, <2>2, <2>4, AloneStep DEF NoSync
  <2>5. CASE sync[s].next > Len(sync[s].batch) /\ ~crowded
    <3>1. /\ sync[s].batch \in Batches /\ Len(sync[s].batch) \in Nat
          /\ sync[s].next - 1 = Len(sync[s].batch)
      <4>1. /\ sync[s].batch \in Batches /\ sync[s].last \in 1..Len(sync[s].batch)
            /\ sync[s].next = sync[s].last + 1
        BY <1>1, <2>2 DEF Placed
      <4>2. Len(sync[s].batch) \in Nat
        BY <4>1, SyncConstants
      <4> QED
        BY <2>5, <4>1, <4>2
    <3>2. Progress(sync[s]) /\ \A t \in Syncing : t = s
      BY <2>2, <2>5 DEF AloneInv, Alone
    <3>3. Holds(sync[s].batch, Len(sync[s].batch), listings', runs')
      BY <2>2, <3>1, <3>2 DEF Progress
    <3>4. Syncing' = {}
      <4>1. q.at = "idle"
        BY <2>1, <2>5 DEF NoSync
      <4>2. /\ sync'[s] = q
            /\ \A t \in Syncs \ {s} : sync'[t] = sync[t]
        BY <2>2 DEF SyncInv, SyncsShaped
      <4> QED
        BY <3>2, <4>1, <4>2 DEF Syncing
    <3> QED
      BY <2>2, <2>5, <3>1, <3>3, <3>4 DEF AloneInv, Alone, Settled
  <2> QED
    BY <2>3, <2>4, <2>5
<1>8. ASSUME NEW s \in Syncing, Rollback(s) PROVE AloneInv'
  BY <1>8, AloneStep DEF Rollback, NoSync
<1>9. CASE UNCHANGED syncVars
  BY <1>9 DEF syncVars, AloneInv, Alone, Settled, Syncing, Progress
<1>10. ASSUME NEW s \in Syncs, Deadlock(s) \/ Interrupt(s) PROVE s \in Syncing /\ Rollback(s)
  BY <1>10 DEF Deadlock, Interrupt, WaitsFor, Syncing
<1> QED
  BY <1>2, <1>3, <1>4, <1>5, <1>6, <1>7, <1>8, <1>9, <1>10 DEF SyncNext

---------------------------------------------------------------------------
(* Reading a list page by page *)

LeastOf(a, b) == IF a < b THEN a ELSE b

(* The first n pages, or all rows if they are fewer.                       *)
First(q, jobs, n) ==
    /\ jobs \subseteq Matching(q)
    /\ Cardinality(jobs) = LeastOf(n * q.limit, Cardinality(Matching(q)))
    /\ \A k \in Matching(q) \ jobs : \A j \in jobs : ~Before(k, j, q)

LEMMA MatchingIsFinite ==
  ASSUME NEW q
  PROVE  /\ Matching(q) \subseteq {k \in Keys : listings[k] # None}
         /\ IsFiniteSet(Matching(q)) /\ Cardinality(Matching(q)) \in Nat
<1>1. Matching(q) \subseteq {k \in Keys : listings[k] # None}
  BY BoardConstants DEF Matching, BookmarksMatch, ApplicationsMatch, Visible, Shown,
     Bookmarked, Tracked
<1>2. IsFiniteSet(Keys)
  BY BoardConstants, FS_Product DEF Keys
<1> QED
  BY <1>1, <1>2, FS_Subset, FS_CardinalityType

(* Where the order is strict, the first n pages are always the same rows.  *)
LEMMA SameFirst ==
  ASSUME NEW q, Strict(q), NEW a, NEW b, a \subseteq Matching(q), b \subseteq Matching(q),
         Cardinality(a) = Cardinality(b),
         \A k \in Matching(q) \ a : \A j \in a : ~Before(k, j, q),
         \A k \in Matching(q) \ b : \A j \in b : ~Before(k, j, q)
  PROVE  a = b
<1>1. IsFiniteSet(a) /\ IsFiniteSet(b)
  BY MatchingIsFinite, FS_Subset
<1>2. CASE a \subseteq b
  BY <1>1, <1>2, FS_Subset
<1>3. CASE b \subseteq a
  BY <1>1, <1>3, FS_Subset
<1>4. ASSUME NEW x \in a \ b, NEW y \in b \ a PROVE FALSE
  BY <1>4 DEF Strict
<1> QED
  BY <1>2, <1>3, <1>4

(* A page goes on where the pages before it ended.                         *)
LEMMA NextPage ==
  ASSUME NEW q \in Queries, NEW page \in Nat \ {0}, Strict(q), NEW jobs,
         First(q, jobs, page - 1), NEW rows \in Pages(q, page)
  PROVE  First(q, jobs \cup rows, page) /\ jobs \cap rows = {}
<1> DEFINE all == Matching(q)
           total == Cardinality(all)
           before == (page - 1) * q.limit
           skip == LeastOf(before, total)
           take == LeastOf(q.limit, total - skip)
<1>1. q.limit \in Nat /\ before \in Nat /\ before + q.limit = page * q.limit
  BY BoardConstants
<1>2. total \in Nat /\ IsFiniteSet(all)
  BY MatchingIsFinite
<1>3. /\ rows \subseteq all /\ Cardinality(rows) = take
      /\ \E skipped \in SUBSET (all \ rows) :
            /\ Cardinality(skipped) = skip
            /\ \A k \in all \ skipped : \A j \in skipped : ~Before(k, j, q)
            /\ \A k \in all \ (skipped \cup rows) : \A j \in rows : ~Before(k, j, q)
  BY DEF Pages, LeastOf
<1>4. /\ jobs \subseteq all /\ Cardinality(jobs) = skip
      /\ \A k \in all \ jobs : \A j \in jobs : ~Before(k, j, q)
  BY DEF First
<1> HIDE DEF all, total, before, skip, take
<1>5. jobs \cap rows = {} /\ \A k \in all \ (jobs \cup rows) : \A j \in rows : ~Before(k, j, q)
  <2>1. PICK skipped \in SUBSET (all \ rows) :
            /\ Cardinality(skipped) = skip
            /\ \A k \in all \ skipped : \A j \in skipped : ~Before(k, j, q)
            /\ \A k \in all \ (skipped \cup rows) : \A j \in rows : ~Before(k, j, q)
    BY <1>3
  <2>2. skipped = jobs
    BY <1>4, <2>1, SameFirst DEF all
  <2> QED
    BY <2>1, <2>2
<1>6. IsFiniteSet(jobs) /\ IsFiniteSet(rows)
  BY <1>2, <1>3, <1>4, FS_Subset
<1>7. Cardinality(jobs \cup rows) = skip + take
  <2>1. /\ Cardinality(jobs \cup rows) =
              Cardinality(jobs) + Cardinality(rows) - Cardinality(jobs \cap rows)
        /\ Cardinality(jobs \cap rows) = 0
    BY <1>5, <1>6, FS_Union, FS_EmptySet
  <2>2. skip \in Int /\ take \in Int
    BY <1>1, <1>2 DEF skip, take, LeastOf
  <2> QED
    BY <1>3, <1>4, <2>1, <2>2
<1>8. skip + take = LeastOf(page * q.limit, total)
  BY <1>1, <1>2 DEF skip, take, LeastOf
<1>9. \A k \in all \ (jobs \cup rows) : \A j \in jobs \cup rows : ~Before(k, j, q)
  BY <1>4, <1>5
<1> QED
  BY <1>3, <1>4, <1>5, <1>7, <1>8, <1>9 DEF First, all, total

(* The last page ends the list.                                            *)
LEMMA LastPage ==
  ASSUME NEW q \in Queries, NEW page \in Nat \ {0}, NEW jobs, First(q, jobs, page),
         ~(page < totalPages(Cardinality(Matching(q)), q.limit))
  PROVE  jobs = Matching(q)
<1> DEFINE total == Cardinality(Matching(q))
<1>1. total \in Nat /\ IsFiniteSet(Matching(q))
  BY MatchingIsFinite
<1>2. q.limit \in 1..100
  BY BoardConstants
<1>3. page * q.limit >= total
  <2>1. PICK n, d, p : n = total /\ d = q.limit /\ p = page
    OBVIOUS
  <2>2. n \in Nat /\ d \in Nat \ {0} /\ p \in Nat /\ ~(p < (n + d - 1) \div d)
    BY <1>1, <1>2, <2>1 DEF totalPages
  <2> HIDE DEF total
  <2>3. p * d >= n
    BY <2>2
  <2> QED
    BY <2>1, <2>3
<1>4. Cardinality(jobs) = total /\ jobs \subseteq Matching(q)
  BY <1>1, <1>2, <1>3 DEF First, LeastOf
<1> QED
  BY <1>1, <1>4, FS_Subset

---------------------------------------------------------------------------
(* The inductive invariant of the lists *)

JobsOf(seen) == {c.job : c \in seen}

(* What a client has read while nothing changed.                           *)
Reads(q, seen, twice, n) ==
    /\ \A c \in seen : /\ c.job \in Matching(q)
                       /\ c.isStale => isJobStale(listings[c.job].data.seen)
    /\ Strict(q) => ~twice /\ First(q, JobsOf(seen), n)

ReaderShaped(x) ==
    x = [at |-> x.at, query |-> x.query, page |-> x.page, seen |-> x.seen,
         twice |-> x.twice, quiet |-> x.quiet, into |-> x.into, job |-> x.job]

Walks == {"rows", "total"}
ReaderOK(x) ==
    /\ ReaderShaped(x)
    /\ x.at \in {"idle", "known", "insert"} \cup Walks
    /\ x.query \in Queries \cup {NoQuery}
    /\ x.job \in Wanted \cup {None}
    /\ x.at \in Walks => x.query \in Queries /\ x.page \in Nat \ {0}
    /\ x.at \in {"known", "insert"} => x.job \in Wanted /\ listings[x.job] # None
    /\ x.quiet /\ x.at = "rows" => Reads(x.query, x.seen, x.twice, x.page - 1)
    /\ x.quiet /\ x.at = "total" => Reads(x.query, x.seen, x.twice, x.page)

ReadersOK ==
    /\ reader = [r \in Readers |-> reader[r]]
    /\ \A r \in Readers : ReaderOK(reader[r])

Owned ==
    /\ clock \in 0..MaxClock
    /\ bookmarks = [k \in Wanted |-> bookmarks[k]]
    /\ applications = [k \in Wanted |-> applications[k]]
    /\ \A k \in Bookmarked \cup Tracked : listings[k] # None
    /\ \A k \in Tracked :
          /\ applications[k] = [status |-> applications[k].status,
                                notes |-> applications[k].notes,
                                at |-> applications[k].at,
                                touched |-> applications[k].touched]
          /\ applications[k].at \in 0..clock
          /\ applications[k].touched \in applications[k].at..clock

BoardInv == Owned /\ ReadersOK /\ SequentialWalk

LEMMA BoardInvInit == BoardInit => BoardInv
<1> SUFFICES ASSUME BoardInit PROVE BoardInv
  OBVIOUS
<1>1. Owned
  BY BoardConstants DEF BoardInit, Owned, Bookmarked, Tracked
<1>2. ReaderOK(NoReader)
  BY DEF ReaderOK, ReaderShaped, NoReader, Walks
<1>3. ReadersOK
  BY <1>2 DEF BoardInit, ReadersOK
<1>4. SequentialWalk
  BY DEF BoardInit, SequentialWalk, NoWalk
<1> QED
  BY <1>1, <1>3, <1>4 DEF BoardInv

(* A walk that ended, of the list as it is. *)
WalkOK(w) ==
    LET q == w.query
        seen == {c.job : c \in w.seen}
    IN q # NoQuery /\ Strict(q) =>
          /\ ~w.twice
          /\ seen = Matching(q)
          /\ \A c \in w.seen : c.isStale => isJobStale(listings[c.job].data.seen)
          /\ q.kind = "jobs" =>
                \A k \in Keys :
                   /\ Visible(k) /\ OtherFilters(k, q)
                   /\ listings[k].data.min # None /\ listings[k].data.max # None
                   => (k \in seen <=> hasSalaryOverlap(listings[k].data, q))

LEMMA WalkEnds ==
  ASSUME NEW q \in Queries, NEW page \in Nat \ {0}, NEW seen, NEW twice,
         Reads(q, seen, twice, page),
         ~(page < totalPages(Cardinality(Matching(q)), q.limit)),
         NEW w, w = [query |-> q, seen |-> seen, twice |-> twice]
  PROVE  WalkOK(w)
<1> SUFFICES ASSUME Strict(q) PROVE WalkOK(w)
  BY DEF WalkOK
<1>1. ~twice /\ First(q, JobsOf(seen), page)
  BY DEF Reads
<1>2. JobsOf(seen) = Matching(q)
  BY <1>1, LastPage
<1>3. ASSUME q.kind = "jobs", NEW k \in Keys, Visible(k), OtherFilters(k, q),
             listings[k].data.min # None, listings[k].data.max # None
      PROVE  k \in Matching(q) <=> hasSalaryOverlap(listings[k].data, q)
  <2>1. k \in Matching(q) <=> SalaryMatches(listings[k].data, q)
    BY <1>3 DEF Matching
  <2>2. SalaryMatches(listings[k].data, q) <=> hasSalaryOverlap(listings[k].data, q)
    BY <1>3 DEF SalaryMatches, SalaryAtLeast, SalaryAtMost, hasSalaryOverlap
  <2> QED
    BY <2>1, <2>2
<1>4. \A c \in seen : c.isStale => isJobStale(listings[c.job].data.seen)
  BY DEF Reads
<1> QED
  BY <1>1, <1>2, <1>3, <1>4 DEF WalkOK, JobsOf

(* Nothing a list shows changes, time may pass.                            *)
ListsStay ==
    /\ UNCHANGED <<listings, bookmarks, applications, created>>
    /\ clock \in Nat /\ clock' \in Nat /\ clock <= clock'

LEMMA SameLists ==
  ASSUME ListsStay, NEW q
  PROVE  /\ Matching(q)' = Matching(q)
         /\ \A a, b : Before(a, b, q)' <=> Before(a, b, q)
<1>1. \A a : Columns(a, q)' = Columns(a, q)
  BY DEF ListsStay, Columns, ApplicationColumns, Desc
<1>2. \A a, b : Before(a, b, q)' <=> Before(a, b, q)
  BY <1>1 DEF Before
<1>3. Matching(q)' = Matching(q)
  BY DEF ListsStay, Matching, BookmarksMatch, ApplicationsMatch, Bookmarked, Tracked,
     Visible, Shown, SalaryMatches, OtherFilters
<1> QED
  BY <1>2, <1>3

LEMMA StaleStays ==
  ASSUME RowsInv, ListsStay, NEW k \in Keys, listings[k] # None,
         isJobStale(listings[k].data.seen)
  PROVE  isJobStale(listings[k].data.seen)'
<1>1. listings[k].data.seen \in Nat /\ StaleAfter \in Nat
  BY BoardConstants DEF RowsInv, TablesOK, Refers
<1> QED
  BY <1>1 DEF ListsStay, isJobStale

LEMMA ReadsStay ==
  ASSUME RowsInv, ListsStay, NEW q, NEW seen, NEW twice, NEW n, Reads(q, seen, twice, n)
  PROVE  Reads(q, seen, twice, n)'
<1>1. Strict(q)' <=> Strict(q)
  BY SameLists DEF Strict
<1>2. First(q, JobsOf(seen), n) => First(q, JobsOf(seen), n)'
  BY SameLists DEF First
<1>3. ASSUME NEW c \in seen
      PROVE  /\ c.job \in Matching(q)'
             /\ c.isStale => isJobStale(listings[c.job].data.seen)'
  <2>1. PICK k : k = c.job
    OBVIOUS
  <2>2. k \in Matching(q) /\ k \in Keys /\ listings[k] # None
    BY <2>1, MatchingIsFinite DEF Reads
  <2> QED
    BY <2>1, <2>2, SameLists, StaleStays DEF Reads
<1> QED
  BY <1>1, <1>2, <1>3 DEF Reads

LEMMA WalkStays ==
  ASSUME RowsInv, ListsStay, NEW w, WalkOK(w) PROVE WalkOK(w)'
<1> SUFFICES ASSUME w.query # NoQuery, Strict(w.query)' PROVE WalkOK(w)'
  BY DEF WalkOK
<1>1. PICK q : q = w.query
  OBVIOUS
<1>2. Strict(q) /\ Matching(q)' = Matching(q)
  BY <1>1, SameLists DEF Strict
<1>3. \A c \in w.seen : c.isStale => isJobStale(listings[c.job].data.seen)'
  <2> SUFFICES ASSUME NEW c \in w.seen, c.isStale
               PROVE  isJobStale(listings[c.job].data.seen)'
    OBVIOUS
  <2>1. PICK k : k = c.job
    OBVIOUS
  <2>2. k \in Matching(q) /\ isJobStale(listings[k].data.seen)
    BY <1>1, <1>2, <2>1 DEF WalkOK
  <2>3. k \in Keys /\ listings[k] # None
    BY <2>2, MatchingIsFinite
  <2> QED
    BY <2>1, <2>2, <2>3, StaleStays
<1>4. \A k : /\ Visible(k)' <=> Visible(k)
             /\ OtherFilters(k, q)' <=> OtherFilters(k, q)
             /\ listings'[k] = listings[k]
  BY DEF ListsStay, Visible, OtherFilters
<1>5. \A k \in Keys : hasSalaryOverlap(listings[k].data, q)' <=> hasSalaryOverlap(listings[k].data, q)
  BY <1>4 DEF hasSalaryOverlap
<1> QED
  BY <1>1, <1>2, <1>3, <1>4, <1>5 DEF WalkOK

LEMMA ReaderStays ==
  ASSUME RowsInv, ListsStay, NEW x, ReaderOK(x) PROVE ReaderOK(x)'
BY ReadsStay DEF ReaderOK, ListsStay

(* Whatever changes the rows ends the quiet and takes no listing away.     *)
LEMMA QuietEnds ==
  ASSUME NEW x, ReaderOK(x), \A k \in Keys : listings[k] # None => listings'[k] # None,
         NEW y, y = [x EXCEPT !.quiet = FALSE]
  PROVE  ReaderOK(y)'
<1>1. /\ y.at = x.at /\ y.query = x.query /\ y.page = x.page /\ y.job = x.job
      /\ y.quiet = FALSE /\ ReaderShaped(y)
  BY DEF ReaderOK, ReaderShaped
<1>2. Wanted \subseteq Keys
  BY BoardConstants
<1> QED
  BY <1>1, <1>2 DEF ReaderOK

LEMMA IdleReader == ReaderOK(NoReader)'
BY DEF ReaderOK, ReaderShaped, NoReader, Walks

(* A step of one client that leaves all rows as they are.                  *)
LEMMA ReaderStep ==
  ASSUME RowsInv, BoardInv, ListsStay, NEW r \in Readers, NEW y,
         reader' = [reader EXCEPT ![r] = y], ReaderOK(y)', UNCHANGED clock,
         walked' = walked \/ WalkOK(walked)'
  PROVE  BoardInv'
<1>1. /\ reader' = [t \in Readers |-> reader'[t]] /\ reader'[r] = y
      /\ \A t \in Readers \ {r} : reader'[t] = reader[t]
  BY DEF BoardInv, ReadersOK
<1>2. ASSUME NEW t \in Readers PROVE ReaderOK(reader[t])'
  <2>1. CASE t = r
    BY <1>1, <2>1
  <2>2. CASE t # r
    <3>1. PICK x : x = reader[t]
      OBVIOUS
    <3>2. ReaderOK(x)'
      BY <3>1, ReaderStays DEF BoardInv, ReadersOK
    <3> QED
      BY <1>1, <2>2, <3>1, <3>2
  <2> QED
    BY <2>1, <2>2
<1>3. Owned'
  BY DEF BoardInv, Owned, ListsStay, Bookmarked, Tracked
<1>4. PICK w : w = walked'
  OBVIOUS
<1>5. WalkOK(w)'
  <2>1. CASE walked' = walked
    BY <1>4, <2>1, WalkStays DEF BoardInv, SequentialWalk, WalkOK
  <2>2. CASE WalkOK(walked)'
    BY <1>4, <2>2
  <2> QED
    BY <2>1, <2>2
<1>6. SequentialWalk'
  BY <1>4, <1>5 DEF SequentialWalk, WalkOK
<1> QED
  BY <1>1, <1>2, <1>3, <1>6 DEF BoardInv, ReadersOK

(* A step of the rest of the system that no walk sees. *)
LEMMA TimeStep ==
  ASSUME RowsInv, BoardInv, ListsStay, clock' \in 0..MaxClock, UNCHANGED <<reader, walked>>
  PROVE  BoardInv'
<1>1. ASSUME NEW t \in Readers PROVE ReaderOK(reader[t])'
  <2>1. PICK x : x = reader[t]
    OBVIOUS
  <2>2. ReaderOK(x)'
    BY <2>1, ReaderStays DEF BoardInv, ReadersOK
  <2> QED
    BY <2>1, <2>2
<1>2. Owned'
  <2>1. Bookmarked' = Bookmarked /\ Tracked' = Tracked
    BY DEF ListsStay, Bookmarked, Tracked
  <2>2. 0..clock \subseteq 0..clock'
    BY DEF ListsStay
  <2>3. \A a \in 0..clock : a..clock \subseteq a..clock'
    BY DEF ListsStay
  <2> QED
    BY <2>1, <2>2, <2>3 DEF BoardInv, Owned, ListsStay
<1>3. PICK w : w = walked
  OBVIOUS
<1>4. WalkOK(w)'
  BY <1>3, WalkStays DEF BoardInv, SequentialWalk, WalkOK
<1>5. SequentialWalk'
  BY <1>3, <1>4 DEF SequentialWalk, WalkOK
<1> QED
  BY <1>1, <1>2, <1>5 DEF BoardInv, ReadersOK

(* A step that changes what lists show; one client may be done by it.      *)
LEMMA DisturbStep ==
  ASSUME BoardInv, \A k \in Keys : listings[k] # None => listings'[k] # None,
         reader' = [t \in Readers |-> reader'[t]],
         \A t \in Readers : \/ reader'[t] = [reader[t] EXCEPT !.quiet = FALSE]
                            \/ reader'[t] = NoReader,
         walked' = NoWalk, Owned'
  PROVE  BoardInv'
<1>1. ASSUME NEW t \in Readers PROVE ReaderOK(reader[t])'
  <2>1. PICK x, y : x = reader[t] /\ y = reader'[t]
    OBVIOUS
  <2>2. ReaderOK(x)
    BY <2>1 DEF BoardInv, ReadersOK
  <2>3. ReaderOK(y)'
    <3>1. CASE y = [x EXCEPT !.quiet = FALSE]
      BY <2>2, <3>1, QuietEnds
    <3>2. CASE y = NoReader
      BY <3>2, IdleReader
    <3> QED
      BY <2>1, <3>1, <3>2
  <2> QED
    BY <2>1, <2>3
<1>2. SequentialWalk'
  BY DEF SequentialWalk, NoWalk
<1> QED
  BY <1>1, <1>2 DEF BoardInv, ReadersOK

(* A commit takes no listing away.                                         *)
LEMMA ListingsStay ==
  ASSUME SyncInv, RowsInv, NEW s \in Syncs, CommitChunk(s)
  PROVE  \A k \in Keys : listings[k] # None => listings'[k] # None
<1>1. /\ listings' = Over(listings, sync[s].tx.rows) /\ TxOK(sync[s])
      /\ DOMAIN listings = Keys
  BY DEF CommitChunk, RowsInv, TablesOK
<1> QED
  BY <1>1 DEF Over, TxOK

LEMMA BoardStep == SyncInv /\ RowsInv /\ BoardInv /\ [Next]_vars => BoardInv'
<1> SUFFICES ASSUME SyncInv, RowsInv, BoardInv, [Next]_vars PROVE BoardInv'
  OBVIOUS
<1>1. /\ Owned /\ clock \in Nat /\ clock \in 0..MaxClock /\ MaxClock \in Nat
      /\ reader = [r \in Readers |-> reader[r]]
      /\ \A r \in Readers : ReaderOK(reader[r]) /\ ReaderShaped(reader[r])
      /\ Wanted \subseteq Keys
  BY BoardConstants DEF BoardInv, Owned, ReadersOK, ReaderOK
<1>2. CASE Sync
  <2>1. UNCHANGED boardVars /\ UNCHANGED listings
    BY <1>2 DEF Sync, SyncScraperJobs, EnsureSkillMap, UpsertPlatform, FindCompany,
       WriteJob, Deadlock, Interrupt, Rollback
  <2>2. ListsStay
    BY <1>1, <2>1 DEF boardVars, ListsStay
  <2> QED
    BY <1>1, <2>1, <2>2, TimeStep DEF boardVars
<1>3. ASSUME NEW s \in Syncs, Commit(s) PROVE BoardInv'
  <2>1. \A k \in Keys : listings[k] # None => listings'[k] # None
    BY <1>3, ListingsStay DEF Commit
  <2>2. /\ UNCHANGED <<clock, bookmarks, applications>> /\ walked' = NoWalk
        /\ reader' = [t \in Readers |-> [reader[t] EXCEPT !.quiet = FALSE]]
    BY <1>3 DEF Commit, Disturb
  <2>3. Owned'
    BY <1>1, <2>1, <2>2 DEF Owned, Bookmarked, Tracked
  <2> QED
    BY <2>1, <2>2, <2>3, DisturbStep
<1>4. ASSUME NEW r \in Readers, NEW query \in Queries, StartWalk(r, query) PROVE BoardInv'
  <2>1. PICK y : y = [NoReader EXCEPT !.at = "rows", !.query = query, !.quiet = TRUE]
    OBVIOUS
  <2>2. /\ y.at = "rows" /\ y.query = query /\ y.page = 1 /\ y.seen = {} /\ y.twice = FALSE
        /\ y.job = None /\ ReaderShaped(y)
    BY <2>1 DEF NoReader, ReaderShaped
  <2>3. ListsStay /\ UNCHANGED <<clock, walked>> /\ reader' = [reader EXCEPT ![r] = y]
    BY <1>1, <1>4, <2>1 DEF StartWalk, ListsStay, syncVars
  <2>4. Reads(y.query, y.seen, y.twice, y.page - 1)
    <3>1. JobsOf({}) = {} /\ Cardinality({}) = 0
      BY FS_EmptySet DEF JobsOf
    <3>2. LeastOf(0 * query.limit, Cardinality(Matching(query))) = 0
      <4>1. query.limit \in Nat /\ Cardinality(Matching(query)) \in Nat
        BY BoardConstants, MatchingIsFinite
      <4> QED
        BY <4>1 DEF LeastOf
    <3>3. y.page - 1 = 0 /\ ~y.twice
      BY <2>2
    <3>4. First(y.query, JobsOf(y.seen), y.page - 1)
      BY <2>2, <3>1, <3>2, <3>3 DEF First
    <3> QED
      BY <2>2, <3>3, <3>4 DEF Reads
  <2>5. ReaderOK(y)
    BY <2>2, <2>4 DEF ReaderOK, Walks
  <2> QED
    BY <2>3, <2>5, ReaderStays, ReaderStep
<1>5. ASSUME NEW r \in Readers, FindRows(r) PROVE BoardInv'
  <2>1. PICK x : x = reader[r]
    OBVIOUS
  <2>2. /\ ReaderOK(x) /\ ReaderShaped(x) /\ x.at = "rows" /\ x.query \in Queries
        /\ x.page \in Nat \ {0}
    BY <1>1, <1>5, <2>1 DEF FindRows, ReaderOK, Walks
  <2>3. PICK rows \in Pages(x.query, x.page) :
           reader' = [reader EXCEPT ![r] =
             [x EXCEPT !.at = "total",
                       !.twice = x.twice \/ \E c \in x.seen : c.job \in rows,
                       !.seen = x.seen \cup {serializeJobCard(k) : k \in rows}]]
    <3>1. \E rows \in Pages(reader[r].query, reader[r].page) :
             reader' = [reader EXCEPT ![r] =
               [reader[r] EXCEPT
                  !.at = "total",
                  !.twice = reader[r].twice \/ \E c \in reader[r].seen : c.job \in rows,
                  !.seen = reader[r].seen \cup {serializeJobCard(k) : k \in rows}]]
      BY <1>5, Zenon DEF FindRows
    <3> QED
      BY <2>1, <3>1, Zenon
  <2>4. PICK q, seen, twice, cards, both :
           /\ q = x.query /\ seen = x.seen /\ twice = x.twice
           /\ cards = seen \cup {serializeJobCard(k) : k \in rows}
           /\ both = (twice \/ \E c \in seen : c.job \in rows)
    OBVIOUS
  <2>5. PICK y : y = [x EXCEPT !.at = "total", !.twice = both, !.seen = cards]
    OBVIOUS
  <2>6. /\ y.at = "total" /\ y.query = q /\ y.page = x.page /\ y.job = x.job
        /\ y.quiet = x.quiet /\ y.seen = cards /\ y.twice = both /\ ReaderShaped(y)
    BY <2>2, <2>4, <2>5 DEF ReaderShaped
  <2>7. reader' = [reader EXCEPT ![r] = y]
    BY <2>3, <2>4, <2>5
  <2>8. ASSUME x.quiet PROVE Reads(q, cards, both, x.page)
    <3>1. Reads(q, seen, twice, x.page - 1) /\ q \in Queries
      BY <2>2, <2>4, <2>8 DEF ReaderOK
    <3>2. rows \subseteq Matching(q)
      BY <2>4 DEF Pages
    <3>3. JobsOf(cards) = JobsOf(seen) \cup rows
      <4>1. \A k : serializeJobCard(k).job = k
        BY DEF serializeJobCard
      <4>2. \A c : c \in cards <=> c \in seen \/ \E k \in rows : c = serializeJobCard(k)
        BY <2>4
      <4>3. ASSUME NEW j PROVE j \in JobsOf(cards) <=> j \in JobsOf(seen) \/ j \in rows
        BY <4>1, <4>2 DEF JobsOf
      <4> QED
        BY <4>3
    <3>4. \A c \in cards : /\ c.job \in Matching(q)
                           /\ c.isStale => isJobStale(listings[c.job].data.seen)
      <4>1. \A k \in rows : /\ serializeJobCard(k).job = k
                            /\ serializeJobCard(k).isStale = isJobStale(listings[k].data.seen)
        BY DEF serializeJobCard
      <4> QED
        BY <2>4, <3>1, <3>2, <4>1 DEF Reads
    <3>5. ASSUME Strict(q) PROVE ~both /\ First(q, JobsOf(cards), x.page)
      <4>1. ~twice /\ First(q, JobsOf(seen), x.page - 1)
        BY <3>1, <3>5 DEF Reads
      <4>2. First(q, JobsOf(seen) \cup rows, x.page) /\ JobsOf(seen) \cap rows = {}
        BY <2>2, <2>4, <3>1, <3>5, <4>1, NextPage
      <4>3. ~ \E c \in seen : c.job \in rows
        BY <4>2 DEF JobsOf
      <4> QED
        BY <2>4, <3>3, <4>1, <4>2, <4>3
    <3> QED
      BY <3>4, <3>5 DEF Reads
  <2>9. ReaderOK(y)
    BY <2>2, <2>4, <2>6, <2>8 DEF ReaderOK, Walks
  <2>10. ListsStay /\ UNCHANGED <<clock, walked>>
    BY <1>1, <1>5 DEF FindRows, ListsStay, syncVars
  <2> QED
    BY <2>7, <2>9, <2>10, ReaderStays, ReaderStep
<1>6. ASSUME NEW r \in Readers, CountRows(r) PROVE BoardInv'
  <2>1. PICK x, q, page : x = reader[r] /\ q = x.query /\ page = x.page
    OBVIOUS
  <2>2. /\ ReaderOK(x) /\ ReaderShaped(x) /\ x.at = "total" /\ q \in Queries
        /\ page \in Nat \ {0}
    BY <1>1, <1>6, <2>1 DEF CountRows, ReaderOK, Walks
  <2>3. ListsStay /\ UNCHANGED clock
    BY <1>1, <1>6 DEF CountRows, ListsStay, syncVars
  <2>4. CASE page < totalPages(Cardinality(Matching(q)), q.limit)
    <3>1. PICK y : y = [x EXCEPT !.at = "rows", !.page = page + 1]
      OBVIOUS
    <3>2. reader' = [reader EXCEPT ![r] = y] /\ walked' = walked
      <4>1. /\ reader' = [reader EXCEPT ![r] = [reader[r] EXCEPT
                             !.at = "rows", !.page = reader[r].page + 1]]
            /\ walked' = walked
        BY <1>6, <2>1, <2>4 DEF CountRows
      <4> QED
        BY <2>1, <3>1, <4>1
    <3>3. /\ y.at = "rows" /\ y.query = q /\ y.page = page + 1 /\ y.job = x.job
          /\ y.quiet = x.quiet /\ y.seen = x.seen /\ y.twice = x.twice /\ ReaderShaped(y)
      BY <2>1, <2>2, <3>1 DEF ReaderShaped
    <3>4. page + 1 \in Nat \ {0} /\ page + 1 - 1 = page
      BY <2>2
    <3>5. ReaderOK(y)
      BY <2>1, <2>2, <3>3, <3>4 DEF ReaderOK, Walks
    <3> QED
      BY <2>3, <3>2, <3>5, ReaderStays, ReaderStep
  <2>5. CASE ~(page < totalPages(Cardinality(Matching(q)), q.limit))
    <3>1. /\ reader' = [reader EXCEPT ![r] = NoReader]
          /\ walked' = IF x.quiet THEN [query |-> q, seen |-> x.seen, twice |-> x.twice]
                       ELSE NoWalk
      BY <1>6, <2>1, <2>5 DEF CountRows
    <3>2. PICK w : w = walked'
      OBVIOUS
    <3>3. CASE x.quiet
      <4>1. Reads(q, x.seen, x.twice, page)
        BY <2>1, <2>2, <3>3 DEF ReaderOK
      <4>2. WalkOK(w)
        BY <2>2, <2>5, <3>1, <3>2, <3>3, <4>1, WalkEnds
      <4>3. WalkOK(w)'
        BY <2>3, <4>2, WalkStays
      <4> QED
        BY <2>3, <3>1, <3>2, <4>3, IdleReader, ReaderStep
    <3>4. CASE ~x.quiet
      <4>1. WalkOK(w)'
        BY <3>1, <3>2, <3>4 DEF WalkOK, NoWalk
      <4> QED
        BY <2>3, <3>1, <3>2, <4>1, IdleReader, ReaderStep
    <3> QED
      BY <3>3, <3>4
  <2> QED
    BY <2>4, <2>5
<1>7. ASSUME NEW r \in Readers, NEW k \in Wanted, SaveBookmark(r, k) \/ CreateApplication(r, k)
      PROVE  BoardInv'
  <2>1. PICK into \in {"bookmarks", "applications"} :
           reader' = [reader EXCEPT ![r] =
              [NoReader EXCEPT !.at = "known", !.into = into, !.job = k]]
    BY <1>7 DEF SaveBookmark, CreateApplication
  <2>2. PICK y : y = [NoReader EXCEPT !.at = "known", !.into = into, !.job = k]
    OBVIOUS
  <2>3. /\ y.at = "known" /\ y.query = NoQuery /\ y.job = k /\ ReaderShaped(y)
    BY <2>2 DEF NoReader, ReaderShaped
  <2>4. listings[k] # None
    BY <1>7 DEF SaveBookmark, CreateApplication, Visible, Shown
  <2>5. ReaderOK(y)
    BY <2>3, <2>4 DEF ReaderOK, Walks
  <2>6. ListsStay /\ UNCHANGED <<clock, walked>>
    BY <1>1, <1>7 DEF SaveBookmark, CreateApplication, ListsStay, syncVars
  <2> QED
    BY <2>1, <2>2, <2>5, <2>6, ReaderStays, ReaderStep
<1>8. ASSUME NEW r \in Readers, FindByUserAndJob(r) PROVE BoardInv'
  <2>1. PICK x : x = reader[r]
    OBVIOUS
  <2>2. ReaderOK(x) /\ ReaderShaped(x) /\ x.at = "known"
    BY <1>1, <1>8, <2>1 DEF FindByUserAndJob
  <2>3. PICK y : y = IF x.job \in Known(x.into) THEN NoReader ELSE [x EXCEPT !.at = "insert"]
    OBVIOUS
  <2>4. reader' = [reader EXCEPT ![r] = y]
    BY <1>8, <2>1, <2>3 DEF FindByUserAndJob
  <2>5. ListsStay /\ UNCHANGED <<clock, walked>>
    BY <1>1, <1>8 DEF FindByUserAndJob, ListsStay, syncVars
  <2>6. CASE y = NoReader
    BY <2>4, <2>5, <2>6, IdleReader, ReaderStep
  <2>7. CASE y = [x EXCEPT !.at = "insert"]
    <3>1. y.at = "insert" /\ y.query = x.query /\ y.job = x.job /\ ReaderShaped(y)
      BY <2>2, <2>7 DEF ReaderShaped
    <3>2. ReaderOK(y)
      BY <2>2, <3>1 DEF ReaderOK, Walks
    <3> QED
      BY <2>4, <2>5, <3>2, ReaderStays, ReaderStep
  <2> QED
    BY <2>3, <2>6, <2>7
<1>9. ASSUME NEW r \in Readers, CreateForUser(r) PROVE BoardInv'
  <2>1. PICK k, into : k = reader[r].job /\ into = reader[r].into
    OBVIOUS
  <2>2. k \in Wanted /\ listings[k] # None
    BY <1>1, <1>9, <2>1 DEF CreateForUser, ReaderOK
  <2>3. /\ reader' = [t \in Readers |-> IF t = r THEN NoReader
                                        ELSE [reader[t] EXCEPT !.quiet = FALSE]]
        /\ bookmarks' = IF into = "bookmarks" /\ bookmarks[k] = None
                        THEN [bookmarks EXCEPT ![k] = Created(into)] ELSE bookmarks
        /\ applications' = IF into = "applications" /\ applications[k] = None
                           THEN [applications EXCEPT ![k] = Created(into)] ELSE applications
        /\ walked' = NoWalk /\ UNCHANGED <<clock, listings>>
    BY <1>9, <2>1 DEF CreateForUser, syncVars
  <2>4. Owned'
    <3>1. /\ bookmarks' = [j \in Wanted |-> bookmarks'[j]]
          /\ applications' = [j \in Wanted |-> applications'[j]]
          /\ \A j \in Wanted \ {k} : /\ bookmarks'[j] = bookmarks[j]
                                     /\ applications'[j] = applications[j]
          /\ \/ applications'[k] = applications[k]
             \/ applications'[k] = [status |-> "APPLIED", notes |-> {}, at |-> clock,
                                    touched |-> clock]
      BY <1>1, <2>2, <2>3 DEF Owned, Created
    <3>2. (Bookmarked \cup Tracked)' \subseteq Bookmarked \cup Tracked \cup {k}
      BY <3>1 DEF Bookmarked, Tracked
    <3>3. \A j \in (Bookmarked \cup Tracked)' : listings'[j] # None
      BY <1>1, <2>2, <2>3, <3>2 DEF Owned
    <3>4. ASSUME NEW j \in Tracked'
          PROVE  /\ applications'[j] = [status |-> applications'[j].status,
                                notes |-> applications'[j].notes,
                                at |-> applications'[j].at,
                                touched |-> applications'[j].touched]
                 /\ applications'[j].at \in 0..clock
                 /\ applications'[j].touched \in applications'[j].at..clock
      <4>1. CASE applications'[j] = applications[j]
        BY <1>1, <3>4, <4>1 DEF Owned, Tracked
      <4>2. CASE applications'[j] = [status |-> "APPLIED", notes |-> {}, at |-> clock,
                                     touched |-> clock]
        BY <1>1, <4>2
      <4> QED
        BY <3>1, <3>4, <4>1, <4>2 DEF Tracked
    <3> QED
      BY <1>1, <2>3, <3>1, <3>3, <3>4 DEF Owned
  <2> QED
    BY <2>3, <2>4, DisturbStep
<1>10. ASSUME NEW k \in Wanted, DeleteBookmark(k) PROVE BoardInv'
  <2>1. /\ bookmarks' = [bookmarks EXCEPT ![k] = None]
        /\ UNCHANGED <<clock, applications, listings>> /\ walked' = NoWalk
        /\ reader' = [t \in Readers |-> [reader[t] EXCEPT !.quiet = FALSE]]
    BY <1>10 DEF DeleteBookmark, Disturb, syncVars
  <2>2. /\ bookmarks' = [j \in Wanted |-> bookmarks'[j]]
        /\ Bookmarked' \subseteq Bookmarked /\ Tracked' = Tracked
    BY <1>1, <2>1 DEF Owned, Bookmarked, Tracked
  <2>3. Owned'
    BY <1>1, <2>1, <2>2 DEF Owned
  <2> QED
    BY <2>1, <2>3, DisturbStep
<1>11. ASSUME NEW k \in Wanted, NEW edit \in Edits, UpdateForUser(k, edit) PROVE BoardInv'
  <2>1. PICK row : row = applications[k]
    OBVIOUS
  <2>2. /\ k \in Tracked /\ UNCHANGED <<clock, bookmarks, listings>> /\ walked' = NoWalk
        /\ reader' = [t \in Readers |-> [reader[t] EXCEPT !.quiet = FALSE]]
        /\ \E status, notes : applications' = [applications EXCEPT ![k] =
              [row EXCEPT !.status = status, !.notes = notes, !.touched = clock]]
    BY <1>11, <2>1 DEF UpdateForUser, Disturb, syncVars
  <2>3. PICK status, notes : applications' = [applications EXCEPT ![k] =
              [row EXCEPT !.status = status, !.notes = notes, !.touched = clock]]
    BY <2>2
  <2>4. /\ row = [status |-> row.status, notes |-> row.notes, at |-> row.at,
                  touched |-> row.touched]
        /\ row.at \in 0..clock
    BY <1>1, <2>1, <2>2 DEF Owned
  <2>5. PICK new : new = [row EXCEPT !.status = status, !.notes = notes, !.touched = clock]
    OBVIOUS
  <2>6. /\ new.at = row.at /\ new.touched = clock
        /\ new = [status |-> new.status, notes |-> new.notes, at |-> new.at,
                  touched |-> new.touched]
    BY <2>4, <2>5
  <2>7. applications' = [applications EXCEPT ![k] = new]
    BY <2>3, <2>5
  <2>8. /\ applications' = [j \in Wanted |-> applications'[j]] /\ applications'[k] = new
        /\ \A j \in Wanted \ {k} : applications'[j] = applications[j]
    BY <1>1, <2>2, <2>7 DEF Owned, Tracked
  <2>9. Bookmarked' = Bookmarked /\ Tracked' \subseteq Tracked
    BY <2>2, <2>8 DEF Bookmarked, Tracked
  <2>10. ASSUME NEW j \in Tracked'
         PROVE  /\ applications'[j] = [status |-> applications'[j].status,
                                notes |-> applications'[j].notes,
                                at |-> applications'[j].at,
                                touched |-> applications'[j].touched]
                /\ applications'[j].at \in 0..clock
                /\ applications'[j].touched \in applications'[j].at..clock
    <3>1. CASE j = k
      BY <1>1, <2>4, <2>6, <2>8, <3>1
    <3>2. CASE j # k
      BY <1>1, <2>8, <2>9, <3>2 DEF Owned, Tracked
    <3> QED
      BY <3>1, <3>2
  <2>11. Owned'
    BY <1>1, <2>2, <2>8, <2>9, <2>10 DEF Owned
  <2> QED
    BY <2>2, <2>11, DisturbStep
<1>12. CASE Tick
  <2>1. ListsStay /\ clock' \in 0..MaxClock /\ UNCHANGED <<reader, walked>>
    BY <1>1, <1>12 DEF Tick, ListsStay, syncVars
  <2> QED
    BY <2>1, TimeStep
<1>13. CASE UNCHANGED vars
  <2>1. ListsStay /\ UNCHANGED <<clock, reader, walked>>
    BY <1>1, <1>13 DEF vars, boardVars, syncVars, ListsStay
  <2> QED
    BY <1>1, <2>1, TimeStep
<1> QED
  BY <1>2, <1>3, <1>4, <1>5, <1>6, <1>7, <1>8, <1>9, <1>10, <1>11, <1>12, <1>13 DEF Next

---------------------------------------------------------------------------
(* The theorems *)

(* Beside the lists the scraper's sync behaves as it does alone: what users *)
(* do leaves its state as it is.                                           *)
THEOREM BoardSyncs == Spec => SyncSpec
<1>1. Init => SyncInit
  BY DEF Init
<1>2. [Next]_vars => [SyncNext]_syncVars
  BY DEF Next, vars, syncVars, Sync, SyncNext, Commit, StartWalk, FindRows, CountRows,
     SaveBookmark, CreateApplication, FindByUserAndJob, CreateForUser, DeleteBookmark,
     UpdateForUser, Tick
<1> QED
  BY <1>1, <1>2, PTL DEF Spec, SyncSpec

(* Of all batches stored at once and however they fail, none brings a      *)
(* company in twice from one platform: find and create are two statements, *)
(* but the transaction holds the row of the platform from before the first *)
(* to its commit.                                                          *)
THEOREM CompaniesAreUnique == Spec => []OneCompanyPerPlatform
<1>1. SyncInv => OneCompanyPerPlatform
  BY DEF SyncInv, SyncsShaped, OneCompanyPerPlatform
<1>2. SyncSpec => []SyncInv
  BY SyncInvInit, SyncStep, PTL DEF SyncSpec
<1> QED
  BY <1>1, <1>2, BoardSyncs, PTL

(* In every reachable state the transactions hold what they wrote, a sync  *)
(* that is alone has stored the jobs it is through with, and what a client *)
(* has read in quiet is the beginning of its list.                         *)
THEOREM Inductive == Spec => [](SyncInv /\ RowsInv /\ AloneInv /\ BoardInv)
<1>1. Init => SyncInv /\ RowsInv /\ AloneInv /\ BoardInv
  BY SyncInvInit, RowsInvInit, AloneInvInit, BoardInvInit DEF Init
<1>2. [Next]_vars => [SyncNext]_syncVars
  BY DEF Next, vars, syncVars, Sync, SyncNext, Commit, StartWalk, FindRows, CountRows,
     SaveBookmark, CreateApplication, FindByUserAndJob, CreateForUser, DeleteBookmark,
     UpdateForUser, Tick
<1>3. /\ SyncInv /\ RowsInv /\ AloneInv /\ BoardInv
      /\ [Next]_vars
      => (SyncInv /\ RowsInv /\ AloneInv /\ BoardInv)'
  BY <1>2, SyncStep, RowsStep, AloneInvStep, BoardStep
<1> QED
  BY <1>1, <1>3, PTL DEF Spec

(* What is stored refers to what is stored: a listing to its skills, its   *)
(* run and its company, a bookmark and an application to their listing,    *)
(* though they are written by transactions that overlap and roll back.     *)
THEOREM TypeCorrect == Spec => []TypeOK
<1>1. SyncInv /\ RowsInv => SyncTypeOK
  <2> SUFFICES ASSUME SyncInv, RowsInv PROVE SyncTypeOK
    OBVIOUS
  <2>1. catalog \subseteq Slugs /\ sent \in 0..MaxBatches /\ faults \in 0..MaxFaults
    BY DEF SyncInv, SyncsShaped, RowsInv, TablesOK
  <2>2. \A k \in Keys : listings[k] # None =>
          /\ listings[k].skills \subseteq catalog
          /\ listings[k].run # None => runs[listings[k].run] # None
          /\ LET c == listings[k].company IN c[3] <= companies[c[1]][c[2]]
    BY DEF RowsInv, TablesOK, Refers, CountedRuns, StoredCompanies
  <2>3. ASSUME NEW s \in Syncs
        PROVE  /\ sync[s].at \in {"idle", "chunk", "platform", "company", "write", "commit"}
               /\ sync[s].next \in 1..(Len(sync[s].batch) + 1)
               /\ sync[s].company \in CompanyRows \cup {None}
    <3>1. Placed(sync[s]) /\ TxOK(sync[s]) /\ CreatedFirst(s) /\ PlatformHeld(s)
      BY DEF SyncInv, RowsInv
    <3>2. sync[s].next \in 1..(Len(sync[s].batch) + 1)
      <4>1. CASE sync[s].at = "idle"
        BY <3>1, <4>1 DEF TxOK, NoSync
      <4>2. CASE sync[s].at # "idle"
        <5>1. sync[s].batch \in Batches /\ Len(sync[s].batch) \in Nat
          BY <3>1, <4>2, SyncConstants DEF Placed
        <5> QED
          BY <3>1, <4>2, <5>1 DEF Placed
      <4> QED
        BY <4>1, <4>2
    <3>3. ASSUME sync[s].company # None PROVE sync[s].company \in CompanyRows
      <4>1. sync[s].at = "write" /\ sync[s].company \in StoredCompanies \cup sync[s].tx.created
        BY <3>1, <3>3 DEF TxOK
      <4>2. sent # 0 /\ sent \in 0..MaxBatches /\ MaxBatches \in Nat
        BY <3>1, <4>1, SyncConstants DEF Placed, SyncInv, SyncsShaped
      <4>3. 1 \in 1..MaxBatches
        BY <4>2
      <4>4. sync[s].tx.created \subseteq CompanyRows
        BY <3>1, <4>3 DEF CreatedFirst, PlatformHeld, CompanyRows
      <4> QED
        BY <4>1, <4>4 DEF StoredCompanies
    <3> QED
      BY <3>1, <3>2, <3>3 DEF Placed
  <2> QED
    BY <2>1, <2>2, <2>3 DEF SyncTypeOK
<1>2. SyncInv /\ RowsInv /\ BoardInv => TypeOK
  BY <1>1 DEF BoardInv, Owned, ReadersOK, ReaderOK, Walks, TypeOK
<1> QED
  BY <1>2, Inductive, PTL

(* A batch that no other sync overlapped ends with the last job of every   *)
(* key stored whole and with the count of the batch in its runs, whatever  *)
(* the chunk size and whatever batches broke off before it.                *)
THEOREM AloneIsComplete == Spec => []SequentialSync
<1>1. AloneInv => SequentialSync
  <2> SUFFICES ASSUME AloneInv, NEW i \in DOMAIN settled
               PROVE  LET job == settled[i]
                          row == listings[KeyOf(job)]
                          id == ingestionRunId(job)
                      IN
                      /\ (\A j \in DOMAIN settled : KeyOf(settled[j]) = KeyOf(job) => j <= i) =>
                            /\ row # None
                            /\ row.data = job.data
                            /\ row.skills = SkillsOf(job)
                            /\ row.company[1] = normalizeSlug(job.company)
                            /\ row.run = id
                      /\ id # None => runs[id] = Cardinality({j \in DOMAIN settled :
                                                 ingestionRunId(settled[j]) = id})
    BY DEF SequentialSync
  <2>1. settled # << >>
    OBVIOUS
  <2>2. settled \in Batches /\ Holds(settled, Len(settled), listings, runs)
    BY <2>1 DEF AloneInv, Settled
  <2>3. DOMAIN settled = 1..Len(settled)
    BY <2>2, SyncConstants
  <2> QED
    BY <2>2, <2>3 DEF Holds, Matches, countJobsByIngestionRun
<1> QED
  BY <1>1, Inductive, PTL

(* Pages are cut by offset from statements that order ties as they like;   *)
(* where the order is strict a list read to its end while nothing changes  *)
(* has shown each row once, for any limit and number of rows.              *)
THEOREM WalksAreComplete == Spec => []SequentialWalk
BY Inductive, PTL DEF BoardInv

===========================================================================
