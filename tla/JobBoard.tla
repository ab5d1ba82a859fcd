------------------------------ MODULE JobBoard ------------------------------
(***************************************************************************)
(* What users do with the synced listings: search them page by page        *)
(* (jobs), save them (bookmarks) and track them (applications), while      *)
(* batches are being stored.                                               *)
(*                                                                         *)
(* A page is two statements, the rows and their total.  A listing's texts  *)
(* are the words in them; the exact filters (place, work type, level,      *)
(* category; the status of an application) are one facet.  The history of  *)
(* an application is the subject of ApplicationTracker.                    *)
(***************************************************************************)
EXTENDS Integers, ScraperSync

CONSTANTS Queries,     \* what clients ask: jobs, bookmarks or applications
          Edits,       \* what they write to an application: [status, notes]
          Readers,     \* slots of concurrently running walks and saves
          Walkers,     \* the slots of Readers that walk lists
          Wanted,      \* the jobs the user saves or tracks
          MaxClock, StaleAfter,
          MaxSaved     \* bound on the bookmarks and applications together

ASSUME BoardConstants ==
    /\ Walkers \subseteq Readers
    /\ MaxClock \in Nat /\ StaleAfter \in Nat /\ MaxSaved \in Nat
    /\ Wanted \subseteq Keys
    /\ IsFiniteSet(Slugs) /\ IsFiniteSet(Externals)
    /\ \A b \in Batches : \A i \in DOMAIN b : b[i].data.seen \in Nat
    /\ \A q \in Queries : /\ q.kind \in {"jobs", "bookmarks", "applications"}
                          /\ q.limit \in 1..100
                          \* updates of listings are not modelled, so neither
                          \* is the order of bookmarks by them
                          /\ q.kind = "bookmarks" => q.sort # "updated_desc"
    /\ \A e \in Edits : e.status # None \/ e.notes # None

VARIABLES clock,
          created,     \* [Keys -> Nat], createdAt of the listings
          bookmarks,   \* [Wanted -> [at] \cup {None}], of one user
          applications,\* [Wanted -> [status, notes, at, touched] \cup {None}]
          reader,      \* [Readers -> Reader]
          walked       \* the last walk that ended, until something changes

boardVars == <<clock, created, bookmarks, applications, reader, walked>>
vars == <<catalog, companies, runs, listings, sync, crowded, settled, sent,
          faults, clock, created, bookmarks, applications, reader, walked>>

visibleJobListStatuses == {"ACTIVE", "STALE"}
Visible(k) == listings[k] # None /\ listings[k].data.status \in visibleJobListStatuses
Shown(k) == listings[k] # None /\ listings[k].data.status # "HIDDEN"
Bookmarked == {k \in Wanted : bookmarks[k] # None}
Tracked == {k \in Wanted : applications[k] # None}

isJobStale(lastSeenAt) == clock > lastSeenAt + StaleAfter

(* The filters of the query, which a null column never satisfies, but for  *)
(* the null salaries named in the condition.                               *)
SalaryAtLeast(d, q) == (d.max # None /\ d.max >= q) \/ d.min = None
SalaryAtMost(d, q) == (d.min # None /\ d.min <= q) \/ d.max = None

(* Regression: the salary filter is not applied. *)
AnySalary(d, query) ==
    \/ query.min # None /\ SalaryAtLeast(d, query.min)
    \/ query.max # None /\ SalaryAtMost(d, query.max)
    \/ query.min = None /\ query.max = None

SalaryMatches(d, query) ==
    /\ query.min # None => SalaryAtLeast(d, query.min)
    /\ query.max # None => SalaryAtMost(d, query.max)

(* The filter of the jobs mapper, which tests use in place of the query.   *)
hasSalaryOverlap(d, query) ==
    LET low == IF d.min # None THEN d.min ELSE d.max
        high == IF d.max # None THEN d.max ELSE d.min
    IN \/ query.min = None /\ query.max = None
       \/ /\ d.min # None \/ d.max # None
          /\ query.min # None => high >= query.min
          /\ query.max # None => low <= query.max

OtherFilters(k, query) ==
    /\ query.keyword # None => query.keyword \in listings[k].data.words
    /\ query.facet # None => listings[k].data.facet = query.facet
    /\ query.platform # None => k[1] = query.platform
    /\ query.skill # None => query.skill \in listings[k].skills

BookmarksMatch(query) ==
    {k \in Bookmarked : /\ Shown(k)
                        /\ query.keyword # None =>
                              query.keyword \in listings[k].data.words}

ApplicationsMatch(query) ==
    {k \in Tracked : /\ Shown(k)
                     /\ query.facet # None => applications[k].status = query.facet
                     /\ query.keyword # None =>
                           query.keyword \in applications[k].notes
                                                \cup listings[k].data.words}

Matching(query) ==
    CASE query.kind = "jobs" ->
            {k \in Keys : /\ Visible(k)
                          /\ SalaryMatches(listings[k].data, query)
                          /\ OtherFilters(k, query)}
      [] query.kind = "bookmarks" -> BookmarksMatch(query)
      [] OTHER -> ApplicationsMatch(query)

(* Orders are compared column by column; None sorts last either way.       *)
Desc(v) == IF v = None THEN [null |-> 0, rank |-> 0] ELSE [null |-> 1, rank |-> v]

\* appliedAt is the time of the creation, so newest and created_desc agree.
ApplicationColumns(k, sort) ==
    LET at == Desc(applications[k].at) IN
    IF sort = "updated_desc" THEN <<Desc(applications[k].touched), at>> ELSE <<at>>

Columns(k, query) ==
    LET d == listings[k].data
        Asc(v) == IF v = None THEN [null |-> 0, rank |-> 0] ELSE [null |-> 1, rank |-> 0 - v]
        newest == <<Desc(d.posted), Desc(d.seen)>>
        highest == <<Desc(d.max), Desc(d.min)>>
        lowest == <<Asc(d.min), Asc(d.max)>>
        own == IF query.kind = "jobs" THEN newest ELSE <<Desc(bookmarks[k].at)>>
    IN CASE query.kind = "applications" -> ApplicationColumns(k, query.sort)
         [] query.sort = "salary_highest" -> highest \o own
         [] query.sort = "salary_lowest" -> lowest \o own
         [] query.sort \in {"relevance", "newest"} ->
               newest \o (IF query.kind = "jobs" THEN <<Desc(created[k])>> ELSE own)
         [] OTHER -> own

Before(a, b, query) ==
    LET x == Columns(a, query)
        y == Columns(b, query)
    IN \E i \in DOMAIN x :
          /\ \A j \in 1..(i - 1) : x[j] = y[j]
          /\ \/ x[i].null > y[i].null
             \/ x[i].null = y[i].null /\ x[i].rank > y[i].rank

(* The rows a page may hold: ties come in any order, and differently every *)
(* time.                                                                   *)
Pages(query, page) ==
    LET all == Matching(query)
        Least(a, b) == IF a < b THEN a ELSE b
        skip == Least((page - 1) * query.limit, Cardinality(all))
        take == Least(query.limit, Cardinality(all) - skip)
    IN {rows \in SUBSET all :
          /\ Cardinality(rows) = take
          /\ \E skipped \in SUBSET (all \ rows) :
                /\ Cardinality(skipped) = skip
                /\ \A k \in all \ skipped : \A j \in skipped : ~Before(k, j, query)
                /\ \A k \in all \ (skipped \cup rows) :
                      \A j \in rows : ~Before(k, j, query)}

(* Math.ceil(total / limit) *)
totalPages(total, limit) == (total + limit - 1) \div limit

serializeJobCard(k) == [job |-> k, isStale |-> isJobStale(listings[k].data.seen)]

NoQuery == [kind |-> "none"]
NoWalk == [query |-> NoQuery, seen |-> {}, twice |-> FALSE]
NoReader == [at |-> "idle", query |-> NoQuery, page |-> 1, seen |-> {},
             twice |-> FALSE, quiet |-> FALSE, into |-> "none", job |-> None]

BoardInit ==
    /\ clock = 0
    /\ created = [k \in Keys |-> 0]
    /\ bookmarks = [k \in Wanted |-> None]
    /\ applications = [k \in Wanted |-> None]
    /\ reader = [r \in Readers |-> NoReader]
    /\ walked = NoWalk

Init == SyncInit /\ BoardInit

(* Whatever changes the rows ends the quiet of the walks under way.        *)
Disturb ==
    /\ reader' = [r \in Readers |-> [reader[r] EXCEPT !.quiet = FALSE]]
    /\ walked' = NoWalk

----------------------------------------------------------------------------
(* The steps of a sync; a commit shows its rows, new ones created now.     *)
Commit(s) ==
    /\ CommitChunk(s)
    /\ created' = [k \in Keys |->
          IF listings[k] = None /\ listings'[k] # None THEN clock ELSE created[k]]
    /\ Disturb
    /\ UNCHANGED <<clock, bookmarks, applications>>

Sync ==
    /\ \E s \in Syncs :
          \/ \E b \in Batches : SyncScraperJobs(s, b)
          \/ EnsureSkillMap(s) \/ UpsertPlatform(s) \/ FindCompany(s)
          \/ WriteJob(s) \/ Deadlock(s) \/ Interrupt(s)
    /\ UNCHANGED boardVars

(* A client reads a list from its first page to the last. *)
StartWalk(r, query) ==
    /\ reader[r].at = "idle"
    /\ reader' = [reader EXCEPT ![r] =
          [NoReader EXCEPT !.at = "rows", !.query = query, !.quiet = TRUE]]
    /\ UNCHANGED <<clock, created, bookmarks, applications, walked, syncVars>>

(* listJobs and listForUser: findMany ... *)
FindRows(r) ==
    /\ reader[r].at = "rows"
    /\ \E rows \in Pages(reader[r].query, reader[r].page) :
          reader' = [reader EXCEPT ![r] =
             [reader[r] EXCEPT
                !.at = "total",
                !.twice = @ \/ \E c \in reader[r].seen : c.job \in rows,
                !.seen = @ \cup {serializeJobCard(k) : k \in rows}]]
    /\ UNCHANGED <<clock, created, bookmarks, applications, walked, syncVars>>

(* ... then count; the client goes on while there is a next page.          *)
CountRows(r) ==
    LET total == Cardinality(Matching(reader[r].query))
        hasNextPage == reader[r].page < totalPages(total, reader[r].query.limit)
    IN
    /\ reader[r].at = "total"
    /\ IF hasNextPage
       THEN /\ reader' = [reader EXCEPT ![r] = [reader[r] EXCEPT !.at = "rows", !.page = @ + 1]]
            /\ UNCHANGED walked
       ELSE /\ reader' = [reader EXCEPT ![r] = NoReader]
            /\ walked' = IF reader[r].quiet
                         THEN [query |-> reader[r].query, seen |-> reader[r].seen,
                               twice |-> reader[r].twice]
                         ELSE NoWalk
    /\ UNCHANGED <<clock, created, bookmarks, applications, syncVars>>

----------------------------------------------------------------------------
(* saveBookmark: the job must be visible, the user must not have saved it; *)
(* the insert is guarded by bookmarks_user_job_listing_unique.             *)
SaveBookmark(r, k) ==
    /\ reader[r].at = "idle"
    /\ Visible(k)
    /\ reader' = [reader EXCEPT ![r] =
          [NoReader EXCEPT !.at = "known", !.into = "bookmarks", !.job = k]]
    /\ UNCHANGED <<clock, created, bookmarks, applications, walked, syncVars>>

(* createApplication: the same for the tracker, which takes expired jobs   *)
(* too; its key is application_records_user_job_listing_unique.            *)
CreateApplication(r, k) ==
    /\ reader[r].at = "idle"
    /\ Shown(k)
    /\ reader' = [reader EXCEPT ![r] =
          [NoReader EXCEPT !.at = "known", !.into = "applications", !.job = k]]
    /\ UNCHANGED <<clock, created, bookmarks, applications, walked, syncVars>>

Known(into) == IF into = "bookmarks" THEN Bookmarked ELSE Tracked

FindByUserAndJob(r) ==
    /\ reader[r].at = "known"
    /\ reader' = [reader EXCEPT ![r] =
          IF @.job \in Known(@.into) THEN NoReader ELSE [@ EXCEPT !.at = "insert"]]
    /\ UNCHANGED <<clock, created, bookmarks, applications, walked, syncVars>>

Created(into) ==
    IF into = "bookmarks" THEN [at |-> clock]
    ELSE [status |-> "APPLIED", notes |-> {}, at |-> clock, touched |-> clock]

CreateForUser(r) ==
    LET k == reader[r].job
        into == reader[r].into
        others == [q \in Readers |->
           IF q = r THEN NoReader ELSE [reader[q] EXCEPT !.quiet = FALSE]]
        Inserted(rows, list) ==
           IF into = list /\ rows[k] = None THEN [rows EXCEPT ![k] = Created(into)] ELSE rows
    IN
    /\ reader[r].at = "insert"
    /\ k \in Known(into) \/ Cardinality(Bookmarked) + Cardinality(Tracked) < MaxSaved
    /\ reader' = others
    /\ bookmarks' = Inserted(bookmarks, "bookmarks")
    /\ applications' = Inserted(applications, "applications")
    /\ walked' = NoWalk
    /\ UNCHANGED <<clock, created, syncVars>>

DeleteBookmark(k) ==
    /\ k \in Bookmarked
    /\ bookmarks' = [bookmarks EXCEPT ![k] = None]
    /\ Disturb
    /\ UNCHANGED <<clock, created, applications, syncVars>>

(* updateForUser, and the updateMany of updateStatusForUser: the fields    *)
(* given are written, whatever the listing has become; the transition was  *)
(* checked against a status read earlier, which another change may have    *)
(* replaced (ApplicationTracker).                                          *)
UpdateForUser(k, edit) ==
    LET row == applications[k]
        Given(new, old) == IF new = None THEN old ELSE new
    IN
    /\ k \in Tracked
    /\ applications' = [applications EXCEPT ![k] =
          [@ EXCEPT !.status = Given(edit.status, row.status),
                    !.notes = Given(edit.notes, row.notes),
                    !.touched = clock]]
    /\ Disturb
    /\ UNCHANGED <<clock, created, bookmarks, syncVars>>

Tick ==
    /\ clock < MaxClock
    /\ clock' = clock + 1
    /\ UNCHANGED <<created, bookmarks, applications, reader, walked, syncVars>>

Next ==
    \/ Sync
    \/ \E s \in Syncs : Commit(s)
    \/ \E r \in Readers :
          \/ r \in Walkers /\ \E q \in Queries : StartWalk(r, q)
          \/ FindRows(r) \/ CountRows(r)
          \/ \E k \in Wanted : SaveBookmark(r, k) \/ CreateApplication(r, k)
          \/ FindByUserAndJob(r) \/ CreateForUser(r)
    \/ \E k \in Wanted : DeleteBookmark(k) \/ \E edit \in Edits : UpdateForUser(k, edit)
    \/ Tick

Spec == Init /\ [][Next]_vars

----------------------------------------------------------------------------
(* Properties. *)

(* Every variable keeps its shape; a listing or a bookmark refers to rows  *)
(* that exist.                                                             *)
TypeOK ==
    /\ SyncTypeOK
    /\ clock \in 0..MaxClock
    /\ \A k \in Bookmarked \cup Tracked : listings[k] # None
    /\ \A k \in Tracked : applications[k].touched \in applications[k].at..clock
    /\ \A r \in Readers :
          /\ reader[r].at \in {"idle", "rows", "total", "known", "insert"}
          /\ reader[r].query \in Queries \cup {NoQuery}
          /\ reader[r].job \in Wanted \cup {None}

(* Rows the query's order tells apart. *)
Strict(query) ==
    \A a, b \in Matching(query) : a = b \/ Before(a, b, query) \/ Before(b, a, query)

(* Read to its end while nothing changes, a list whose order is strict has *)
(* shown every row of the query once; among the jobs with both salary      *)
(* bounds these are the ones whose range overlaps the asked one            *)
(* (jobs.md:338), as the mapper's filter says.                             *)
SequentialWalk ==
    LET q == walked.query
        seen == {c.job : c \in walked.seen}
    IN q # NoQuery /\ Strict(q) =>
          /\ ~walked.twice
          /\ seen = Matching(q)
          /\ \A c \in walked.seen : c.isStale => isJobStale(listings[c.job].data.seen)
          /\ q.kind = "jobs" =>
                \A k \in Keys :
                   /\ Visible(k) /\ OtherFilters(k, q)
                   /\ listings[k].data.min # None /\ listings[k].data.max # None
                   => (k \in seen <=> hasSalaryOverlap(listings[k].data, q))

(* The salary filter finds the jobs whose range overlaps the bounds asked  *)
(* for (jobs.md:338), open ranges included.                                *)
SalaryFilterOverlaps ==
    \A q \in Queries : q.kind = "jobs" =>
       \A k \in Keys :
          /\ Visible(k) /\ OtherFilters(k, q)
          /\ hasSalaryOverlap(listings[k].data, q)
          => k \in Matching(q)

============================================================================
