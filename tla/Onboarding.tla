----------------------------- MODULE Onboarding -----------------------------
(***************************************************************************)
(* The profile, lists and preferences of one user, and the onboarding      *)
(* status stored beside them (users, preferences, onboarding-status).      *)
(*                                                                         *)
(* Every operation writes first and afterwards reads the user again,       *)
(* computes the status and stores it when it differs; nothing of it is a   *)
(* transaction.  A text is its being filled in, a skill its slug, a list   *)
(* item what the schemas compare, a preference its salary range and one    *)
(* field for all that are replaced when given.                             *)
(***************************************************************************)
EXTENDS Naturals, Sequences, FiniteSets

CONSTANTS Requests,   \* slots of concurrently running handlers
          Slugs,      \* skill slugs
          Items,      \* list items as clients send them
          Amounts,    \* salaries
          Roles,      \* values of the other preference fields
          Usernames,
          Clients,    \* sets of operations a user's clients call in one run
          MaxFaults,
          None, Keep

ASSUME OnboardingConstants ==
    /\ Amounts \subseteq Nat
    /\ MaxFaults \in Nat
    /\ None \notin Amounts \cup Roles \cup Usernames
    /\ Keep \notin Amounts \cup Roles \cup Usernames \cup {None}
    /\ \A i \in Items : /\ i.start # None => i.start \in Nat
                        /\ i.end # None => i.end \in Nat
                        /\ i.current \in BOOLEAN

VARIABLES user,        \* emailVerified, displayName, phoneNumber, username, status
          rival,       \* the username of another user (None: the one it was given)
          preference,  \* the row of user_preferences, or None
          catalog,     \* slugs of the skill table
          skills,      \* slugs linked to the user
          rows,        \* experience and education, in insertion order
          submitted,   \* the last list and the last skills accepted
          request,     \* [Requests -> Request]
          offered,     \* the operations clients call
          overlapped,  \* two handlers have been in flight together
          missed,      \* the e-mail was verified, or a handler broke, since a refresh
          faults

vars == <<user, rival, preference, catalog, skills, rows, submitted, request,
          offered, overlapped, missed, faults>>

Statuses == {"PENDING", "IN_PROGRESS", "COMPLETED"}
Lists == {"experience", "education"}

(* Profile, list and preference inputs the schemas let through. *)
ValidDates(i) == i.start # None /\ i.end # None => i.start <= i.end
ValidExperience(i) == ValidDates(i) /\ (i.current => i.end = None)
ValidEducation(i) == ValidDates(i) /\ ~i.current
ValidItem(kind, i) ==
    IF kind = "experience" THEN ValidExperience(i) ELSE ValidEducation(i)

Preference == [min : Amounts \cup {None}, max : Amounts \cup {None}, role : Roles]
Patch == [min : Amounts \cup {None, Keep}, max : Amounts \cup {None, Keep},
          role : Roles \cup {Keep}]

(* The absence of a row is no row. *)
ASSUME NoneIsNoRow == None \notin Preference

(* superRefine of the salary range, and assertValidSalaryRange.            *)
ValidRange(p) ==
    p.min \in Amounts /\ p.max \in Amounts => p.min <= p.max

Empty(patch) == \A f \in DOMAIN patch : patch[f] = Keep

(* A given null clears a bound; any other field is kept unless given.      *)
mergePreferences(existing, patch) ==
    [f \in {"min", "max", "role"} |->
        IF patch[f] = Keep THEN existing[f] ELSE patch[f]]

Profile == [kind : {"profile"}, name : BOOLEAN, phone : BOOLEAN,
            username : Usernames \cup {Keep}]
Photo == [kind : {"photo"}]
Skills == [kind : {"skills"}, slugs : SUBSET Slugs, missing : SUBSET Slugs]
List == [kind : Lists, items : Seq(Items)]
Saved == [kind : {"preferences"}, value : Preference]
Sync == [kind : {"sync"}, status : Statuses]
NoInput == [kind |-> "none"]

Idle == [at |-> "idle", input |-> NoInput]
Stages == {"idle", "check", "write", "delete", "lookup", "define", "link",
           "create", "merge", "save", "refresh", "settle", "sync"}

----------------------------------------------------------------------------
computeOnboardingStatus(verified, name, phone, hasPreference) ==
    IF verified /\ name /\ phone /\ hasPreference THEN "COMPLETED"
    ELSE IF verified \/ name \/ phone \/ hasPreference THEN "IN_PROGRESS"
    ELSE "PENDING"

StatusOf(hasPreference) ==
    computeOnboardingStatus(user.verified, user.name, user.phone, hasPreference)

(* A password account has a phone number, a Google account a verified      *)
(* address; None is the username it was given.                             *)
RegisteredUsers ==
    {[verified |-> google, name |-> FALSE, phone |-> ~google,
      username |-> None, status |-> "PENDING"] : google \in BOOLEAN}

Init ==
    /\ user \in RegisteredUsers
    /\ rival = None
    /\ preference = None
    /\ catalog = {}
    /\ skills = {}
    /\ rows = [k \in Lists |-> << >>]
    /\ submitted = [experience |-> << >>, education |-> << >>, skills |-> {}]
    /\ request = [r \in Requests |-> Idle]
    /\ offered \in Clients
    /\ overlapped = FALSE
    /\ missed = TRUE
    /\ faults = 0

Busy == {r \in Requests : request[r].at # "idle"}

Goto(r, stage, input) ==
    request' = [request EXCEPT ![r] = [at |-> stage, input |-> input]]
Finish(r) == request' = [request EXCEPT ![r] = Idle]

(* A handler starts after authentication, with an input the schema passed. *)
Start(r, operation, stage, input) ==
    /\ request[r].at = "idle"
    /\ operation \in offered
    /\ Goto(r, stage, input)
    /\ overlapped' = (overlapped \/ Busy # {})
    /\ UNCHANGED <<user, rival, preference, catalog, skills, rows, submitted,
                   offered, missed, faults>>

----------------------------------------------------------------------------
(* GET /me only refreshes. *)
getCurrentUser(r) == Start(r, "profile", "refresh", NoInput)

(* PATCH /me: a given username is looked up first. *)
updateCurrentUser(r) ==
    \E p \in Profile :
       /\ p.name \/ p.phone \/ p.username # Keep
       /\ Start(r, "profile",
                IF p.username \in {Keep, user.username} THEN "write" ELSE "check", p)

CheckUsername(r) ==
    /\ request[r].at = "check"
    /\ IF request[r].input.username = rival THEN Finish(r)
       ELSE Goto(r, "write", request[r].input)
    /\ UNCHANGED <<user, rival, preference, catalog, skills, rows, submitted,
                   offered, overlapped, missed, faults>>

(* The update itself; users_username_unique refuses a name taken meanwhile. *)
WriteProfile(r) ==
    LET p == request[r].input IN
    /\ request[r].at = "write"
    /\ IF p.username = rival
       THEN Finish(r) /\ UNCHANGED user
       ELSE /\ user' = [user EXCEPT !.name = @ \/ p.name, !.phone = @ \/ p.phone,
                           !.username = IF p.username = Keep THEN @ ELSE p.username]
            /\ Goto(r, "refresh", NoInput)
    /\ UNCHANGED <<rival, preference, catalog, skills, rows, submitted, offered,
                   overlapped, missed, faults>>

(* The photo is stored in user_profiles, which no property here reads.     *)
upsertProfilePhoto(r) == Start(r, "photo", "refresh", NoInput)

(* Regression: the status is computed as if preferences were stored. *)
RefreshAssumingPreference(r) ==
    /\ request[r].at = "refresh"
    /\ IF user.status = StatusOf(TRUE) THEN Finish(r)
       ELSE Goto(r, "sync", [kind |-> "sync", status |-> StatusOf(TRUE)])
    /\ missed' = FALSE
    /\ UNCHANGED <<user, rival, preference, catalog, skills, rows, submitted,
                   offered, overlapped, faults>>

(* Regression: the status is not refreshed. *)
RefreshNothing(r) ==
    /\ request[r].at = "refresh"
    /\ Finish(r)
    /\ missed' = FALSE
    /\ UNCHANGED <<user, rival, preference, catalog, skills, rows, submitted,
                   offered, overlapped, faults>>

(* refreshAndSyncOnboardingStatus: read, compute, store when it differs.   *)
Refresh(r) ==
    LET status == StatusOf(preference # None) IN
    /\ request[r].at = "refresh"
    /\ IF user.status = status THEN Finish(r)
       ELSE Goto(r, "sync", [kind |-> "sync", status |-> status])
    /\ missed' = FALSE
    /\ UNCHANGED <<user, rival, preference, catalog, skills, rows, submitted,
                   offered, overlapped, faults>>

SyncStatus(r) ==
    /\ request[r].at = "sync"
    /\ user' = [user EXCEPT !.status = request[r].input.status]
    /\ Finish(r)
    /\ UNCHANGED <<rival, preference, catalog, skills, rows, submitted, offered,
                   overlapped, missed, faults>>

----------------------------------------------------------------------------
(* PUT of the skills: delete the links, look up the slugs, add those the   *)
(* catalog lacks (skipDuplicates), link all of them.                       *)
replaceSkills(r) ==
    \E s \in SUBSET Slugs :
       Start(r, "skills", "delete", [kind |-> "skills", slugs |-> s, missing |-> {}])

DeleteSkills(r) ==
    /\ request[r].at = "delete"
    /\ request[r].input.kind = "skills"
    /\ skills' = {}
    /\ submitted' = [submitted EXCEPT !.skills = request[r].input.slugs]
    /\ Goto(r, IF request[r].input.slugs = {} THEN "refresh" ELSE "lookup",
            request[r].input)
    /\ UNCHANGED <<user, rival, preference, catalog, rows, offered, overlapped,
                   missed, faults>>

FindExistingSkills(r) ==
    /\ request[r].at = "lookup"
    /\ LET missing == request[r].input.slugs \ catalog IN
       Goto(r, IF missing = {} THEN "link" ELSE "define",
            [request[r].input EXCEPT !.missing = missing])
    /\ UNCHANGED <<user, rival, preference, catalog, skills, rows, submitted,
                   offered, overlapped, missed, faults>>

CreateMissingSkills(r) ==
    /\ request[r].at = "define"
    /\ catalog' = catalog \cup request[r].input.missing
    /\ Goto(r, "link", request[r].input)
    /\ UNCHANGED <<user, rival, preference, skills, rows, submitted, offered,
                   overlapped, missed, faults>>

(* Slugs that are not in the catalog are dropped; a skill that is linked   *)
(* already makes the whole createMany fail (user_skills_user_skill_unique). *)
LinkSkills(r) ==
    LET linked == request[r].input.slugs \cap catalog IN
    /\ request[r].at = "link"
    /\ IF linked \cap skills # {}
       THEN Finish(r) /\ UNCHANGED skills
       ELSE /\ skills' = skills \cup linked
            /\ Goto(r, "refresh", NoInput)
    /\ UNCHANGED <<user, rival, preference, catalog, rows, submitted, offered,
                   overlapped, missed, faults>>

----------------------------------------------------------------------------
(* Regression: the items are not validated. *)
ReplaceUnchecked(r, kind) ==
    \E n \in 0..2 : \E items \in [1..n -> Items] :
       Start(r, kind, "delete", [kind |-> kind, items |-> items])
(* PUT of experience or education: delete all rows, then create the new    *)
(* ones.  Their inputs are one or two items.                               *)
replaceList(r, kind) ==
    \E n \in 0..2 : \E items \in [1..n -> {i \in Items : ValidItem(kind, i)}] :
       Start(r, kind, "delete", [kind |-> kind, items |-> items])

(* Regression: the old rows are kept. *)
KeepRows(r) ==
    LET list == request[r].input IN
    /\ request[r].at = "delete"
    /\ list.kind \in Lists
    /\ submitted' = [submitted EXCEPT ![list.kind] = list.items]
    /\ Goto(r, IF list.items = << >> THEN "refresh" ELSE "create", list)
    /\ UNCHANGED <<user, rival, preference, catalog, skills, rows, offered,
                   overlapped, missed, faults>>

DeleteRows(r) ==
    LET list == request[r].input IN
    /\ request[r].at = "delete"
    /\ list.kind \in Lists
    /\ rows' = [rows EXCEPT ![list.kind] = << >>]
    /\ submitted' = [submitted EXCEPT ![list.kind] = list.items]
    /\ Goto(r, IF list.items = << >> THEN "refresh" ELSE "create", list)
    /\ UNCHANGED <<user, rival, preference, catalog, skills, offered, overlapped,
                   missed, faults>>

CreateRows(r) ==
    LET list == request[r].input IN
    /\ request[r].at = "create"
    /\ rows' = [rows EXCEPT ![list.kind] = @ \o list.items]
    /\ Goto(r, "refresh", NoInput)
    /\ UNCHANGED <<user, rival, preference, catalog, skills, submitted, offered,
                   overlapped, missed, faults>>

----------------------------------------------------------------------------
(* PUT of the preferences. *)
upsertPreferences(r) ==
    \E p \in {q \in Preference : ValidRange(q)} :
       Start(r, "preferences", "save", [kind |-> "preferences", value |-> p])

(* Regression: the merged preferences are not parsed again. *)
PatchUnparsed(r) ==
    \E patch \in {q \in Patch : ValidRange(q)} :
       /\ preference # None
       /\ ~Empty(patch)
       /\ Start(r, "preferences", "save",
                [kind |-> "preferences", value |-> mergePreferences(preference, patch)])
(* PATCH: what is stored is read and merged, and the result parsed again;  *)
(* a patch that is empty, without a row to change or that merges into an   *)
(* invalid range ends there and is no step.                                *)
patchPreferences(r) ==
    \E patch \in {q \in Patch : ValidRange(q)} :
       /\ preference # None
       /\ ~Empty(patch)
       /\ LET merged == mergePreferences(preference, patch) IN
          /\ ValidRange(merged)
          /\ Start(r, "preferences", "save",
                   [kind |-> "preferences", value |-> merged])

(* The upsert writes every column, those the patch did not name as well.   *)
SavePreferences(r) ==
    /\ request[r].at = "save"
    /\ preference' = request[r].input.value
    /\ Goto(r, "settle", NoInput)
    /\ UNCHANGED <<user, rival, catalog, skills, rows, submitted, offered,
                   overlapped, missed, faults>>

(* refreshOnboardingStatus of the preferences knows there are preferences. *)
Settle(r) ==
    LET status == StatusOf(TRUE) IN
    /\ request[r].at = "settle"
    /\ IF user.status = status THEN Finish(r)
       ELSE Goto(r, "sync", [kind |-> "sync", status |-> status])
    /\ missed' = FALSE
    /\ UNCHANGED <<user, rival, preference, catalog, skills, rows, submitted,
                   offered, overlapped, faults>>

----------------------------------------------------------------------------
(* AuthService verifies the address and leaves the status alone.           *)
VerifyEmail ==
    /\ ~user.verified
    /\ user' = [user EXCEPT !.verified = TRUE]
    /\ missed' = TRUE
    /\ UNCHANGED <<rival, preference, catalog, skills, rows, submitted, request,
                   offered, overlapped, faults>>

(* Another user takes a free name. *)
Rename(n) ==
    /\ n # user.username
    /\ rival' = n
    /\ UNCHANGED <<user, preference, catalog, skills, rows, submitted, request,
                   offered, overlapped, missed, faults>>

(* A statement fails or the process dies. *)
Break(r) ==
    /\ r \in Busy
    /\ faults < MaxFaults
    /\ faults' = faults + 1
    /\ missed' = TRUE
    /\ Finish(r)
    /\ UNCHANGED <<user, rival, preference, catalog, skills, rows, submitted,
                   offered, overlapped>>

Next ==
    \/ \E r \in Requests :
          \/ getCurrentUser(r) \/ updateCurrentUser(r) \/ upsertProfilePhoto(r)
          \/ CheckUsername(r) \/ WriteProfile(r)
          \/ replaceSkills(r) \/ DeleteSkills(r) \/ FindExistingSkills(r)
          \/ CreateMissingSkills(r) \/ LinkSkills(r)
          \/ \E kind \in Lists : replaceList(r, kind)
          \/ DeleteRows(r) \/ CreateRows(r)
          \/ upsertPreferences(r) \/ patchPreferences(r) \/ SavePreferences(r)
          \/ Refresh(r) \/ Settle(r) \/ SyncStatus(r)
          \/ Break(r)
    \/ VerifyEmail
    \/ \E n \in Usernames : Rename(n)

Spec == Init /\ [][Next]_vars

----------------------------------------------------------------------------
(* Properties. *)

(* Every variable keeps its shape, and what the schemas demand of a value  *)
(* holds of the stored one.                                                *)
TypeOK ==
    /\ user \in [verified : BOOLEAN, name : BOOLEAN, phone : BOOLEAN,
                 username : Usernames \cup {None}, status : Statuses]
    /\ rival \in Usernames \cup {None}
    /\ preference \in Preference \cup {None}
    /\ skills \subseteq catalog /\ catalog \subseteq Slugs
    /\ \A k \in Lists : \A i \in DOMAIN rows[k] :
          rows[k][i] \in Items /\ ValidItem(k, rows[k][i])
    /\ \A r \in Requests :
          /\ request[r].at \in Stages
          /\ request[r].input \in {NoInput} \cup Profile \cup Skills
                                  \cup List \cup Saved \cup Sync
    /\ faults \in 0..MaxFaults

Rank == [PENDING |-> 0, IN_PROGRESS |-> 1, COMPLETED |-> 2]

(* However late a status is stored, it never claims more than the facts    *)
(* support: what it was computed from is still true.                       *)
StatusNeverAhead ==
    Rank[user.status] <= Rank[StatusOf(preference # None)]

(* Where handlers run one at a time, the stored status is the computed one *)
(* once none is at work, unless the address was verified or a handler      *)
(* broke since.                                                            *)
SequentialStatus ==
    ~overlapped /\ ~missed /\ Busy = {} => user.status = StatusOf(preference # None)

(* Every write of the preferences stores one parsed whole, so the stored   *)
(* range is valid however patches interleave.                              *)
StoredRangeIsValid == preference # None => ValidRange(preference)

(* A list is replaced as a whole where handlers neither overlap nor fail.  *)
SequentialLists ==
    ~overlapped /\ faults = 0 /\ Busy = {} =>
       /\ skills = submitted.skills
       /\ \A k \in Lists : rows[k] = submitted[k]

(* Skills, experience and education are replaced transactionally           *)
(* (docs/modules/users.md:289, :296): once no handler is at work, a list   *)
(* is the one the latest replacement to change it submitted, although a    *)
(* handler failed.                                                         *)
ListsAreWhole ==
    Busy = {} =>
       /\ skills = submitted.skills
       /\ \A k \in Lists : rows[k] = submitted[k]

============================================================================
