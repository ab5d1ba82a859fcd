-------------------------- MODULE OnboardingProofs --------------------------
(***************************************************************************)
(* TLAPS proofs about Onboarding, for any number of handlers, any items,   *)
(* salaries and skills and any number of faults.                           *)
(***************************************************************************)
EXTENDS Onboarding, TLAPS

---------------------------------------------------------------------------
(* The inductive invariant *)

ValidList(list) ==
    /\ list \in List
    /\ \A i \in DOMAIN list.items : ValidItem(list.kind, list.items[i])
ValidSaved(saved) == saved \in Saved /\ ValidRange(saved.value)

(* What a handler's stage says of the values it carries. *)
Fits(q) ==
    /\ q.at \in {"check", "write"} => q.input \in Profile
    /\ q.at = "delete" => q.input \in Skills \/ ValidList(q.input)
    /\ q.at \in {"lookup", "define", "link"} => q.input \in Skills
    /\ q.at = "create" => ValidList(q.input)
    /\ q.at = "save" => ValidSaved(q.input)
    /\ q.at = "sync" => q.input \in Sync

RequestsFit ==
    /\ request \in [Requests -> [at : Stages,
                       input : {NoInput} \cup Profile \cup Skills \cup List
                                  \cup Saved \cup Sync]]
    /\ \A r \in Requests : Fits(request[r])
    /\ rows \in [Lists -> Seq(Items)]
    /\ submitted \in [experience : Seq(Items), education : Seq(Items),
                      skills : SUBSET Slugs]

(* A handler that settles has stored preferences, and they are never       *)
(* removed.                                                                *)
SettledAfterSaving ==
    \A r \in Requests : request[r].at = "settle" => preference # None

(* What the facts in the database amount to. *)
Computed == StatusOf(preference # None)

(* A status on its way to the user row is never ahead of the facts: they   *)
(* only grow.                                                              *)
SyncNeverAhead ==
    \A r \in Requests : request[r].at = "sync" =>
       Rank[request[r].input.status] <= Rank[Computed]

OneHandler == ~overlapped => \A r, q \in Busy : r = q

(* Where nothing overlapped or was missed, the stored status is the        *)
(* computed one until the handler at work writes, and what it stores after *)
(* that is.                                                                *)
StatusInStep ==
    ~overlapped /\ ~missed =>
       /\ Busy = {} => user.status = Computed
       /\ \A r \in Busy :
             /\ request[r].at \notin {"refresh", "settle", "sync"} => user.status = Computed
             /\ request[r].at = "sync" => request[r].input.status = Computed

(* Where nothing overlapped or failed, a list that differs from the        *)
(* submitted one is empty and its handler carries the submitted one.       *)
SkillsUnderWay(q) ==
    /\ q.at \in {"lookup", "define", "link"}
    /\ skills = {} /\ submitted.skills = q.input.slugs
    /\ q.at = "define" => q.input.missing = q.input.slugs \ catalog
    /\ q.at = "link" => q.input.slugs \subseteq catalog
ListUnderWay(q, kind) ==
    /\ q.at = "create" /\ q.input.kind = kind
    /\ rows[kind] = << >> /\ submitted[kind] = q.input.items
ListsInStep ==
    ~overlapped /\ faults = 0 =>
       /\ skills = submitted.skills \/ \E r \in Busy : SkillsUnderWay(request[r])
       /\ \A k \in Lists : \/ rows[k] = submitted[k]
                           \/ \E r \in Busy : ListUnderWay(request[r], k)
       /\ \A r \in Busy :
             /\ request[r].at \in {"lookup", "define", "link"} => SkillsUnderWay(request[r])
             /\ request[r].at = "create" => ListUnderWay(request[r], request[r].input.kind)

---------------------------------------------------------------------------
(* Types *)

Input == {NoInput} \cup Profile \cup Skills \cup List \cup Saved \cup Sync
TypeInv == TypeOK /\ RequestsFit

LEMMA TypeInit == Init => TypeInv
<1> SUFFICES ASSUME Init PROVE TypeInv
  OBVIOUS
<1>1. Idle \in [at : Stages, input : Input] /\ Fits(Idle)
  BY DEF Idle, Stages, Input, Fits
<1>2. RequestsFit
  BY <1>1 DEF Init, RequestsFit, Input, Lists
<1>3. TypeOK
  <2>1. user \in [verified : BOOLEAN, name : BOOLEAN, phone : BOOLEAN,
                  username : Usernames \cup {None}, status : Statuses]
    <3>1. PICK google \in BOOLEAN : user =
             [verified |-> google, name |-> FALSE, phone |-> ~google,
              username |-> None, status |-> "PENDING"]
      BY Zenon DEF Init, RegisteredUsers
    <3>2. CASE google = TRUE
      BY <3>1, <3>2 DEF Statuses
    <3>3. CASE google = FALSE
      BY <3>1, <3>3 DEF Statuses
    <3> QED
      BY <3>2, <3>3
  <2>2. \A k \in Lists : \A i \in DOMAIN rows[k] :
           rows[k][i] \in Items /\ ValidItem(k, rows[k][i])
    BY DEF Init
  <2>3. faults \in 0..MaxFaults
    BY OnboardingConstants DEF Init
  <2>4. \A r \in Requests : request[r].at \in Stages /\ request[r].input \in Input
    BY <1>1 DEF Init
  <2> QED
    BY <2>1, <2>2, <2>3, <2>4 DEF Init, TypeOK, Input
<1> QED
  BY <1>2, <1>3 DEF TypeInv

(* The two halves of the types: what is stored and what handlers carry.    *)
StoreFits ==
    /\ user \in [verified : BOOLEAN, name : BOOLEAN, phone : BOOLEAN,
                 username : Usernames \cup {None}, status : Statuses]
    /\ rival \in Usernames \cup {None}
    /\ preference \in Preference \cup {None}
    /\ skills \subseteq catalog /\ catalog \subseteq Slugs
    /\ \A k \in Lists : \A i \in DOMAIN rows[k] :
          rows[k][i] \in Items /\ ValidItem(k, rows[k][i])
    /\ faults \in 0..MaxFaults
    /\ rows \in [Lists -> Seq(Items)]
    /\ submitted \in [experience : Seq(Items), education : Seq(Items),
                      skills : SUBSET Slugs]
CallsFit ==
    /\ request \in [Requests -> [at : Stages, input : Input]]
    /\ \A r \in Requests : Fits(request[r])

LEMMA TypeHalves == TypeInv <=> StoreFits /\ CallsFit
<1>1. CallsFit => \A r \in Requests : request[r].at \in Stages /\ request[r].input \in Input
  BY DEF CallsFit
<1> QED
  BY <1>1 DEF TypeInv, TypeOK, RequestsFit, StoreFits, CallsFit, Input
LEMMA TypeHalvesNext == TypeInv' <=> StoreFits' /\ CallsFit'
BY TypeHalves, PTL

(* A step of a handler replaces its own record only. *)
LEMMA Moved ==
  ASSUME CallsFit, NEW r \in Requests, NEW stage \in Stages, NEW input \in Input,
         Fits([at |-> stage, input |-> input]), Goto(r, stage, input)
  PROVE  CallsFit'
BY DEF CallsFit, Goto, Fits

LEMMA Finished ==
  ASSUME CallsFit, NEW r \in Requests, Finish(r)
  PROVE  CallsFit'
<1>1. Idle \in [at : Stages, input : Input] /\ Fits(Idle)
  BY DEF Idle, Stages, Input, Fits
<1> QED
  BY <1>1 DEF CallsFit, Finish

LEMMA Refreshes ==
  ASSUME CallsFit, NEW r \in Requests, NEW stage \in {"refresh", "settle"},
         Goto(r, stage, NoInput)
  PROVE  CallsFit'
BY Moved DEF Stages, Input, Fits

LEMMA StoreKept ==
  ASSUME StoreFits, UNCHANGED <<user, rival, preference, catalog, skills, rows,
                                submitted, faults>>
  PROVE  StoreFits'
BY DEF StoreFits

LEMMA Started ==
  ASSUME TypeInv, NEW r \in Requests, NEW operation, NEW stage \in Stages,
         NEW input \in Input, Fits([at |-> stage, input |-> input]),
         Start(r, operation, stage, input)
  PROVE  TypeInv'
BY TypeHalves, TypeHalvesNext, Moved, StoreKept DEF Start

(* What the handler of a step carries. *)
LEMMA Carried ==
  ASSUME TypeInv, NEW r \in Requests
  PROVE  /\ request[r] \in [at : Stages, input : Input]
         /\ Fits(request[r])
BY TypeHalves DEF CallsFit

LEMMA MergedIsPreference ==
  ASSUME NEW p \in Preference, NEW patch \in Patch
  PROVE  mergePreferences(p, patch) \in Preference
BY OnboardingConstants DEF Preference, Patch, mergePreferences

LEMMA StatusIsStatus == \A p \in BOOLEAN : StatusOf(p) \in Statuses
BY DEF StatusOf, computeOnboardingStatus, Statuses

(* An element of a concatenation is one of its first or its second part.   *)
LEMMA ConcatParts ==
  ASSUME NEW S, NEW s \in Seq(S), NEW t \in Seq(S), NEW i \in DOMAIN (s \o t)
  PROVE  \/ i \in DOMAIN s /\ (s \o t)[i] = s[i]
         \/ i - Len(s) \in DOMAIN t /\ (s \o t)[i] = t[i - Len(s)]
<1>1. /\ DOMAIN s = 1..Len(s) /\ Len(s) \in Nat
      /\ DOMAIN t = 1..Len(t) /\ Len(t) \in Nat
      /\ i \in 1..(Len(s) + Len(t))
  BY Len(s \o t) = Len(s) + Len(t), s \o t \in Seq(S)
<1>2. CASE i <= Len(s)
  BY <1>1, <1>2
<1>3. CASE i > Len(s)
  BY <1>1, <1>3
<1> QED
  BY <1>1, <1>2, <1>3

LEMMA TypeStep == TypeInv /\ [Next]_vars => TypeInv'
<1> SUFFICES ASSUME TypeInv, [Next]_vars PROVE TypeInv'
  OBVIOUS
<1> USE TypeHalves, TypeHalvesNext
<1>1. ASSUME NEW r \in Requests, getCurrentUser(r) PROVE TypeInv'
  BY <1>1, Started DEF getCurrentUser, Stages, Input, Fits
<1>2. ASSUME NEW r \in Requests, updateCurrentUser(r) PROVE TypeInv'
  <2>1. PICK p \in Profile :
           Start(r, "profile",
                 IF p.username \in {Keep, user.username} THEN "write" ELSE "check", p)
    BY <1>2, Zenon DEF updateCurrentUser
  <2>2. \A stage \in {"write", "check"} :
           stage \in Stages /\ p \in Input /\ Fits([at |-> stage, input |-> p])
    BY DEF Stages, Input, Fits
  <2> QED
    BY <2>1, <2>2, Started
<1>3. ASSUME NEW r \in Requests, upsertProfilePhoto(r) PROVE TypeInv'
  BY <1>3, Started DEF upsertProfilePhoto, Stages, Input, Fits
<1>4. ASSUME NEW r \in Requests, CheckUsername(r) PROVE TypeInv'
  <2>1. request[r].input \in Profile /\ request[r].input \in Input
    BY <1>4, Carried DEF CheckUsername, Fits, Input
  <2>2. CallsFit'
    BY <1>4, <2>1, Finished, Moved DEF CheckUsername, Stages, Fits
  <2> QED
    BY <1>4, <2>2, StoreKept DEF CheckUsername
<1>5. ASSUME NEW r \in Requests, WriteProfile(r) PROVE TypeInv'
  <2>1. request[r].input \in Profile
    BY <1>5, Carried DEF WriteProfile, Fits
  <2>2. CallsFit'
    BY <1>5, Finished, Refreshes DEF WriteProfile
  <2>3. user' \in [verified : BOOLEAN, name : BOOLEAN, phone : BOOLEAN,
                   username : Usernames \cup {None}, status : Statuses]
    BY <1>5, <2>1 DEF WriteProfile, StoreFits, Profile
  <2> QED
    BY <1>5, <2>2, <2>3 DEF WriteProfile, StoreFits
<1>6. ASSUME NEW r \in Requests, replaceSkills(r) PROVE TypeInv'
  <2>1. PICK s \in SUBSET Slugs :
           Start(r, "skills", "delete", [kind |-> "skills", slugs |-> s, missing |-> {}])
    BY <1>6 DEF replaceSkills
  <2>2. [kind |-> "skills", slugs |-> s, missing |-> {}] \in Skills
    BY DEF Skills
  <2> QED
    BY <2>1, <2>2, Started DEF Stages, Input, Fits
<1>7. ASSUME NEW r \in Requests, DeleteSkills(r) PROVE TypeInv'
  <2>1. request[r].input \in Skills
    BY <1>7, Carried DEF DeleteSkills, Fits, ValidList, List, Lists
  <2>2. CallsFit'
    BY <1>7, <2>1, Moved DEF DeleteSkills, Stages, Input, Fits
  <2>3. submitted' \in [experience : Seq(Items), education : Seq(Items),
                        skills : SUBSET Slugs]
    BY <1>7, <2>1 DEF DeleteSkills, StoreFits, Skills
  <2> QED
    BY <1>7, <2>2, <2>3 DEF DeleteSkills, StoreFits
<1>8. ASSUME NEW r \in Requests, FindExistingSkills(r) PROVE TypeInv'
  <2>1. request[r].input \in Skills
    BY <1>8, Carried DEF FindExistingSkills, Fits
  <2>2. [request[r].input EXCEPT !.missing = request[r].input.slugs \ catalog] \in Skills
    BY <2>1 DEF Skills
  <2>3. CallsFit'
    BY <1>8, <2>2, Moved DEF FindExistingSkills, Stages, Input, Fits
  <2> QED
    BY <1>8, <2>3, StoreKept DEF FindExistingSkills
<1>9. ASSUME NEW r \in Requests, CreateMissingSkills(r) PROVE TypeInv'
  <2>1. request[r].input \in Skills
    BY <1>9, Carried DEF CreateMissingSkills, Fits
  <2>2. CallsFit'
    BY <1>9, <2>1, Moved DEF CreateMissingSkills, Stages, Input, Fits
  <2>3. skills' \subseteq catalog' /\ catalog' \subseteq Slugs
    BY <1>9, <2>1 DEF CreateMissingSkills, StoreFits, Skills
  <2> QED
    BY <1>9, <2>2, <2>3 DEF CreateMissingSkills, StoreFits
<1>10. ASSUME NEW r \in Requests, LinkSkills(r) PROVE TypeInv'
  <2>1. CallsFit'
    BY <1>10, Finished, Refreshes DEF LinkSkills
  <2>2. skills' \subseteq catalog'
    BY <1>10 DEF LinkSkills, StoreFits
  <2> QED
    BY <1>10, <2>1, <2>2 DEF LinkSkills, StoreFits
<1>11. ASSUME NEW r \in Requests, NEW kind \in Lists, replaceList(r, kind) PROVE TypeInv'
  <2>1. PICK n \in 0..2 : \E items \in [1..n -> {i \in Items : ValidItem(kind, i)}] :
           Start(r, kind, "delete", [kind |-> kind, items |-> items])
    BY <1>11, Zenon DEF replaceList
  <2>2. PICK items \in [1..n -> {i \in Items : ValidItem(kind, i)}] :
           Start(r, kind, "delete", [kind |-> kind, items |-> items])
    BY <2>1, Zenon
  <2>3. items \in Seq(Items) /\ DOMAIN items = 1..n
    <3>1. items \in [1..n -> Items] /\ n \in Nat
      OBVIOUS
    <3> QED
      BY <3>1
  <2>4. ValidList([kind |-> kind, items |-> items])
    BY <2>3 DEF ValidList, List
  <2> QED
    BY <2>2, <2>4, Started DEF Stages, Input, Fits, ValidList
<1>12. ASSUME NEW r \in Requests, DeleteRows(r) PROVE TypeInv'
  <2>1. ValidList(request[r].input)
    BY <1>12, Carried DEF DeleteRows, Fits, Skills, Lists
  <2>2. CallsFit'
    BY <1>12, <2>1, Moved, Refreshes DEF DeleteRows, Stages, Input, Fits, ValidList
  <2>3. submitted' \in [experience : Seq(Items), education : Seq(Items),
                        skills : SUBSET Slugs]
    BY <1>12, <2>1 DEF DeleteRows, StoreFits, ValidList, List, Lists
  <2>4. rows' \in [Lists -> Seq(Items)]
    BY <1>12 DEF DeleteRows, StoreFits
  <2>5. \A k \in Lists : \A i \in DOMAIN rows'[k] :
           rows'[k][i] \in Items /\ ValidItem(k, rows'[k][i])
    BY <1>12 DEF DeleteRows, StoreFits
  <2> QED
    BY <1>12, <2>2, <2>3, <2>4, <2>5 DEF DeleteRows, StoreFits
<1>13. ASSUME NEW r \in Requests, CreateRows(r) PROVE TypeInv'
  <2>1. ValidList(request[r].input)
    BY <1>13, Carried DEF CreateRows, Fits
  <2> DEFINE list == request[r].input
             old == rows[list.kind]
  <2>2. list.kind \in Lists /\ list.items \in Seq(Items) /\ old \in Seq(Items)
    BY <2>1 DEF ValidList, List, StoreFits
  <2>3. CallsFit'
    BY <1>13, Refreshes DEF CreateRows
  <2>4. rows' = [rows EXCEPT ![list.kind] = old \o list.items]
    BY <1>13 DEF CreateRows
  <2>5. rows' \in [Lists -> Seq(Items)]
    BY <2>2, <2>4 DEF StoreFits
  <2>6. \A i \in DOMAIN (old \o list.items) :
           /\ (old \o list.items)[i] \in Items
           /\ ValidItem(list.kind, (old \o list.items)[i])
    <3>1. \A i \in DOMAIN old : old[i] \in Items /\ ValidItem(list.kind, old[i])
      BY <2>2 DEF StoreFits
    <3>2. \A i \in DOMAIN list.items :
             list.items[i] \in Items /\ ValidItem(list.kind, list.items[i])
      BY <2>1, <2>2 DEF ValidList
    <3> SUFFICES ASSUME NEW i \in DOMAIN (old \o list.items)
                 PROVE  /\ (old \o list.items)[i] \in Items
                        /\ ValidItem(list.kind, (old \o list.items)[i])
      OBVIOUS
    <3> HIDE DEF list, old
    <3>3. \/ i \in DOMAIN old /\ (old \o list.items)[i] = old[i]
          \/ /\ i - Len(old) \in DOMAIN list.items
             /\ (old \o list.items)[i] = list.items[i - Len(old)]
      BY <2>2, ConcatParts
    <3> QED
      BY <3>1, <3>2, <3>3
  <2>7. \A k \in Lists : \A i \in DOMAIN rows'[k] :
           rows'[k][i] \in Items /\ ValidItem(k, rows'[k][i])
    BY <2>2, <2>4, <2>6 DEF StoreFits
  <2> QED
    BY <1>13, <2>3, <2>5, <2>7 DEF CreateRows, StoreFits
<1>14. ASSUME NEW r \in Requests, upsertPreferences(r) PROVE TypeInv'
  <2>1. PICK p \in Preference :
           /\ ValidRange(p)
           /\ Start(r, "preferences", "save", [kind |-> "preferences", value |-> p])
    BY <1>14, Zenon DEF upsertPreferences
  <2>2. ValidSaved([kind |-> "preferences", value |-> p])
    BY <2>1 DEF ValidSaved, Saved
  <2> QED
    BY <2>1, <2>2, Started DEF Stages, Input, Fits, ValidSaved
<1>15. ASSUME NEW r \in Requests, patchPreferences(r) PROVE TypeInv'
  <2>1. PICK patch \in Patch :
           /\ preference # None
           /\ ValidRange(mergePreferences(preference, patch))
           /\ Start(r, "preferences", "save",
                [kind |-> "preferences", value |-> mergePreferences(preference, patch)])
    BY <1>15, Zenon DEF patchPreferences
  <2>2. mergePreferences(preference, patch) \in Preference
    BY <2>1, MergedIsPreference DEF StoreFits
  <2>3. ValidSaved([kind |-> "preferences", value |-> mergePreferences(preference, patch)])
    BY <2>1, <2>2 DEF ValidSaved, Saved
  <2> QED
    BY <2>1, <2>3, Started DEF Stages, Input, Fits, ValidSaved
<1>16. ASSUME NEW r \in Requests, SavePreferences(r) PROVE TypeInv'
  <2>1. request[r].input.value \in Preference
    BY <1>16, Carried DEF SavePreferences, Fits, ValidSaved, Saved
  <2>2. CallsFit'
    BY <1>16, Refreshes DEF SavePreferences
  <2> QED
    BY <1>16, <2>1, <2>2 DEF SavePreferences, StoreFits
<1>17. ASSUME NEW r \in Requests, NEW known \in BOOLEAN,
              IF user.status = StatusOf(known) THEN Finish(r)
              ELSE Goto(r, "sync", [kind |-> "sync", status |-> StatusOf(known)])
       PROVE CallsFit'
  <2>1. [kind |-> "sync", status |-> StatusOf(known)] \in Sync
    BY StatusIsStatus DEF Sync
  <2> QED
    BY <1>17, <2>1, Finished, Moved DEF Stages, Input, Fits
<1>18. ASSUME NEW r \in Requests, Refresh(r) \/ Settle(r) PROVE TypeInv'
  <2>1. CallsFit'
    BY <1>17, <1>18 DEF Refresh, Settle
  <2> QED
    BY <1>18, <2>1, StoreKept DEF Refresh, Settle
<1>19. ASSUME NEW r \in Requests, SyncStatus(r) PROVE TypeInv'
  <2>1. request[r].input.status \in Statuses
    BY <1>19, Carried DEF SyncStatus, Fits, Sync
  <2>2. CallsFit'
    BY <1>19, Finished DEF SyncStatus
  <2>3. user' \in [verified : BOOLEAN, name : BOOLEAN, phone : BOOLEAN,
                   username : Usernames \cup {None}, status : Statuses]
    BY <1>19, <2>1 DEF SyncStatus, StoreFits
  <2> QED
    BY <1>19, <2>2, <2>3 DEF SyncStatus, StoreFits
<1>20. ASSUME NEW r \in Requests, Break(r) PROVE TypeInv'
  <2>1. CallsFit'
    BY <1>20, Finished DEF Break
  <2>2. faults' \in 0..MaxFaults
    BY <1>20, OnboardingConstants DEF Break, StoreFits
  <2> QED
    BY <1>20, <2>1, <2>2 DEF Break, StoreFits
<1>21. ASSUME VerifyEmail \/ \E n \in Usernames : Rename(n) PROVE TypeInv'
  <2>1. CallsFit'
    BY <1>21 DEF VerifyEmail, Rename, CallsFit
  <2>2. user' \in [verified : BOOLEAN, name : BOOLEAN, phone : BOOLEAN,
                   username : Usernames \cup {None}, status : Statuses]
    BY <1>21 DEF VerifyEmail, Rename, StoreFits
  <2>3. rival' \in Usernames \cup {None}
    BY <1>21 DEF VerifyEmail, Rename, StoreFits
  <2> QED
    BY <1>21, <2>1, <2>2, <2>3 DEF VerifyEmail, Rename, StoreFits
<1>22. CASE UNCHANGED vars
  BY <1>22 DEF vars, StoreFits, CallsFit
<1> QED
  BY <1>1, <1>2, <1>3, <1>4, <1>5, <1>6, <1>7, <1>8, <1>9, <1>10, <1>11, <1>12, <1>13,
     <1>14, <1>15, <1>16, <1>18, <1>19, <1>20, <1>21, <1>22 DEF Next

---------------------------------------------------------------------------
(* The stored status *)

StatusInv ==
    /\ SettledAfterSaving
    /\ StatusNeverAhead
    /\ SyncNeverAhead
    /\ OneHandler
    /\ StatusInStep

LEMMA ComputedKept == UNCHANGED <<user, preference>> => Computed' = Computed
BY DEF Computed, StatusOf

LEMMA ComputedIsStatus == Computed \in Statuses
BY StatusIsStatus DEF Computed

LEMMA ComputedIsStatusNext == Computed' \in Statuses
BY DEF Computed, StatusOf, computeOnboardingStatus, Statuses

LEMMA ComputedGrows ==
  ASSUME user.verified => user'.verified, user.name => user'.name, user.phone => user'.phone,
         preference # None => preference' # None
  PROVE  Rank[Computed] <= Rank[Computed']
BY DEF Computed, StatusOf, computeOnboardingStatus, Rank

LEMMA RanksAreOrdered ==
  /\ \A s \in Statuses : Rank[s] \in Nat
  /\ Rank["PENDING"] = 0
BY DEF Rank, Statuses

LEMMA StatusInit == Init => StatusInv
<1> SUFFICES ASSUME Init PROVE StatusInv
  OBVIOUS
<1>1. user.status = "PENDING"
  <2>1. PICK google \in BOOLEAN : user =
           [verified |-> google, name |-> FALSE, phone |-> ~google,
            username |-> None, status |-> "PENDING"]
    BY Zenon DEF Init, RegisteredUsers
  <2> QED
    BY <2>1
<1>2. \A r \in Requests : request[r].at = "idle"
  BY DEF Init, Idle
<1>3. StatusNeverAhead
  BY <1>1, RanksAreOrdered, ComputedIsStatus DEF StatusNeverAhead, Computed
<1> QED
  BY <1>2, <1>3 DEF Init, StatusInv, SettledAfterSaving, SyncNeverAhead, OneHandler,
     StatusInStep, Busy

(* A step that neither reads nor writes what the status is about: it starts *)
(* a handler, or moves or ends one that has not written yet.                *)
LEMMA QuietStep ==
  ASSUME TypeInv, StatusInv, NEW r \in Requests, NEW q,
         UNCHANGED <<user, preference>>,
         request' = [request EXCEPT ![r] = q], q.at \notin {"settle", "sync"},
         missed' \in {missed, TRUE},
         \/ /\ request[r].at \notin {"idle", "refresh", "settle", "sync"}
            /\ overlapped' = overlapped
         \/ /\ request[r].at # "idle"
            /\ overlapped' = overlapped /\ missed' = TRUE
         \/ /\ request[r].at = "idle"
            /\ overlapped' = (overlapped \/ Busy # {})
  PROVE  StatusInv'
<1>1. /\ \A t \in Requests : t # r => request'[t] = request[t]
      /\ request'[r] = q
  BY DEF TypeInv, RequestsFit
<1>2. Computed' = Computed
  BY ComputedKept
<1>3. SettledAfterSaving' /\ SyncNeverAhead'
  BY <1>1, <1>2 DEF StatusInv, SettledAfterSaving, SyncNeverAhead
<1>4. StatusNeverAhead'
  BY <1>2 DEF StatusInv, StatusNeverAhead, Computed
<1>5. ~overlapped' => /\ Busy' \subseteq Busy \cup {r}
                      /\ ~overlapped
                      /\ request[r].at = "idle" => Busy = {}
                      /\ request[r].at # "idle" => r \in Busy
  BY <1>1 DEF Busy
<1>6. OneHandler'
  BY <1>5 DEF StatusInv, OneHandler
<1>7. StatusInStep'
  <2> SUFFICES ASSUME ~overlapped', ~missed'
               PROVE  /\ Busy' = {} => user'.status = Computed'
                      /\ \A t \in Busy' :
                            /\ request'[t].at \notin {"refresh", "settle", "sync"}
                                  => user'.status = Computed'
                            /\ request'[t].at = "sync"
                                  => request'[t].input.status = Computed'
    BY DEF StatusInStep
  <2>1. user.status = Computed
    <3>1. CASE request[r].at = "idle"
      BY <1>5, <3>1 DEF StatusInv, StatusInStep
    <3>2. CASE request[r].at # "idle"
      BY <1>5, <3>2 DEF StatusInv, StatusInStep
    <3> QED
      BY <3>1, <3>2
  <2>2. Busy' \subseteq {r}
    BY <1>5 DEF StatusInv, OneHandler
  <2> QED
    BY <1>1, <1>2, <2>1, <2>2
<1> QED
  BY <1>3, <1>4, <1>6, <1>7 DEF StatusInv

(* A handler writes the facts, which grow, and goes on to compute.         *)
LEMMA WrittenStep ==
  ASSUME TypeInv, StatusInv, NEW r \in Requests, NEW stage \in {"refresh", "settle"},
         request[r].at \in {"write", "save"},
         request' = [request EXCEPT ![r] = [at |-> stage, input |-> NoInput]],
         stage = "settle" => preference' # None,
         preference # None => preference' # None,
         user'.status = user.status, Rank[Computed] <= Rank[Computed'],
         UNCHANGED <<overlapped, missed>>
  PROVE  StatusInv'
<1>1. /\ \A t \in Requests : t # r => request'[t] = request[t]
      /\ request'[r] = [at |-> stage, input |-> NoInput]
  BY DEF TypeInv, RequestsFit
<1>2. /\ Rank[Computed] \in Nat /\ Rank[Computed'] \in Nat /\ Rank[user.status] \in Nat
      /\ \A t \in Requests : request[t].at = "sync" => Rank[request[t].input.status] \in Nat
  BY RanksAreOrdered, ComputedIsStatus, ComputedIsStatusNext, Carried, TypeHalves
  DEF StoreFits, Fits, Sync
<1>3. SettledAfterSaving'
  BY <1>1 DEF StatusInv, SettledAfterSaving
<1>4. SyncNeverAhead'
  BY <1>1, <1>2 DEF StatusInv, SyncNeverAhead
<1>5. StatusNeverAhead'
  BY <1>2 DEF StatusInv, StatusNeverAhead, Computed
<1>6. Busy' = Busy /\ r \in Busy
  BY <1>1 DEF Busy
<1>7. OneHandler' /\ StatusInStep'
  BY <1>1, <1>6 DEF StatusInv, OneHandler, StatusInStep
<1> QED
  BY <1>3, <1>4, <1>5, <1>7 DEF StatusInv

(* A handler computes the status, and ends if it is the stored one.        *)
LEMMA ComputingStep ==
  ASSUME TypeInv, StatusInv, NEW r \in Requests, Refresh(r) \/ Settle(r)
  PROVE  StatusInv'
<1>1. /\ request[r].at \in {"refresh", "settle"}
      /\ UNCHANGED <<user, preference, overlapped>>
      /\ IF user.status = Computed
         THEN request' = [request EXCEPT ![r] = Idle]
         ELSE request' = [request EXCEPT ![r] = [at |-> "sync",
                             input |-> [kind |-> "sync", status |-> Computed]]]
  <2>1. request[r].at = "settle" => preference # None
    BY DEF StatusInv, SettledAfterSaving
  <2>2. CASE Refresh(r)
    BY <2>2 DEF Refresh, Finish, Goto, Computed
  <2>3. CASE Settle(r)
    <3>1. (preference # None) = TRUE
      BY <2>1, <2>3 DEF Settle
    <3>2. Computed = StatusOf(TRUE)
      BY <3>1 DEF Computed
    <3> QED
      BY <2>3, <3>2 DEF Settle, Finish, Goto
  <2> QED
    BY <2>2, <2>3
<1>2. Computed' = Computed
  BY <1>1, ComputedKept
<1>3. /\ \A t \in Requests : t # r => request'[t] = request[t]
      /\ \/ request'[r] = Idle /\ user.status = Computed
         \/ request'[r] = [at |-> "sync", input |-> [kind |-> "sync", status |-> Computed]]
  BY <1>1 DEF TypeInv, RequestsFit
<1>4. SettledAfterSaving'
  BY <1>1, <1>3 DEF StatusInv, SettledAfterSaving, Idle
<1>5. SyncNeverAhead'
  <2>1. Rank[Computed] <= Rank[Computed]
    BY RanksAreOrdered, ComputedIsStatus
  <2> QED
    BY <1>2, <1>3, <2>1 DEF StatusInv, SyncNeverAhead, Idle
<1>6. StatusNeverAhead'
  BY <1>1, <1>2 DEF StatusInv, StatusNeverAhead, Computed
<1>7. Busy' \subseteq Busy /\ r \in Busy
  BY <1>1, <1>3 DEF Busy, Idle
<1>8. OneHandler'
  BY <1>1, <1>7 DEF StatusInv, OneHandler
<1>9. ~overlapped' => Busy' \subseteq {r}
  BY <1>1, <1>7 DEF StatusInv, OneHandler
<1>10. StatusInStep'
  <2>1. CASE request'[r] = Idle /\ user.status = Computed
    BY <1>1, <1>2, <1>9, <2>1 DEF StatusInStep, Busy, Idle
  <2>2. CASE request'[r] = [at |-> "sync", input |-> [kind |-> "sync", status |-> Computed]]
    BY <1>1, <1>2, <1>9, <2>2 DEF StatusInStep, Busy
  <2> QED
    BY <1>3, <2>1, <2>2
<1> QED
  BY <1>4, <1>5, <1>6, <1>8, <1>10 DEF StatusInv

(* A handler stores the status it computed. *)
LEMMA StoringStep ==
  ASSUME TypeInv, StatusInv, NEW r \in Requests, SyncStatus(r)
  PROVE  StatusInv'
<1>1. /\ \A t \in Requests : t # r => request'[t] = request[t]
      /\ request'[r] = Idle /\ request[r].at = "sync"
  BY DEF TypeInv, RequestsFit, SyncStatus, Finish
<1>2. /\ user'.status = request[r].input.status
      /\ user'.verified = user.verified /\ user'.name = user.name
      /\ user'.phone = user.phone
  BY TypeHalves DEF SyncStatus, StoreFits
<1>3. Computed' = Computed
  BY <1>2 DEF Computed, StatusOf, SyncStatus
<1>4. SettledAfterSaving' /\ SyncNeverAhead'
  BY <1>1, <1>3 DEF StatusInv, SettledAfterSaving, SyncNeverAhead, Idle, SyncStatus
<1>5. StatusNeverAhead'
  BY <1>1, <1>2, <1>3 DEF StatusInv, SyncNeverAhead, StatusNeverAhead, Computed
<1>6. Busy' \subseteq Busy \ {r} /\ r \in Busy
  BY <1>1 DEF Busy, Idle
<1>7. OneHandler'
  BY <1>6 DEF StatusInv, OneHandler, SyncStatus
<1>8. ~overlapped' /\ ~missed' => Busy' = {} /\ user'.status = Computed'
  BY <1>1, <1>2, <1>3, <1>6 DEF StatusInv, OneHandler, StatusInStep, SyncStatus
<1> QED
  BY <1>4, <1>5, <1>7, <1>8 DEF StatusInv, StatusInStep

(* The address is verified behind the back of the handlers. *)
LEMMA VerifyingStep ==
  ASSUME TypeInv, StatusInv, VerifyEmail
  PROVE  StatusInv'
<1>1. /\ user'.verified /\ user'.name = user.name /\ user'.phone = user.phone
      /\ user'.status = user.status
  BY TypeHalves DEF VerifyEmail, StoreFits
<1>2. Rank[Computed] <= Rank[Computed']
  BY <1>1, ComputedGrows DEF VerifyEmail
<1>3. /\ Rank[Computed] \in Nat /\ Rank[Computed'] \in Nat /\ Rank[user.status] \in Nat
      /\ \A t \in Requests : request[t].at = "sync" => Rank[request[t].input.status] \in Nat
  BY RanksAreOrdered, ComputedIsStatus, ComputedIsStatusNext, Carried, TypeHalves
  DEF StoreFits, Fits, Sync
<1>4. SettledAfterSaving' /\ SyncNeverAhead'
  BY <1>2, <1>3 DEF StatusInv, SettledAfterSaving, SyncNeverAhead, VerifyEmail
<1>5. StatusNeverAhead'
  BY <1>1, <1>2, <1>3 DEF StatusInv, StatusNeverAhead, Computed
<1>6. OneHandler' /\ StatusInStep'
  BY DEF VerifyEmail, StatusInv, OneHandler, StatusInStep, Busy
<1> QED
  BY <1>4, <1>5, <1>6 DEF StatusInv

LEMMA StatusStep == TypeInv /\ StatusInv /\ [Next]_vars => StatusInv'
<1> SUFFICES ASSUME TypeInv, StatusInv, [Next]_vars PROVE StatusInv'
  OBVIOUS
<1>1. ASSUME NEW r \in Requests, NEW operation, NEW stage \in Stages \ {"settle", "sync"},
             NEW input, Start(r, operation, stage, input)
      PROVE StatusInv'
  BY <1>1, QuietStep DEF Start, Goto
<1>2. ASSUME NEW r \in Requests,
             \/ getCurrentUser(r) \/ updateCurrentUser(r) \/ upsertProfilePhoto(r)
             \/ replaceSkills(r) \/ (\E kind \in Lists : replaceList(r, kind))
             \/ upsertPreferences(r) \/ patchPreferences(r)
      PROVE StatusInv'
  <2>1. CASE getCurrentUser(r)
    BY <1>1, <2>1 DEF getCurrentUser, Stages
  <2>2. CASE updateCurrentUser(r)
    <3>1. PICK p : Start(r, "profile",
               IF p.username \in {Keep, user.username} THEN "write" ELSE "check", p)
      BY <2>2, Zenon DEF updateCurrentUser
    <3> QED
      BY <1>1, <3>1 DEF Stages
  <2>3. CASE upsertProfilePhoto(r)
    BY <1>1, <2>3 DEF upsertProfilePhoto, Stages
  <2>4. CASE replaceSkills(r)
    BY <1>1, <2>4 DEF replaceSkills, Stages
  <2>5. CASE \E kind \in Lists : replaceList(r, kind)
    <3>1. PICK kind, input : Start(r, kind, "delete", input)
      BY <2>5, Zenon DEF replaceList
    <3> QED
      BY <1>1, <3>1 DEF Stages
  <2>6. CASE upsertPreferences(r)
    <3>1. PICK input : Start(r, "preferences", "save", input)
      BY <2>6, Zenon DEF upsertPreferences
    <3> QED
      BY <1>1, <3>1 DEF Stages
  <2>7. CASE patchPreferences(r)
    <3>1. PICK input : Start(r, "preferences", "save", input)
      BY <2>7, Zenon DEF patchPreferences
    <3> QED
      BY <1>1, <3>1 DEF Stages
  <2> QED
    BY <1>2, <2>1, <2>2, <2>3, <2>4, <2>5, <2>6, <2>7
<1>3. ASSUME NEW r \in Requests,
             \/ CheckUsername(r) \/ DeleteSkills(r) \/ FindExistingSkills(r)
             \/ CreateMissingSkills(r) \/ LinkSkills(r) \/ DeleteRows(r) \/ CreateRows(r)
      PROVE StatusInv'
  <2>1. /\ UNCHANGED <<user, preference, overlapped, missed>>
        /\ request[r].at \notin {"idle", "refresh", "settle", "sync"}
    BY <1>3 DEF CheckUsername, DeleteSkills, FindExistingSkills, CreateMissingSkills,
       LinkSkills, DeleteRows, CreateRows
  <2>2. PICK q : q.at \notin {"settle", "sync"} /\ request' = [request EXCEPT ![r] = q]
    BY <1>3 DEF CheckUsername, DeleteSkills, FindExistingSkills, CreateMissingSkills,
       LinkSkills, DeleteRows, CreateRows, Goto, Finish, Idle
  <2> QED
    BY <2>1, <2>2, QuietStep
<1>4. ASSUME NEW r \in Requests, Break(r) PROVE StatusInv'
  BY <1>4, QuietStep DEF Break, Finish, Idle, Busy
<1>5. ASSUME NEW r \in Requests, WriteProfile(r) PROVE StatusInv'
  <2>1. CASE UNCHANGED user
    <3>1. PICK q : q.at \notin {"settle", "sync"} /\ request' = [request EXCEPT ![r] = q]
      BY <1>5 DEF WriteProfile, Goto, Finish, Idle
    <3> QED
      BY <1>5, <2>1, <3>1, QuietStep DEF WriteProfile
  <2>2. CASE ~UNCHANGED user
    <3>1. request[r].input \in Profile
      BY <1>5, Carried DEF WriteProfile, Fits
    <3>2. /\ user.verified => user'.verified
          /\ user.name => user'.name
          /\ user.phone => user'.phone
          /\ user'.status = user.status
      BY <1>5, <2>2, <3>1, TypeHalves DEF WriteProfile, StoreFits, Profile
    <3>3. Rank[Computed] <= Rank[Computed']
      BY <1>5, <3>2, ComputedGrows DEF WriteProfile
    <3>4. request' = [request EXCEPT ![r] = [at |-> "refresh", input |-> NoInput]]
      BY <1>5, <2>2 DEF WriteProfile, Goto
    <3> QED
      BY <1>5, <3>2, <3>3, <3>4, WrittenStep DEF WriteProfile
  <2> QED
    BY <2>1, <2>2
<1>6. ASSUME NEW r \in Requests, SavePreferences(r) PROVE StatusInv'
  <2>1. preference' # None
    BY <1>6, Carried, NoneIsNoRow DEF SavePreferences, Fits, ValidSaved, Saved
  <2>2. Rank[Computed] <= Rank[Computed']
    BY <1>6, <2>1, ComputedGrows DEF SavePreferences
  <2>3. request' = [request EXCEPT ![r] = [at |-> "settle", input |-> NoInput]]
    BY <1>6 DEF SavePreferences, Goto
  <2> QED
    BY <1>6, <2>1, <2>2, <2>3, WrittenStep DEF SavePreferences
<1>7. ASSUME NEW r \in Requests, Refresh(r) \/ Settle(r) PROVE StatusInv'
  BY <1>7, ComputingStep
<1>8. ASSUME NEW r \in Requests, SyncStatus(r) PROVE StatusInv'
  BY <1>8, StoringStep
<1>9. CASE VerifyEmail
  BY <1>9, VerifyingStep
<1>10. ASSUME UNCHANGED <<user, preference, request, overlapped, missed>> PROVE StatusInv'
  <2>1. Computed' = Computed
    BY <1>10, ComputedKept
  <2> QED
    BY <1>10, <2>1 DEF StatusInv, SettledAfterSaving, StatusNeverAhead, SyncNeverAhead,
       OneHandler, StatusInStep, Busy, Computed
<1> QED
  BY <1>2, <1>3, <1>4, <1>5, <1>6, <1>7, <1>8, <1>9, <1>10 DEF Next, Rename, vars

---------------------------------------------------------------------------
(* The replaced lists *)

ListStages == {"lookup", "define", "link", "create"}

LEMMA ListsInit == Init => ListsInStep
<1> SUFFICES ASSUME Init PROVE ListsInStep
  OBVIOUS
<1>1. Busy = {} /\ skills = submitted.skills
  BY DEF Init, Busy, Idle
<1>2. \A k \in Lists : rows[k] = submitted[k]
  BY DEF Init, Lists
<1> QED
  BY <1>1, <1>2 DEF ListsInStep

(* Where nothing overlapped, the handler of a step is the only one.        *)
LEMMA OnlyHandler ==
  ASSUME OneHandler, NEW r \in Requests, ~overlapped,
         request[r].at = "idle" => Busy = {}
  PROVE  Busy \subseteq {r}
BY DEF OneHandler, Busy

(* A step of a handler that is not replacing a list.                       *)
LEMMA UnrelatedStep ==
  ASSUME TypeInv, OneHandler, ListsInStep, NEW r \in Requests, NEW q,
         UNCHANGED <<skills, rows, submitted, faults>>,
         request' = [request EXCEPT ![r] = q],
         request[r].at \notin ListStages, q.at \notin ListStages,
         IF request[r].at = "idle" THEN overlapped' = (overlapped \/ Busy # {})
         ELSE overlapped' = overlapped
  PROVE  ListsInStep'
<1> SUFFICES ASSUME ~overlapped', faults' = 0
             PROVE  /\ skills' = submitted'.skills
                    /\ \A k \in Lists : rows'[k] = submitted'[k]
                    /\ \A t \in Busy' : request'[t].at \notin ListStages
  BY DEF ListsInStep, ListStages
<1>1. ~overlapped /\ (request[r].at = "idle" => Busy = {})
  <2>1. CASE request[r].at = "idle"
    BY <2>1
  <2>2. CASE request[r].at # "idle"
    BY <2>2
  <2> QED
    BY <2>1, <2>2
<1>2. ~overlapped /\ Busy \subseteq {r}
  BY <1>1, OnlyHandler
<1>3. /\ \A t \in Requests : t # r => request'[t] = request[t]
      /\ request'[r] = q
  BY DEF TypeInv, RequestsFit
<1>4. Busy' \subseteq {r}
  BY <1>2, <1>3 DEF Busy
<1>5. skills = submitted.skills
  BY <1>2 DEF ListsInStep, SkillsUnderWay, ListStages
<1>6. \A k \in Lists : rows[k] = submitted[k]
  BY <1>2 DEF ListsInStep, ListUnderWay, ListStages
<1> QED
  BY <1>3, <1>4, <1>5, <1>6

(* The steps that replace the skills.                                      *)
LEMMA SkillsStep ==
  ASSUME TypeInv, OneHandler, ListsInStep, NEW r \in Requests,
         \/ DeleteSkills(r) \/ FindExistingSkills(r)
         \/ CreateMissingSkills(r) \/ LinkSkills(r)
  PROVE  ListsInStep'
<1>1. /\ request[r].at \in {"delete", "lookup", "define", "link"}
      /\ UNCHANGED <<rows, overlapped, faults>>
  BY DEF DeleteSkills, FindExistingSkills, CreateMissingSkills, LinkSkills
<1>2. request[r].input \in Skills
  BY <1>1, Carried DEF Fits, DeleteSkills, FindExistingSkills, CreateMissingSkills,
     LinkSkills, ValidList, List, Lists
<1> SUFFICES ASSUME ~overlapped, faults = 0
             PROVE  /\ skills' = submitted'.skills \/ \E t \in Busy' : SkillsUnderWay(request[t])'
                    /\ \A k \in Lists : rows'[k] = submitted'[k]
                    /\ \A t \in Busy' :
                          /\ request'[t].at \in {"lookup", "define", "link"}
                                => SkillsUnderWay(request[t])'
                          /\ request'[t].at # "create"
  BY <1>1 DEF ListsInStep
<1>3. Busy = {r}
  BY <1>1, OnlyHandler DEF Busy
<1>4. \A k \in Lists : rows[k] = submitted[k]
  BY <1>1, <1>3 DEF ListsInStep, ListUnderWay
<1>5. \A t \in Requests : t # r => request'[t] = request[t]
  BY DEF TypeInv, RequestsFit, DeleteSkills, FindExistingSkills, CreateMissingSkills,
     LinkSkills, Goto, Finish
<1>6. Busy' \subseteq {r}
  BY <1>3, <1>5 DEF Busy
<1>7. \A k \in Lists : submitted'[k] = submitted[k]
  BY TypeHalves DEF DeleteSkills, FindExistingSkills, CreateMissingSkills, LinkSkills,
     StoreFits, Lists
<1>8. request[r].at # "delete" => SkillsUnderWay(request[r])
  BY <1>1, <1>3 DEF ListsInStep
<1>9. CASE DeleteSkills(r)
  <2>1. skills' = {} /\ submitted'.skills = request[r].input.slugs
    BY <1>9, TypeHalves DEF DeleteSkills, StoreFits
  <2>2. request'[r] = [at |-> IF request[r].input.slugs = {} THEN "refresh" ELSE "lookup",
                       input |-> request[r].input]
    BY <1>9 DEF DeleteSkills, Goto, TypeInv, RequestsFit
  <2> QED
    BY <1>1, <1>4, <1>6, <1>7, <2>1, <2>2 DEF SkillsUnderWay, Busy
<1>10. CASE FindExistingSkills(r)
  <2> DEFINE missing == request[r].input.slugs \ catalog
  <2>1. request'[r] = [at |-> IF missing = {} THEN "link" ELSE "define",
                       input |-> [request[r].input EXCEPT !.missing = missing]]
    BY <1>10 DEF FindExistingSkills, Goto, TypeInv, RequestsFit
  <2>2. /\ request'[r].input.slugs = request[r].input.slugs
        /\ request'[r].input.missing = missing
    BY <1>2, <2>1 DEF Skills
  <2>3. UNCHANGED <<skills, submitted, catalog>> /\ request[r].at = "lookup"
    BY <1>10 DEF FindExistingSkills
  <2>4. SkillsUnderWay(request[r])'
    BY <1>8, <2>1, <2>2, <2>3 DEF SkillsUnderWay
  <2> QED
    BY <1>1, <1>4, <1>6, <1>7, <2>1, <2>4 DEF Busy
<1>11. CASE CreateMissingSkills(r)
  <2>1. request'[r] = [at |-> "link", input |-> request[r].input]
    BY <1>11 DEF CreateMissingSkills, Goto, TypeInv, RequestsFit
  <2>2. SkillsUnderWay(request[r])'
    BY <1>8, <1>11, <2>1 DEF SkillsUnderWay, CreateMissingSkills
  <2> QED
    BY <1>1, <1>4, <1>6, <1>7, <2>1, <2>2 DEF Busy
<1>12. CASE LinkSkills(r)
  <2>1. request[r].at = "link"
    BY <1>12 DEF LinkSkills
  <2>2. skills = {} /\ request[r].input.slugs \cap catalog = submitted.skills
    BY <1>8, <2>1 DEF SkillsUnderWay
  <2>3. skills' = submitted'.skills /\ request'[r] = [at |-> "refresh", input |-> NoInput]
    BY <1>12, <2>2 DEF LinkSkills, Goto, TypeInv, RequestsFit
  <2> QED
    BY <1>1, <1>4, <1>6, <1>7, <2>3
<1> QED
  BY <1>9, <1>10, <1>11, <1>12

(* The steps that replace the rows of experience or education.             *)
LEMMA RowsStep ==
  ASSUME TypeInv, OneHandler, ListsInStep, NEW r \in Requests, DeleteRows(r) \/ CreateRows(r)
  PROVE  ListsInStep'
<1> DEFINE list == request[r].input
<1>1. ValidList(list)
  BY Carried DEF Fits, DeleteRows, CreateRows, Skills, Lists
<1>2. list.kind \in Lists /\ list.items \in Seq(Items)
  BY <1>1 DEF ValidList, List
<1>3. /\ request[r].at \in {"delete", "create"}
      /\ UNCHANGED <<skills, overlapped, faults>>
  BY DEF DeleteRows, CreateRows
<1> SUFFICES ASSUME ~overlapped, faults = 0
             PROVE  /\ skills' = submitted'.skills
                    /\ \A k \in Lists : \/ rows'[k] = submitted'[k]
                                        \/ \E t \in Busy' : ListUnderWay(request[t], k)'
                    /\ \A t \in Busy' :
                          /\ request'[t].at \notin {"lookup", "define", "link"}
                          /\ request'[t].at = "create"
                                => ListUnderWay(request[t], request[t].input.kind)'
  BY <1>3 DEF ListsInStep
<1>4. Busy = {r}
  BY <1>3, OnlyHandler DEF Busy
<1>5. skills = submitted.skills
  BY <1>3, <1>4 DEF ListsInStep, SkillsUnderWay
<1>6. \A t \in Requests : t # r => request'[t] = request[t]
  BY DEF TypeInv, RequestsFit, DeleteRows, CreateRows, Goto
<1>7. Busy' \subseteq {r}
  BY <1>4, <1>6 DEF Busy
<1>8. CASE DeleteRows(r)
  <2>1. \A k \in Lists : rows[k] = submitted[k]
    BY <1>4, <1>8 DEF DeleteRows, ListsInStep, ListUnderWay
  <2>2. /\ rows' = [rows EXCEPT ![list.kind] = << >>]
        /\ submitted' = [submitted EXCEPT ![list.kind] = list.items]
    BY <1>8 DEF DeleteRows
  <2>3. /\ rows'[list.kind] = << >> /\ submitted'[list.kind] = list.items
        /\ submitted'.skills = submitted.skills
        /\ \A k \in Lists \ {list.kind} : rows'[k] = rows[k] /\ submitted'[k] = submitted[k]
    BY <1>2, <2>2, TypeHalves DEF StoreFits, Lists
  <2>4. request'[r] = IF list.items = << >> THEN [at |-> "refresh", input |-> list]
                      ELSE [at |-> "create", input |-> list]
    BY <1>8 DEF DeleteRows, Goto, TypeInv, RequestsFit
  <2>5. CASE list.items = << >>
    BY <1>3, <1>5, <1>7, <2>1, <2>3, <2>4, <2>5 DEF Busy
  <2>6. CASE list.items # << >>
    <3>1. r \in Busy' /\ ListUnderWay(request[r], list.kind)'
      BY <2>3, <2>4, <2>6 DEF Busy, ListUnderWay
    <3> QED
      BY <1>3, <1>5, <1>7, <2>1, <2>3, <2>4, <2>6, <3>1
  <2> QED
    BY <2>5, <2>6
<1>9. CASE CreateRows(r)
  <2>1. request[r].at = "create" /\ ListUnderWay(request[r], list.kind)
    BY <1>4, <1>9 DEF CreateRows, ListsInStep
  <2>2. \A k \in Lists \ {list.kind} : rows[k] = submitted[k]
    BY <1>4, <2>1 DEF ListsInStep, ListUnderWay
  <2>3. rows[list.kind] = << >> /\ submitted[list.kind] = list.items
    BY <2>1 DEF ListUnderWay
  <2>4. << >> \o list.items = list.items
    BY <1>2
  <2>5. rows' = [rows EXCEPT ![list.kind] = rows[list.kind] \o list.items]
    BY <1>9 DEF CreateRows
  <2>6. \A k \in Lists : rows'[k] = submitted[k]
    BY <1>2, <2>2, <2>3, <2>4, <2>5, TypeHalves DEF StoreFits
  <2>7. /\ UNCHANGED submitted
        /\ request'[r] = [at |-> "refresh", input |-> NoInput]
    BY <1>9 DEF CreateRows, Goto, TypeInv, RequestsFit
  <2> QED
    BY <1>3, <1>5, <1>7, <2>6, <2>7
<1> QED
  BY <1>8, <1>9

LEMMA ListsStep == TypeInv /\ OneHandler /\ ListsInStep /\ [Next]_vars => ListsInStep'
<1> SUFFICES ASSUME TypeInv, OneHandler, ListsInStep, [Next]_vars PROVE ListsInStep'
  OBVIOUS
<1>1. ASSUME NEW r \in Requests, NEW operation, NEW stage, NEW input,
             Start(r, operation, stage, input), stage \notin ListStages
      PROVE ListsInStep'
  BY <1>1, UnrelatedStep DEF Start, Goto, ListStages
<1>2. ASSUME NEW r \in Requests,
             \/ getCurrentUser(r) \/ updateCurrentUser(r) \/ upsertProfilePhoto(r)
             \/ replaceSkills(r) \/ (\E kind \in Lists : replaceList(r, kind))
             \/ upsertPreferences(r) \/ patchPreferences(r)
      PROVE ListsInStep'
  <2>1. PICK operation, stage, input :
           Start(r, operation, stage, input) /\ stage \notin ListStages
    <3>1. CASE getCurrentUser(r) \/ upsertProfilePhoto(r)
      BY <3>1 DEF getCurrentUser, upsertProfilePhoto, ListStages
    <3>2. CASE updateCurrentUser(r)
      <4>1. PICK p : Start(r, "profile",
                 IF p.username \in {Keep, user.username} THEN "write" ELSE "check", p)
        BY <3>2, Zenon DEF updateCurrentUser
      <4> QED
        BY <4>1 DEF ListStages
    <3>3. CASE replaceSkills(r)
      BY <3>3 DEF replaceSkills, ListStages
    <3>4. CASE \E kind \in Lists : replaceList(r, kind)
      <4>1. PICK kind, input : Start(r, kind, "delete", input)
        BY <3>4, Zenon DEF replaceList
      <4> QED
        BY <4>1 DEF ListStages
    <3>5. CASE upsertPreferences(r)
      <4>1. PICK input : Start(r, "preferences", "save", input)
        BY <3>5, Zenon DEF upsertPreferences
      <4> QED
        BY <4>1 DEF ListStages
    <3>6. CASE patchPreferences(r)
      <4>1. PICK input : Start(r, "preferences", "save", input)
        BY <3>6, Zenon DEF patchPreferences
      <4> QED
        BY <4>1 DEF ListStages
    <3> QED
      BY <1>2, <3>1, <3>2, <3>3, <3>4, <3>5, <3>6
  <2> QED
    BY <1>1, <2>1
<1>3. ASSUME NEW r \in Requests,
             \/ CheckUsername(r) \/ WriteProfile(r) \/ SavePreferences(r)
             \/ Refresh(r) \/ Settle(r) \/ SyncStatus(r)
      PROVE ListsInStep'
  <2>1. /\ UNCHANGED <<skills, rows, submitted, faults, overlapped>>
        /\ request[r].at \notin ListStages \cup {"idle"}
    BY <1>3 DEF CheckUsername, WriteProfile, SavePreferences, Refresh, Settle, SyncStatus,
       ListStages
  <2>2. PICK q : q.at \notin ListStages /\ request' = [request EXCEPT ![r] = q]
    BY <1>3 DEF CheckUsername, WriteProfile, SavePreferences, Refresh, Settle, SyncStatus,
       Goto, Finish, Idle, ListStages
  <2> QED
    BY <2>1, <2>2, UnrelatedStep
<1>4. ASSUME NEW r \in Requests, Break(r) PROVE ListsInStep'
  <2>1. faults' # 0
    BY <1>4, OnboardingConstants DEF Break, TypeInv, TypeOK
  <2> QED
    BY <2>1 DEF ListsInStep
<1>5. ASSUME UNCHANGED <<skills, rows, submitted, request, catalog, overlapped, faults>>
      PROVE ListsInStep'
  BY <1>5 DEF ListsInStep, SkillsUnderWay, ListUnderWay, Busy
<1>6. CASE VerifyEmail \/ (\E n \in Usernames : Rename(n)) \/ UNCHANGED vars
  BY <1>5, <1>6 DEF VerifyEmail, Rename, vars
<1> QED
  BY <1>2, <1>3, <1>4, <1>6, SkillsStep, RowsStep DEF Next

LEMMA RangeStep ==
  TypeInv /\ StoredRangeIsValid /\ [Next]_vars => StoredRangeIsValid'
<1> SUFFICES ASSUME TypeInv, StoredRangeIsValid, [Next]_vars PROVE StoredRangeIsValid'
  OBVIOUS
<1>1. ASSUME NEW r \in Requests, SavePreferences(r) PROVE StoredRangeIsValid'
  BY <1>1, Carried DEF SavePreferences, Fits, ValidSaved, StoredRangeIsValid
<1>2. CASE \A r \in Requests : ~SavePreferences(r)
  <2>1. UNCHANGED preference
    BY <1>2 DEF Next, vars, getCurrentUser, updateCurrentUser, upsertProfilePhoto,
       CheckUsername, WriteProfile, replaceSkills, DeleteSkills, FindExistingSkills,
       CreateMissingSkills, LinkSkills, replaceList, DeleteRows, CreateRows,
       upsertPreferences, patchPreferences, Refresh, Settle, SyncStatus, Break,
       VerifyEmail, Rename, Start
  <2> QED
    BY <2>1 DEF StoredRangeIsValid
<1> QED
  BY <1>1, <1>2

---------------------------------------------------------------------------
(* The theorems *)

Inv == TypeInv /\ StatusInv /\ ListsInStep /\ StoredRangeIsValid

(* The invariant the theorems rest on: types, the status on its way to the *)
(* user row, and the list a handler is about to restore.                   *)
THEOREM Inductive == Spec => []Inv
<1>1. Init => Inv
  BY TypeInit, StatusInit, ListsInit DEF Inv, Init, StoredRangeIsValid
<1>2. Inv /\ [Next]_vars => Inv'
  BY TypeStep, StatusStep, ListsStep, RangeStep DEF Inv, StatusInv
<1> QED
  BY <1>1, <1>2, PTL DEF Spec

(* Every row and every value a handler carries has its type, and the       *)
(* stored list items satisfy the schemas.                                  *)
THEOREM TypeCorrect == Spec => []TypeOK
BY Inductive, PTL DEF Inv, TypeInv

(* However the handlers of a user interleave and wherever they break, the  *)
(* stored status is never ahead of the profile, the verified address and   *)
(* the preferences: a late write stores what is true by then.              *)
THEOREM StatusIsNeverAhead == Spec => []StatusNeverAhead
BY Inductive, PTL DEF Inv, StatusInv

(* Of operations that do not overlap, each leaves the computed status      *)
(* behind; only a verification or a broken handler delays it.              *)
THEOREM StatusInSequence == Spec => []SequentialStatus
<1>1. Inv => SequentialStatus
  BY DEF Inv, StatusInv, StatusInStep, SequentialStatus, Computed
<1> QED
  BY <1>1, Inductive, PTL

(* A patch is checked after the merge and the merged row is stored whole,  *)
(* so the stored salary range is valid under every interleaving.           *)
THEOREM RangeStaysValid == Spec => []StoredRangeIsValid
BY Inductive, PTL DEF Inv

(* Of replacements that neither overlap nor fail, each leaves exactly the  *)
(* submitted skills, experience and education behind, although deleting    *)
(* and inserting are statements of their own.                              *)
THEOREM ListsInSequence == Spec => []SequentialLists
<1>1. Inv => SequentialLists
  BY DEF Inv, ListsInStep, SequentialLists
<1> QED
  BY <1>1, Inductive, PTL

===========================================================================
