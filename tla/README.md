# Verification of the hobom-angel backend

TLA+ models of the backend in `src/` (NestJS, MongoDB through mongoose, hexagonal
modules under `src/src/hb-backend-api/`): a platform on which animal shelters
list animals, members apply to adopt or foster them, sign up for volunteer
events, and are erased when they have withdrawn. TLC checks the modules on small
instances; TLAPS proves the theorems of section 4 for every size.

Paths below are relative to `src/src/hb-backend-api/` unless they start with `src/`.

    tlc -workers 2 -config MCPlacement.cfg MCPlacement      # any MC module and .cfg
    tlapm PlacementProofs.tla

## 1. The system

### How everything runs

A use-case (`*/application/use-cases/*.service.ts`) is one HTTP or gRPC request.
Most are `@Transactional` (`src/src/infra/mongo/transaction/`): the runner opens a
session, the callback runs, the driver commits, and retries the whole callback on
a transient error. Four facts about that shape decide how everything is modelled:

1. **Reads are not in the transaction.** `findById` and its kin do not pass the
   session, so each read returns what is committed when it runs, and two reads of
   one use-case may see different moments.
2. **Writes are in it.** They become visible together, at the commit. Two open
   transactions that write one document conflict, and one of them aborts; so a
   guard that holds when the write is made still holds when it commits.
3. **Aggregates are saved whole and guarded by version.** `findOneAndUpdate({_id,
   version}, {..., $inc: {version: 1}})`, an `OptimisticLockException` otherwise.
   A save writes every field back as it was read. A few collections (refresh
   tokens, erasure tasks, likes, outbox rows) are updated without a version.
4. **Rows are inserted beside them**: the approval engine's action trail, outbox
   events, notifications.

So a use-case is several steps in the models: one per read, each leaving a copy
in the worker's record (`txn[w]`), and one commit that writes from the copies if
each document saved is still the one that was read. A write conflict, a domain
error, a crash and the driver's retry are all `Abort`: nothing is written, and the
use-case may start again.

### Inventory

| Component | State | Operations | Talks to | What is hard | What makes it correct | Module |
|---|---|---|---|---|---|---|
| Adoption applications (`adoption/`) | application: status, version | submit, approve and reject (as callbacks), return | animal, approval, outbox, notices | two applicants for one animal; decision against decision | an animal is promised once; request and application agree | Placement |
| Foster applications (`foster/`) | application: status, `endedAt`, `endReason` | submit, approve, reject, terminate, convert to adoption | as above | conversion against termination | as above; a converted foster becomes an adoption, never both or neither | Placement |
| Animals (`animal/`) | status, placement types, blind flag, version | register, reserve … relist, edit, blind, unblind, search | written by every placement use-case | long sequences of legal calls; stale whole-document saves | status explained by a live application; a blind is not undone by an edit | Placement; search in Pages |
| Approval engine (`approval/`) | request: type, subject, status; action rows | submit, decide with the callback of the type | all four request types | two deciders; a callback that fails | decided once, announced once | Placement, Membership |
| Members, roles, shelters (`user/`, `shelter/`) | user: nickname, roles, status; shelter: status, representative | register shelter, verify, promote, remove staff, sanction, reinstate, withdraw, rename, edit profile | approval, outbox, notices | unrelated use-cases save one user document | no grant or sanction is lost to another save | Membership |
| Guards and controllers (`*/adapters/in/`) | none of their own | 117 routes: open or signed; whom the use-case behind each answers | tokens, users | a role or an account changes while a request is served | served only to who has had the standing | Routes, Access |
| Authentication (`auth/`) | refresh-token rows: family, status | sign up, log in, rotate, log out, TTL | user | unversioned updates; rotation against rotation, log-out, erasure | a family is one line of tokens; logged out means out | Sessions |
| Volunteer (`volunteer/`) | event: status, seat count; sign-up; certificate | create, cancel, sign up, withdraw, decide, certify, hourly sweep | clock, notices | last seat; counter in one collection, roster in another | count = roster; one live sign-up per member; ended events close | Volunteer |
| Erasure (`src/src/shared/erasure/`, `dsar/`) | request and task markers; the members' data | daily sweep, bundles, failure path, verification | twelve destroyers, lock, user | crashes between bundles; two sweeps at once; lost commit answers | the tombstone is last; a marker is true; due members are erased | Erasure, Destroyers |
| Distributed lock (`src/src/shared/lock/`) | owner, expiry | acquire, take over, release | erasure sweep | holder dead or late | one unexpired holder | Erasure |
| Outbox (`outbox/`) | event rows: PENDING, SENT, FAILED; TTL | save, poll, mark sent, mark failed | an external relay over gRPC | late and duplicated marks; TTL on two fields | written with the state it tells of (Placement, Membership); sent stays sent; none waits for ever | Outbox; rows in Placement and Membership |
| Inquiries, messages (`inquiry/`, `messaging/`) | thread, messages | start, post, list | animals, shelters, notices | starting is several commits; a second request looks before the first has written | one thread per member and animal; both sides are told | Threads |
| Notifications (`notification/`) | rows, time read | create, list, mark one or all | their causes | written with their cause; two marks | once per transition; first time read stays | Threads; rows in Placement, Membership |
| Volunteer posts (`volunteer-post/`) | post with counters; likes, comments, bookmarks | create, delete, like, unlike, comment, … | user, erasure | counters beside rows, without versions | like count = like rows; comment count = comments | Posts |
| Policies, consents (`policy/`, `consent/`) | versions of a policy; consents | publish, grant, withdraw | user | publication against consent | one version in effect; consent is to it | Policies |
| Announcements, FAQs, questionnaires, reviews, reports (`announcement/`, `faq/`, `questionnaire/`, `review/`, `report/`) | versioned documents | write, edit, remove; define; resolve; the erasure of a text | adoption submit, erasure | two editors; an edit against an erasure; answers against a definition | no edit overwrites one it has not seen; a version names one text | Editorial |
| Favorites (`favorite/`), every listing, keyset pagination (`src/src/shared/pagination/`) | rows of fifteen kinds | add, remove, read page by page | — | rows come, go and move between pages | a reader misses and repeats nothing that stays | Pages |
| Adopter history, shelter and operator statistics (`adopter-history/`, `shelter-stats/`) | none: counts over applications | monthly adoptions, counts, history | adoption, erasure | the month is read off the last write; months are Korean | a month shows what was decided in it | Records |
| Idempotency keys, audit log, media, gRPC surface, cache, shared kernel, health | rows nobody reads, I/O, wiring | — | — | nothing concurrent depends on them | — | not modelled (section 6) |

## 2. The modules

    Custody <--refined by-- Placement  <-- PlacementInv  <-- PlacementProofs
    Roles   <--refined by-- Membership <-- MembershipInv <-- MembershipProofs
    Roster  <--refined by-- Volunteer  <-- VolunteerInv  <-- VolunteerProofs
    Routes <-- Access <-- AccessInv      Sessions <-- SessionsInv
    Erasure <-- ErasureInv               Posts <-- PostsInv
    Threads <-- ThreadsInv               Editorial <-- EditorialInv
    Pages <-- PagesInv                   Records <-- RecordsInv
    Outbox <-- OutboxProofs              Policies, Destroyers

    MCPlacement   Placement
    MCMembership  Membership
    MCMembers     Sessions | Access | Erasure (with Destroyers) | Volunteer
                  <-- ErasureProofs <-- MembersProofs (with VolunteerProofs)
    MCJobs        Volunteer | Erasure (with Destroyers) | Outbox, under fairness
    MCCommunity   Posts | Policies | Threads | Editorial | Pages | Records
                  <-- CountsProofs <-- CommunityProofs

A component's state, actions and properties are in the module of its name, its inductive
invariant (`IInv`) in the module whose name ends in `Inv`.

The components in MCMembers, MCJobs and MCCommunity share no state; the variable `part`, chosen in the
initial state, says which of them a behaviour moves (`|`), and a property of one is
stated for the behaviours that move it. A definition named after another with a slip
in it (`AnimalFresh` and `AnimalFreshNeverChecked`, `Release` and `ReleaseWhoever`) is
that definition with a plausible bug. No specification uses it: put in the place of
the other, it must break the property PROJECT.json lists it with, which shows that
the property can fail.

### Placement, Custody

State: `animal`, `app` (adoption and foster applications in one function),
`approval` (the request whose subject is the application), `rows` (how often each
kind of row about an application was inserted), `txn`.

| Action | Code |
|---|---|
| `Register` | `animal/…/register-animal.service.ts` (one insert, nothing read that matters) |
| `BeginSubmit`, `Authorize`, `CommitSubmit` | `submit-adoption-application.service.ts`, `submit-foster-application.service.ts`, `Animal.reserve`, `SubmitApproval` |
| `BeginDecide`, `Authorize`, `ReadApplication`, `ReadAnimal`, `CommitApprove`, `CommitReject` | `decide-approval.service.ts` with `adoption-approval.callback.ts` and `foster-approval.callback.ts` |
| `BeginFosterEnd`, `CommitTerminate`, `CommitConvert` | `terminate-foster.service.ts`, `convert-foster-to-adoption.service.ts` |
| `BeginReturn`, `CommitReturn` | `return-adoption.service.ts` |
| `BeginAnimalEdit`, `CommitRelist`, `CommitEdit`; `BeginBlind`, `CommitBlind` | relist, profile edit, the operator's blind and unblind |
| `Abort` | the transaction runner |

`Live(i)` is the heart of the properties: an application holds its animal while it
is pending, and while it is approved and has not ended. No operation cancels an
application: the enum's WITHDRAWN is reached by no code, and the model has no such
action. Who is active, staff or operator is fixed here; Membership and Access move it.

Custody is what all this promises about one animal: held by nobody or by exactly
one application, which takes it, gives it up, keeps it or brings it back, each
application once. Placement implements it with `stage` the animal's status,
`holder` the live applications and `spent` the others.

### Sessions

State: the members' accounts, the refresh-token rows, what each signed token
still says (`jwt`: expiry is independent of the row's), the requests in progress.
A family is named by the token its log-in issued. A rotation reads its token
outside the transaction (`Present`) and marks it and inserts the successor in
one step (`CommitRotate`), since overlapping transactions on the same rows
conflict and one of them is run again from its read. History variables: `parent`
(which rotation issued a token), `raced` (families with overlapping rotations of
one token), `loggedOut`, `cleared`. Sanctions and withdrawal are single steps;
the grace period of erasure is over-approximated.

### Volunteer, Roster

State: events with `signedUpCount`, sign-ups in order of creation, a clock per
event (before, started, ended), the requests, the copies a sweep has still to
save, the items certified. The partial unique index on PENDING sign-ups is the
guard of the insert. The certificate is checked one item at a time. Roster is the
abstract specification: who sits in which event, one step per operation.

### Erasure, with the lock, and Destroyers

State: accounts (active, withdrawn, due, erased), which categories of data exist
(`data`), the lock, and per instance and member the run: phase, tasks to do,
markers as stored. `Tasks` are the destroyers, of which the engine looks only at
key, priority, disposition and weight. `LoseBundle` is a commit whose answer is
lost, `AbortBundle` one that fails, `Drop` an error outside the tasks, `Crash` the
process's death; each may happen at each step. The members of one page are
handled in any order, which includes the code's chunks of eight. A request is run
only by the process that created it: that is the code (see Findings).

Destroyers is the table of the twelve registered destroyers: key, priority,
HARD_DELETE or ANONYMIZE, heavy (a bundle of its own), and whether only an active
account can add to the category (`gated`). `RegistryFits` is what the engine relies
on of the table (distinct priorities, the identity last and in the light bundle);
TLC evaluates it as an assumption. The instances take `Chosen`, one destroyer of
each kind that the engine and the properties tell apart: five of the twelve.

### Membership, Roles

State: user documents (status, administrator grants, staff grants), shelters,
approval requests, rows, requests in progress. Here version numbers would make
the state space infinite, so a request knows which of its copies somebody saved
since (`stale`): a save increments the version and the guard compares for
equality, so the guard holds exactly for a copy that is not stale.

| Action | Code |
|---|---|
| `RegisterShelter` | `register-shelter.service.ts` |
| `BeginEdit`, `ReadEdited`, `CommitEdit` | `edit-shelter-profile.service.ts` |
| `BeginPromotion`, `ReadCandidate`, `CommitPromotion` | `request-staff-promotion.service.ts` |
| `BeginRemoval`, `ReadRemoved`, `CommitRemoval` | `remove-shelter-staff.service.ts` |
| `BeginDecide`, `Authorize`, `ReadVerified`, `ReadGrantee`, `CommitVerify`, `CommitPromote`, `CommitReject` | `decide-approval.service.ts` with `shelter-verification.callback.ts` and `staff-promotion.callback.ts` |
| `BeginSanction`, `BeginReinstate`, `BeginOwn`, `CommitAccount` | sanction, reinstate, withdraw, change nickname |

Roles is the abstract specification: status and grants change one at a time, and a
grant is made only to a member who is active when it is made.

### Posts

State: posts with their two counters, comments, the like and bookmark rows, the
requests in progress. Nothing here has a version. A counter moves by `$inc` in the
transaction that writes the row, so the writes of a transaction are one step; what
a request reads first (does the post exist, whose comment is it) it reads before.
`$inc` on a deleted post and `deleteOne` of a deleted comment match nothing and say
nothing.

| Action | Code |
|---|---|
| `CreatePost`; `BeginOnPost`, `CommitDeletePost` | `create-` and `delete-volunteer-post.service.ts` |
| `CommitLike`, `Unlike`; `CommitBookmark`, `Unbookmark` | `like-` and `bookmark-volunteer-post.service.ts` |
| `CommitComment`; `BeginDeleteComment`, `CommitDeleteComment` | `comment-volunteer-post.service.ts` |
| `EraseLikes`, `EraseBookmarks` | `volunteer-post/adapters/erasure/` |

History variable: `doubled`, the posts of comments that two requests were deleting
at once. The members whose account is active are fixed.

### Policies

State: the versions of each type, the standing consents, the requests in progress.
A publication reads the next version outside its transaction and then archives and
inserts in one step, which the unique index on type and version may refuse. A grant
reads the version in effect, then the standing consent, then writes. History
variable: `overtaken`, the grants in whose course a version was published.

### Outbox

State: rows in order of creation with status and the two stamps the TTL indexes
look at; for each relay, the rows it has polled and not marked yet. The relay is
another program (hobom-event-processor), modelled from the calls this one offers
it: it polls PENDING or FAILED, publishes, marks as sent or as failed, dies in
between, and there may be two. Event types divide the outbox into independent
parts; the model is one of them.

### Routes, Access

Routes has one table per controller with one field per handler: `Open`, or `Signed`
with the standings any one of which the use-case behind the handler asks for (OWNER,
ACTIVE, STAFF of the shelter named, …). Access serves these routes: a token says only
who the caller is (`Arrive`), the use-case reads the user (`ReadActor`) and decides
(`Serve`, `Refuse`), while accounts are suspended and reinstated, grants given and
taken, tokens rotated and left to expire. History in a request: `stood`, its caller
has had the standing it needs at some moment since it arrived; `barred`, has been
suspended all the time. What a route then does is in the other modules.

### Threads

State: threads, messages, notices in order of creation, the shelter's staff, the
requests. Starting an inquiry is not a transaction: `OpenThread`, one `AlertNext` for
each representative, then the first message, each its own commit, and `Abort` between
any two. A message and its notice are one (`Send`). Marking is an update that matches
unread notices only (`Stamp`). History: `raced`, pairs of member and animal two
requests looked up at once; `cutShort`, threads whose opening was interrupted.

### Editorial

Five aggregates with one protocol: read outside the transaction, save under the
version read, which the save increments; removal and erasure look at no version. A
behaviour is of one `kind`, which says whether a unique index guards its key
(`keyed`), whether it is changed once (`once`), whether an erasure blanks it
(`erasable`). Each text written is a number of its own. An application keeps the
version of the questionnaire its answers were held against (`answered`). History:
`past`, the texts of each version and what their writers had read.

### Pages

One reader pages through one listing of `Listings`, which the repositories' queries
differ in: order, whether a row can leave the filter and come back, be deleted, or is
unique; whether the page is joined with other documents; whom it answers. A row's
identity is made before its insert commits (`Claim`, `Publish`), so rows appear out
of order. What is fetched are the `First` of the rows behind the cursor, in the
listing's order, and `CursorPage` is the cut of `limit + 1` of them; each page is a
request of its own. History: `reader.due`, the rows that were there from the first page
on and have not changed.

### Records

Applications with `updatedAt`, which every write stamps (`Stamped`), a clock, and the
figures as operators over them (`Shown`, the adoptions a month shows, `MonthlyAdoptions`,
their number, `AdopterHistory`), months being those of a time zone `Offset` ahead of the
clock, from the first instant (`Between`) to before the last. History: `decided`, when an
application was approved.

## 3. What is checked

| Run | Instance | Shows |
|---|---|---|
| `placement` | 1 animal, 3 applications, 2 concurrent requests, 4 saves of the animal | `OneHolder`, `NoOrphanHold`, `ApprovalMirrorsApplication`, `EffectsExactlyOnce`, `ModerationKept`, `CustodySpec`, and the inductive invariant `IInv` |
| `membership` | 1 shelter, a member and an operator, 3 requests, 2 workers | `VerificationAgrees`, `StaffAccounted`, `DecisionsTold`, `SanctionsHold`, `RolesSpec`, and `IInv` |
| `members` | Sessions: 1 member, 3 tokens, 2 requests | `OneLineUnlessRaced`: a family forks only by overlapping rotations of one token; `SuccessorSpendsParent`; `LogoutIsFinal`; `ErasedStaysOut` |
| | Access: 1 member, 2 shelters, 1 request on any route | `RevocationIsImmediate` |
| | Erasure: 1 member, 5 destroyers, 2 instances whose sweeps may overlap | `OneSweeperUnlessExpired`, `TombstoneIsLast`, `MarkersAreTrue` |
| | Volunteer: 1 event of 2 seats, 2 members, 2 sign-ups, 2 requests | `SeatsCounted`, `OneLiveSignup`, `CertificateEarned`, `RosterSpec` |
| `jobs` | Volunteer: 1 seat, 3 sign-ups, 1 request against the sweep | `EndedEventsClose` |
| | Erasure: 1 member, 1 instance that crashes at will | `DueIsErased` |
| | Outbox: 3 rows, batches of 1, 2 relays | `NothingStarves` |
| `community` | Posts: 1 post, 2 comments, an active and a withdrawn member, 2 requests | `LikesCounted`, `CommentsCountedUnlessDoubled` |
| | Policies: 1 type, 3 versions, 1 member, 2 requests | `OneInEffect`, `ConsentIsCurrentUnlessOvertaken` |
| | Threads: 1 animal, an active member, a representative, 2 threads, 2 messages | `OneThreadUnlessRaced`, `ParticipantsTold`, `ReadIsFinal` |
| | Editorial: 2 documents, 4 texts, 2 requests, each kind | `VersionNamesQuestions` |
| | Pages: 4 rows, pages of 1, each listing | `PagesCoverWhatStays` |
| | Records: 2 applications, 2 adopters, 6 instants, months of 2, offset 1 | `AdoptionsByMonthUnlessErased` |
| `sessions_reuse`, `sessions_single_use`, `access_suspended`, `erasure_resume`, `posts_comment_count`, `inquiry_twice`, `adoption_months` | as above | the violations of section 5 |

`members` and `community` also check `Shapes`, the inductive invariant of whatever moves,
which begins with its shape (for Policies the shape).

**Bounds, and why they are enough.** The hazards are races of two actors on one
document, so two workers and one contended document reach them.
Placement's `MaxVersion = 4` is the number of saves that leads an animal through
submit, approve, return and relist, or submit, approve, convert and one more; three
applications are two rivals and the adoption a foster converts to. Membership's three
requests are a verification and two promotions of one member, so that they can be
approved on both sides of a removal; a second ordinary member or shelter exceeds five
minutes. Three tokens are a log-in and two rotations, which may both be of the first.
In Access one request is enough: what it depends on is accounts and roles, and
requests do not touch those; the second shelter is the one whose grant must not help.
Erasure's `PageSize = 1`, `MaxPerRun = 2` makes both bounds of the sweep bite with one
member. In Posts the withdrawn member likes, unlikes and is erased while the other
does as much; the second comment is the one that must keep being counted while the
first is deleted twice. Three versions let a publication that read the first be
overtaken by two others. Two threads are what a race opens; four rows with pages of
one leave a row on each side of a cursor that moves. Six instants are three months
and a half-month's offset, and a trend of two leaves one month out of view. Rows and
batches of one make a row wait behind one that fails. Where larger instances are out
of TLC's time, the theorems of section 4 hold for every size.

Symmetry is used in runs of invariants and action properties only, never with
liveness.

**Deadlock** is checked in Placement and Membership, where something can always
happen. In the other three the bounds on tokens, sign-ups, versions, texts and rows let
a behaviour end: their configurations say so.

**Fairness.** Only `jobs` and `erasure_resume` assume any. Members and staff are never
assumed to act. In Volunteer the
cron reads its list again and again (weak) and not every save of an event loses
its race for ever (strong): `@Cron` fires hourly and a save that lost is tried at
the next. In Erasure time passes (the lock's lease ends), the sweep starts
again each day, and no step of it fails at every attempt (strong, per task: an
instance may still crash at each of them infinitely often). If a category's
destroyer failed for ever, the member would not be erased; the code does not claim
otherwise. In Outbox each relay polls what is PENDING again and again and marks each
row it has polled, one way or the other, in the end (strong: it may die with the row in
hand, not every time). The relay is not in this repository, so this is what is asked of
it; that a row is then never starved is what this repository's side of the contract
gives. With two instances, or two members, the liveness of Erasure is beyond TLC's
time; the safety run has two instances.

## 4. What is proved

By TLAPS, for any sets of members, animals, shelters, events, workers, … and any bounds,
every safety property of every passing run:

| Theorem | States | From |
|---|---|---|
| `PlacementProofs` | | `PlacementAssumption`: the role sets are sets of members, the null values are not elements |
| `InvariantHolds`, `TypesHold` | `[]IInv`, `[]TypeOK` | |
| `AtMostOneHolder`, `HoldsMatch`, `EngineAgrees`, `TrailIsExact` | `[]OneHolder`, `[]NoOrphanHold`, `[]ApprovalMirrorsApplication`, `[]EffectsExactlyOnce` | |
| `ModerationIsKept` | `ModerationKept`, an action property | |
| `ImplementsCustody` | `CustodySpec`, the refinement | |
| `MembershipProofs` | | `MembershipAssumption`: the operators are members, null values are not elements, `MaxRequests` is a natural number |
| `InvariantHolds`, `TypesHold` | `[]IInv`, `[]TypeOK` | |
| `ShelterAndRequestAgree`, `GrantsAreCounted`, `EachDecisionToldOnce` | `[]VerificationAgrees`, `[]StaffAccounted`, `[]DecisionsTold` | |
| `SanctionsStand` | `SanctionsHold`, an action property | |
| `ImplementsRoles` | `RolesSpec`, the refinement | |
| `VolunteerProofs` | | `VolunteerAssumption`: an event has a seat, null values are not elements, `MaxSignups` is a natural number |
| `InvariantHolds` | `[]IInv` (`VolunteerInv`), the shape included | |
| `CountMatchesRoster`, `OneLive`, `CertificatesEarned` | `[]SeatsCounted`, `[]OneLiveSignup`, `[]CertificateEarned` | |
| `ImplementsRoster` | `RosterSpec`, the refinement | |
| `ErasureProofs` | | `ErasureAssumption`: the identity's destroyer is anonymizing, not heavy, and last in an order without ties; page and limit are positive; null values are no instances |
| `ErasureInvariant` | `[]IInv` (`ErasureInv`) | |
| `OneSweeper`, `TombstoneLast`, `MarkersTrue` | `[]OneSweeperUnlessExpired`, `[]TombstoneIsLast`, `[]MarkersAreTrue` | |
| `MembersProofs` | | `SessionsAssumption`, `AccessAssumption`: null values are not elements |
| `SessionsInvariant`, `AccessInvariant` | `[]IInv` of each | |
| `OneLine`, `ReuseIsSeen`, `LogoutFinal` | `[]OneLineUnlessRaced`, `[]SuccessorSpendsParent`, `[]LogoutIsFinal` | |
| `ErasedStayOut` | `ErasedStaysOut`, an action property | |
| `RevocationReachesRequests` | `[]RevocationIsImmediate` | |
| `ShapesHold` | `[]Shapes` of MCMembers | |
| `CountsProofs` | | `PagesAssumption`: a page holds a row; `RecordsAssumption`: finitely many applications, a month has an instant, the offset is less than a month, a trend of one or more |
| `PostsInvariant`, `PagesInvariant`, `RecordsInvariant` | `[]IInv` of each | |
| `LikesCount`, `CommentsCount` | `[]LikesCounted`, `[]CommentsCountedUnlessDoubled` | |
| `PagesCover`, `AdoptionsByMonths` | `[]PagesCoverWhatStays`, `[]AdoptionsByMonthUnlessErased` | |
| `CommunityProofs` | | `PolicyAssumption`, `ThreadsAssumption`, `EditorialAssumption`: bounds are natural numbers, the representatives are members |
| `LastIsInEffect`, `ConsentIsCurrent` | `[]OneInEffect`, `ConsentIsCurrentUnlessOvertaken` | |
| `ThreadsInvariant`, `EditorialInvariant` | `[]IInv` of each | |
| `OneThreadForBoth`, `BothAreTold` | `[]OneThreadUnlessRaced`, `[]ParticipantsTold` | |
| `ReadFinal` | `ReadIsFinal`, an action property | |
| `VersionsNameTexts` | `[]VersionNamesQuestions` | |
| `CommunityShapes` | `[]Shapes` of MCCommunity | |
| `OutboxProofs!SentStaysSent` | `SentIsFinal` (in no run) | `MaxRows` is a natural number |

The invariants are proved of each component's own `Spec`. MCMembers and MCCommunity hold
most components as instances, and their runs check properties of `MCSpec`, in which one
of them moves; so the theorems about those properties are `MCSpec => …`, by `MCSpec`
implying the `Spec` of each component, its own or that of an instance whose state stands
still. `ConstantsFit`, in both modules, is the assumption that the constants meet each
component's; TLC evaluates it on the instances, `ErasureAssumption` on the registry of
`Destroyers`. Every `IInv` is checked by a run before it is proved (`Shapes`).

**Placement.** None of the safety properties is inductive: whether a commit keeps
them depends on what its request read earlier. The strengthening `IInv`
(`PlacementInv.tla`) has four parts:

- `Consistent`, the properties themselves with the well-formedness of an
  application: they lean on each other (`OneHolder` needs that a held animal is not
  AVAILABLE, which is `HolderSetsStage`; that needs the engine's agreement).
- `CopiesCurrent`: a copy is of an existing document, has its immutable fields, is
  never ahead of it, and *if it has the document's version it equals it*. This one
  sentence is why optimistic locking works, and why the version must be written by
  every save: the mutant `SaveAnimalSameVersion` breaks exactly it.
- `TxnsPrepared`: which copies a request holds at each of its steps, that is, that
  the use-cases read what they later save.
- `AbsentIsBlank`: an animal not yet registered has nothing to show.

The proof has a lemma for each way a step changes the state (reads, and each commit),
and one per conjunct. The refinement follows from `IInv` in both states.

**Membership.** `IInv` (`MembershipInv.tla`) is `Documents` and `Copies`. Documents:
requests are well-formed and numbered without gaps, each shelter has one verification
request, whose status goes with the shelter's, and its representative administers it
exactly when it is verified. Copies: a copy that nobody saved since (`stale`) is the
document, and a use-case about to commit has checked on its copies what the properties
need of the documents. A commit then acts on the documents themselves, and whoever
holds a copy of one it saved becomes stale (mutant `FinishSameVersion`: a save that
does not move the version). The count of `StaffAccounted` goes by adding one element to
a finite set. The refinement: every save of a user is one of the steps of Roles, or
none, by the copy's being the document.

**Volunteer.** `IInv` (`VolunteerInv.tla`) again is `Documents` and `Copies`. A member
who had no live sign-up when it was looked for has none as long as the event's version
has not moved (`Unseated`), since whoever takes a seat saves the event: this is what
makes `OneSeatEach` inductive although the unique index covers PENDING rows only, and
the mutants `CheckLiveSkipped` and `EventFreshNeverChecked` break its two halves. Each
commit is first shown to be one of three changes of the documents, `Joins`, `Leaves` and
`Stays`, from what its copies are worth; that the count follows the roster then is the
library's arithmetic of adding an element to a finite set or removing it. A copy that is
withdrawn or rejected was live, so its seat is in the count and the count is not zero:
the code's "never below zero" never bites. For the refinement, an event seats no more
members than it counts (a surjection from sign-ups to members).

**Erasure.** `IInv` (`ErasureInv.tla`) has a half about data and one about locks, and
no step needs both. Data: a run is of a member whose grace is over, so whatever it has
marked, or has taken from its list, is gone and does not come back (`RunsTrue`). Bundles
are taken in the order of priority, the identity's is last and not heavy, so the bundle
with the identity is always the whole rest of the list: with the tombstone the last
gated data goes. That a bundle begins with the least priority of the list is by the
well-foundedness of the natural numbers. All this holds whichever sweeps overlap, and
needs no lock. Locks: a sweep that has not outlived its lease holds it, the lease is
taken only when free or expired, and given back only by its owner.

**Sessions.** No write looks at what it overwrites, so no step is safe by its guard. What
holds is that none makes an issued row unused again: a step issues a token, begins a
rotation, or only lets rows age (`Ages`: spent, revoked, deleted), and the third kind is
argued about once. What is left is the commit of a rotation. A second successor of a token
means that another rotation of it committed since this one read it, so its family is in
`raced`; the family of a log-out is issued (`LoggedOutIssued`) and without an unused row.

**Access.** As long as a request has not read its member, whatever would pass at this
moment has been witnessed (`CallFits`); what it reads is what would pass then, and is not
read again.

**Posts.** Without versions there are no copies to compare. `IInv` says that rows are of
posts that were made and requests of rows that were there, so a new post has none, and
each write of a row moves the counter by what it moves the set of rows (adding one element
to a finite set or removing it). The exception is the deletion of a comment that is gone
already: by then another request had deleted it, which had begun before this one ended
(`Twice`), so the post is in `doubled`, and the count is too low, never too high.

**Pages.** Whatever is due to the reader is visible, and is seen, on the page in hand, or
behind the cursor (`DueIsAhead`); what is seen is not behind it (`SeenUpToCursor`). A page
is the first rows behind the cursor, by counting those before a row; of a finite set of
rows one is first and one last, so what the page leaves out is behind its last row, and
without an extra row it leaves nothing out. For a unique listing two rows of one target
are not there at once (`OneOfTarget`), though both may be claimed.

**Records.** Until an adopter is erased the last write of a standing adoption is its
decision (`LastWriteDecided`): approving or converting stamps it, and nothing else writes
it. An erasure ends the hypothesis in the step that stamps. The instants of a bucket are
those of its month (`BucketIsMonth`, from what integer division is), so the months shown
are disjoint and each shows what was decided in it.

**Policies.** The versions of a type are `1..last` and only `last` is in effect; a
publication under way carries a version all of whose predecessors are written, so the
unique index lets it through only when it is `last + 1`. A grant not overtaken holds the
version in effect.

**Threads.** Who has looked in vain for a thread and not opened it yet is alone with its
pair of member and animal, unless the pair is in `raced` (`OpensAlone`), so it opens the
only one. Who is told of what is counted: a message and its notice go together, and a
thread that was opened owes one notice to each operator its request has left to alert,
which is one request per thread (`AlertsOnce`). A mark matches unread notices only.

**Editorial.** The history of a document has one text for each version, the last of them
the text stored unless it was blanked (`DocTrue`), and what a request has read is the
text of the version it read, or was blanked since (`HandTrue`). A save that finds the
version unmoved therefore writes over the text it read. A questionnaire is not removed,
so the versions answers were held against stay.

**Outbox.** A row that waits has no stamp, so no TTL index reaches it; a mark is let
through only on a row that waits or failed.

Only model-checked: the liveness properties `EndedEventsClose`, `DueIsErased` and
`NothingStarves`, since liveness under fairness and `ENABLED` are out of the prover's
reach. So is induction over data: the proofs about lists, counts and cuts use the
library's facts about finite sets and well-founded orders instead, and no module has a
recursive operator. `SentIsFinal` is proved and in no run.

## 5. Findings

Five comments of the code claim what the code does not do, and two figures go wrong;
each has a run whose counterexample shows it.

1. **Reuse of a refresh token does not revoke its family** (`sessions_reuse`).
   `refresh-token.service.ts:49` revokes the family and then throws; `rotate` is
   `@Transactional`, so the throw rolls the revocation back. The class comment (lines
   14-17) promises the revocation. The unit test passes because its transaction
   runner is a stub.
2. **A refresh token can be rotated twice** (`sessions_single_use`). The status is
   read outside the session and `markRotated` updates by `jti` alone: of two
   overlapping rotations the second, retried after the write conflict, does not look
   again. `refresh-token-payload.ts:2-3` speaks of single-use rotation.
3. **An interrupted erasure request is never resumed** (`erasure_resume`).
   `claimInProgress` matches PENDING only and only the creating process executes a
   request; a later sweep erases the member through a new one (`DueIsErased` holds).
   `destroyer.abstract.ts:18-19` says the engine resumes after a crash.
4. **A comment deleted twice at once is counted down twice** (`posts_comment_count`).
   `comment-volunteer-post.service.ts:74` reads the comment outside the transaction;
   line 89 does not look at whether it deleted anything, and line 90 counts down. The
   class comment (lines 26-27) says the count is kept in step with the comment write.
   `CommentsCountedUnlessDoubled` shows that this is the only way it goes wrong, and
   that the count is then too low. The like service looks at what it removed, and
   `LikesCounted` holds.
5. **A suspended member of the staff is served** (`access_suspended`).
   `canManageShelter` and `hasShelterRole` (`user.ts:120-128`) look for the grant and not
   for the account's status, and neither the guard nor the rotation reads the account.
   `sanction-user.service.ts:20-21` says the existing gates block a suspended member
   everywhere; `user.ts:212` that suspension blocks all actions.
   `RevocationIsImmediate` shows what does hold: the loss of the grant is felt at once.
6. **One member can have two threads about one animal** (`inquiry_twice`).
   `start-inquiry.service.ts:67` looks and then creates; no index is unique
   (`inquiry.schema.ts:11`). `inquiry.ts:10` and `inquiry.schema.ts:10` say there is at
   most one. `OneThreadUnlessRaced` shows that two overlapping requests are the only way.
7. **An erasure moves adoptions between months** (`adoption_months`). The destroyer of
   adoption applications stamps `updatedAt` on them
   (`adoption-application.destroyer.ts:40`), and the dashboards count by it
   (`adoption-application.repository.impl.ts:104`), although
   `get-admin-stats.service.ts:22-23` counts "by the month their decision landed".
   `AdoptionsByMonthUnlessErased` shows the figures right until then.

Seen while modelling, without a run: `approval-query.port.ts:11-12` says that at most
one PENDING request exists per subject and type, and
`request-staff-promotion.service.ts:70` submits one without looking for another (no
index forbids it). `StaffAccounted` is checked and proved over two such requests:
approving both still grants once. A rotation reissues the nickname of the old payload
(`refresh-token.service.ts:54`); only `roles.guard.ts:43` looks a member up by it, and it is
on no route.

## 6. What is not modelled, and why

- Tokens' signatures, password hashing, mail, formatting, logging, throttling: no
  property is about them. The applicant's answers, names, addresses and nicknames are data.
- Idempotency keys: `reserve` has no caller, so there is nothing to compose it with.
- The audit log: append-only rows in the transactions modelled; nothing reads them back.
- Media (signed URLs of an object store), the gRPC surface, the cache, health, the shared
  kernel, mappers, DTOs and ports: I/O and wiring without a state of their own.
- `roles.guard.ts` is registered and on no route; Routes has what the use-cases ask.
- Aggregate methods no use-case calls (`Shelter.resubmit`, `suspend`, `reinstate`,
  `addRepresentative`) and statuses no code reaches.
- The driver, MongoDB and the relay are external: their parts are modelled from how this
  code uses them.

## 7. What could be added

1. Composition: roles that move under Placement's requests, as they do under Access's.
   (The destroyers' unversioned writes need none against the saves of applications:
   `toMutablePatch` does not write the answers back, and the anonymization of a user
   moves the version.)
2. Proofs: the refinements the components without an abstract specification could have (a
   family of tokens as one session, a listing as a sequence), and the invariants behind the
   liveness properties: that an event closed stays closed, and a member erased stays so.
