# UBS Mona, specified

TLA+ modules, TLC configurations and TLAPS proofs about the programs of the
`ubs-mona-mr` repository: a TypeScript monorepo of NestJS services (users and teams,
ownership, files, comments, documents and blogs, an LLM chat, an IP blocker) and of
the libraries they stand on (the client of the Engine5 message bus, a cache, a mutex,
a task queue, a load balancer), with the tool that releases those libraries.

Node runs one callback at a time, so one synchronous stretch of code is one step here
and every `await` is a place where others come in between. Data lives in MongoDB, where
one command on one document is atomic and two commands are not: nearly all the hard
questions about this code are about what happens between two commands of one request.
There are no transactions, several processes run the same service (`LoadbalancedProxy`
forks `UBS_MAIN_PROCESS_COUNT` of them, three in `infrastructure/docker-compose-full.yml`),
each with caches, queues and crons of its own, and any of them may stop at any await. A rejection that nobody handles ends a Node process in its default
mode; the models let the process go on, which has the shorter behaviours as prefixes of
its own, and liveness is stated of processes that do go on.

A save of a mongoose document writes only the fields that differ from what was loaded.
An array that was set as a whole is written on the condition that the version is still
the one that was loaded; a `$push` has no condition and raises the version; a save of a
document that was deleted fails; `new this.m(doc).save()` writes every field. Several
modules have an operator `Written`, `Matches` or `Refused` for this, marked external in
`PROJECT.json`.

## 1. Inventory

### What is modelled

| Part | State | Operations | Correct when |
| --- | --- | --- | --- |
| `libs/async-mutex` | `busy`, the queue `waiters` | `run`, `execute` | bodies never overlap and start first come first served, also when tasks throw |
| `libs/dynamic-queue` | tasks, `busy`, what is subscribed to | `push`, the end of a task | one task at a time, in order, and a failed one does not stop the queue |
| Team membership (`entity-ownership-group.service.ts`, its member controller and assertions) | members of a team with capabilities, the version of the document, invitations | add, change, remove, invite, accept, refuse, withdraw, delete the team | concurrent changes of different members are all kept, a removal leaves an owner, an owner's right is checked at the write, an invitation is not lost |
| Start-up migration of teams (the same service) | old capability strings of members and invitations | migrate groups, migrate invitations, with replicas that serve already | a replica that serves has migrated everything and has undone nothing |
| Team creation with a retry key (`createGroup`) | teams by `creationKey`, the unique index | create, retry, delete | a retry never makes a second team and never gets one made from another input |
| Ownership of entities (`entity-ownership.service.ts`) | per entity: owning team, users, version | `ensureTeamOwnership`, insert, edit, grant, revoke, delete, migration at start-up | an acknowledged team stays the owner until someone who knew overrules it; no save loses a grant |
| Capabilities (`users-common/capability.ts`, the checks and searches of ownership) | the ownership of an entity, its team, cached answers | check, search, grant, revoke, invalidate | what a process has cached is as old as the last change it knows of; a search finds what a check finds, if each alternative asks for something |
| Engine5 message handling | processed ids with their age, callbacks, acks, answers | events, requests, clean-up, `close` | an event is not handled twice in two minutes, is consumed in the end, and a request is answered |
| Engine5 connection | status, sockets old and new, timers, requests under way | connect, reconnect, greet, refuse, end, close, `sendRequest`, timeouts | CONNECTED means a greeted socket, attempts end, written requests settle |
| Engine5 Nest server | handlers, two mutexes, what each socket was told | `addHandler`, `listen`, LISTEN again after a reconnect | a new socket learns every registered subject; registering ends, whatever fails |
| `libs/cache-manager` | entries, expirations, one timer, loads in flight | `getOrCallAsync`, `put`, invalidation, `clear`, the timer | one load per key, a load that fails later leaves no promise behind, no entry without an expiration, nothing old except by a race it cannot see |
| CRUD base and lists (`crud-base`, feedback, projects, templates) | one document; a list and its reader | create, edit, remove, the operation of a derived service; pages | what was resolved or removed stays so; a list read to its end is read whole |
| IP blocker and its log watcher | the record of an address, its iptables rules; the log, a timer | penalise, release, start-up, iptables; change, pause, read | points are earned, a restart puts active bans back and releases those that are over; the line before a pause is reviewed |
| Accounts (`libs/users-webservice`) | users, registrations (candidates), changes of address, links for a new password; roles, activity, suspension; the answer each process has cached | register, renew, activate, create, edit, delete, new password, change of address, forgotten password, the first account, the crons, roles, `user-by-id` | a key proves its address, one link per user, nothing is lost when a request dies, edits of different fields are all kept, the process that removed a user forgets them |
| File service | one file with its scales, the queue of last fetches | upload, tag, proxy, scale, remove, cron | scales are of the stored file, a kept file stays, an answered proxy is stored |
| Comments | a comment with votes; metas with counts and bans; restrictions | vote, answer, edit, delete; comment, moderate, restrict | only a user changes that user's votes, the tally and the counts add up, who is kept out stays out |
| Documents and blog posts (`greenhat-webservice`) | a tree of documents; posts with slugs and texts | add, rename, fill, remove; create, change, publish, remove | paths follow the tree and removals are complete; a public post has text and keeps its date |
| LLM chat | sessions, messages, answers, the cron, the bus | insert, cron, generate, save parts, finish | one answer at a time, whole and in order; a message is answered |
| Load balancing proxy | workers, ports, the list of processes | fork, listen, die, restart, request | requests have a target, and workers listen again |
| Import of countries (`cscd-webservice`) | three collections | import, `CSCD_REINIT`, failure, death | no locality without its subdivision and country |
| Library release (`src/tools`: `xr publish-libs`, `patch-libs`, `set-latest`) | build directories, imports, the registry, the patched project | scan, compile, embed, publish, patch, tag | a package is of one version, has what it imports, and a finished release is closed |

How they interact: the services of users call the cache around their reads and
invalidate it after edits (`CacheManager` has both sides; `EntityAccess` and `UserRights`
have the two users of it where an old answer decides what somebody may do); other
services reach the ownership operations over the bus, whose halves are `Engine5Handler`
(what a process does with messages), `Engine5Connection` (the connection they arrive on)
and `Engine5Subscriptions` (how handlers and connection meet, under two `AsyncMutex`es);
the file service saves through a `DynamicQueue`; the log watcher calls the IP blocker;
comments, sessions, posts and CRUD lists are read through the pages of `SearchPages`.
Teams appear in five modules, since each question needs other parts of their state: who
is in a team (`EntityOwnershipGroup`), that it exists once (`GroupCreation`), what it owns
(`TeamOwnership`), what its members may do (`EntityAccess`), and what an earlier release
has left in it (`TeamMigration`).

### Not modelled

* **Notifications** (`notify-webservice`): templates are a service of the CRUD base, and
  mail is handed to a library. The one operation of its own, the change of a global
  variable, writes a field that the schema declares as an array and the code uses as an
  object with a key for each language; what is stored depends on how mongoose saves
  named properties of an array, and cannot be told from this repository.
* **Generators under `tools/`** (controllers to documents and clients): one pass over a
  syntax tree, text in and text out.
* **Microservice clients, web proxy, file helper, transport set-up, schemas and DTOs, the
  applications' wiring**: no state of their own. Their requests arrive in the modules of
  the services; indexes and defaults of the schemas are in those modules.
* Within modelled parts: uploads with mode `continue` (no caller uses it), the conversion
  of images and the rights to view a file; what the searches of comments filter by; the
  thinking stages, model list and server-sent events of the chat; the closing stage of
  the proxy and the forwarding itself; `editMeta` of a team; the two switches of the IP
  blocker set to false; mails except the one with the activation key; the deprecation and
  staging of libraries. `PROJECT.json` says so at each component.

Behaviour that no document denies has no property: a capability withdrawn after the last
assertion does not stop a request; the only owner may lower their own capabilities
(`updateUserCapability` has no last-owner check); an expired registration can be activated
until the cron removes it; two uses of one link at once both change the password, and
after a stop before its deletion it works again; an approved change of address stays
stored, is not checked against other users again and can be approved again; an invitation
survives a failure between the push and its deletion and can be accepted again after a
removal; a user is listed in a team twice by two concurrent grants of ownership; `$pull`
does not raise the version, so that the migration at start-up can bring back a user
removed meanwhile; writing CONSUMING_ERROR is neither awaited nor caught; a `sendRequest`
whose own socket fails waits for ever although the reconnect timer soon connects; the
group handlers of the users service invalidate the cache before they write.

## 2. Modules

One module per component with `VARIABLES`, an initial predicate, one action per handler
or per stretch between two awaits, a next-state relation and the properties; constants
are parameters with named assumptions where a proof needs them. A definition whose name has a suffix after an underscore and whose
comment begins with "bug:" is a mutated form of the definition after it; the runs are
shown to notice each of them. `PROJECT.json` maps each definition to its lines.

Parts that are small are put side by side: `SmallParts` (those with liveness) and
`Services` (those with safety only) instantiate one module for each part and pass their
constants on; a behaviour is one of the part that the variable `part` names, and the
properties speak of that part. Nothing is shared between them but the names of some
variables, which only the part at hand uses. `MCSmallParts` and `MCServices` give the
constants their values, so that there is one model checking run for each of the two, and
`SmallPartsProofs`, `ContentProofs` and `PlatformProofs` have the theorems. (Those about
`Services` are in two modules because the prover takes seven minutes for each.)

### Libraries

**`AsyncMutex`, `FifoLock`.** `Run` is a call of
`run` (start or queue), `Finish` the end of a task with the hand-over in `finally`.
`FifoLock` is the abstract lock: a queue of tasks whose head holds it. The refinement
takes the running task followed by `waiters` as that queue.

**`DynamicQueue`.** `push` starts the queue or only appends, `complete` and `error` are the
end of a task, with `runFirst` of the next in the same stretch. It refines `FifoLock`,
too: a failed task lets the next one in.

**`CacheManager`, `CacheManagerProofs`, `MCCacheManager`.** Times are kept as the time
that is left. `Hit`, `Join` and `Load` are `getOrCallAsync` up to its first await, `Read`
is the moment at which the callback reads the data, `Loaded` and `Fails` its end; `Throws`
is a callback that throws before it gives a promise (`Malformed` says which reads do), whose
`finally` has run when its rejected promise is noted; `Save`
and `Invalidate` an edit of the CRUD base; `drainExpirations` the timer.

**`LoadbalancedProxy`.** Slots of the start-up loop with the number of their fork;
`Spawn` asks for a free port, `AppReady` listens on it or `PortTaken` finds it taken;
`Close` is the splice of the list, which keeps the closed process and drops the others.

**`CrudService`.** One document. An edit loads it and saves a copy with every field; the
operation of the derived service (`Mark`: the resolve of a message, the remove of a
project) writes what it has changed.

**`SearchPages`.** One reader of a list of comments, sessions, posts or CRUD documents:
`Begin`, `FindOwned` (where only what belongs to the reader is asked for), `modelSearch`
or `FindPosts` and `CountPosts`, `Turn` to the next page until `lastPage`; rows come, go
and change in between. The arithmetic of sizes and pages is the code's, with sizes of
−1 and 0.

**`LibraryBuild`.** A command loads libraries in the order of the directories, compiles
all, arranges them by the number of their imports, and digests one after the other
(`digest`: a peer dependency or a copy below the library, with the imports replaced);
then it publishes, patches, or tags. `Killed` and the failures leave the directories as
they are for the next run; the registry refuses a version it has.

### The bus

**`Engine5Handler`, `Engine5Proofs`.** `Deliver`, `Consume` (an event and its callbacks,
one after the other), `Take`, `Reply` (a request), `Tick` (time), `Listen`, and `Forget`,
which is what `close()` does to the marks. Each delivery
runs on its own, as nobody awaits `processIncomingData`.

**`Engine5Connection`, `Engine5Proofs`.** Sockets are slots that are reused
when a socket has reported `close` and its timer has run out. Events of a socket that is
no longer `tcpClient` act on the shared state, as the listeners of the code do.
`OpenSocket` is `_init`; `Connects`, `Greets`, `Refuses`, `Ends`, `Closes` are what the
network and the server do; `Send`, `Written`, `Respond`, `TimeOut` are a request.

**`Engine5Subscriptions`.** The composition of handlers, the server and both mutexes.
`listen` is the start of the server, `BecomesReady` the subscriptions to
`connectionIsReady`; `generalQueue` and `writeQueue` are the mutexes with what runs at
their heads; `WriteEnds` is the callback of a write, which ends a `listen()` and begins
the next; `Connects` says CONNECT and listens again. Sockets are numbered as they are
made; `heard` is what the server has read of each.

### Users and teams

**`EntityOwnershipGroup`, `OwnershipProofs`, `MCEntityOwnershipGroup`.** One
team. A request arrives with an operation and walks through its commands: the assertions
of the controller (`AssertMay`, `AssertOwner`, `AssertGive`), the read of the service
(`ReadUpdate`, `ReadRemove`, `ReadJoin`), the write (`Replace` with the version
condition, `Push` without one), and for invitations `FindInvite`, `FindTeam`,
`ConsumeInvite`. Members are a set of entries with the version at which they were
added, so that a user may be listed twice, as in the array. A request may die before any
command. Capabilities are sets; the checks on them are translated by their outcome.

**`GroupCreation`, `GetOrCreate`.** `Find`, `Save`, `FindAgain`
are the three commands of `createGroup`; `Lose` and `LoseAfterSave` are a reply that
never comes, without and with effect. `GetOrCreate` is the promise of the repository's
README as one atomic step; the refinement is the identity on groups, requests and
answers.

**`TeamOwnership`, `OwnershipProofs`, `MCTeamOwnership`.** Ownership documents of
some entities, with ids (a document that was deleted and made again is another one) and
versions. `Operations` are the requests, and `command` says which of its commands each is
at. All operations, the start-up migration and the deletion of teams run
interleaved at their commands; `acknowledged` is a history variable, the teams told that
they own an entity and not overruled since.

**`EntityAccess`.** One entity, one team. A check walks through `LookAtEntity`,
`LookAtGroup` and `LookAtRoles`, a search through `FindTeams` and `FindOwnerships`, and
both through the cache (`Ask`, `Waiting`, `Settled`); a grant is `Update`, `FindAgain`,
`Push`, a withdrawal `RemoveOrDelete`, and each ends in `Invalidate`, which forgets the
keys that `Matching` says, in the cache of its own process: keys carry the process (`at`),
and `Wrote` notes in `excused` and `raced` what the other processes have and are loading.
`hasCapabilityFromInnerArray` is the check in JavaScript, `searchByUserRaw` and
`findEntityOwnershipGroupsByUser` are the queries, where `Offers` is `$all`: it matches
nothing if it is asked for no capability.

**`TeamMigration`.** One team and one invitation of an earlier release, and replicas that
start (`FindGroups`, `SaveGroup`, `FindInvites`, `SaveInvite`), serve requests on that
team, die and are started again.

**`Accounts`, `AccountsProofs`, `MCAccounts`.** An operation is a path through commands
that several operations share: `CheckUsers`, `CheckForms`, `CheckOthers` (is it free?),
`LoadForm`/`SaveForm`, `LoadUser`/`SaveUser`, `FindKey`/`DropForm`, `FindLink`/`DropLink`
and so on; `Arrive` chooses the operation, what is typed and whose account is meant.
`Written` is mongoose's save: the fields that differ from what was loaded. Documents,
passwords and keys are named by the request that made them, so that two are equal only
if they are the same. What is typed may be in upper case; it is stored in lower case and
looked up as it was typed. `insertNewRequest` of a change of address begins with a
`deleteMany` that nobody awaits; mongoose does not execute such a query, and it is left
out. `mailed`, `mixed`, `crossed`, `served` are history.

**`UserRights`.** One user: `insertRole` pushes, `userFullFromUser` (an administrator's
form) sets roles, activity and suspension, `deleteOne` and `invalidate` remove; `Arrive`,
`FindForCache`, `PutInCache` and `Expire` are the answer `user-by-id` that other services
let users in by. Each process has its own; `invalidate` clears that of the process the
removal came to, and `excused` names those whose answer is known to be old.

### Services

**`FileService`.** Requests read (`Find`, `Serve`, `Queue`), scale (`NewScale`), save;
uploads, tags and proxied images find the document, set it and save (`Insert`, `Update`,
`SaveDoc`, `SaveRefused`); `SaveLastFetch` is the queue, with the document as it was
loaded; `Delete`, `Invalidate` and `HandleCron` remove. The requests may be of any process; the
cache and the queue are those of one.

**`CommentVotes` and `Commenting`.** One comment and its votes (`Push`, `Splice`, `Tally`,
a `Save` nobody waits for); and the entity around it: `FindMeta`/`CreateMeta`,
`checkCommentingAbilities`, `insertComment`, `increaseExisting`, `Moderate`, and
restrictions that run out (`Elapse`).

**`Documents` and `BlogPosts`.** A tree whose documents copy path and ancestors from a
parent read before (`CheckName`, `FindParent`, `Save`); a removal that reads its matches
once and updates them one by one (`Match`, `Deactivate`). Posts that are loaded, changed
by `applySave` or `setPublished`, and saved against an index of slugs.

**`RealtimeChat`.** `Insert` is the request of a user, `CronCounts` and `CronFinds` the
cron, `GenRead` to `GenFails` an answer, `Receive` and `saveGeneratedAnswer` the handlers
of its events, `finishSession` the last one, `HandlingFails` one that finds no message or
session or whose save fails. The text of an answer is the sequence of the parts that were
appended. One process is modelled, with its cron.

**`CscdImport`.** `Start`, `Clear` (not awaited), `Download`, `InsertMany` for each level in
two parts, `Fail`, `Die`; a process that died is started as another.

**`IpBlocker`, `IpBlockerProofs`.** One address: addresses share nothing. `Find`,
`Upsert`, `Save`, `Iptables` are the commands of `penalize` and `heaven`; `List` is
`syncStartupState`; `Restart` kills the process at any point, with or without the loss
of the host's rules. A time of release is ahead, past, or past since before the start,
which is all the code distinguishes.

**`LogWatcher`.** Lines that are written, the event `change` when the kernel likes
(`Changes` restarts the pause), `TimeoutFires`, `processLastLine`, and a rotation, after
which another file has the name.

## 3. What TLC checks

| Run | Instance | Shows |
| --- | --- | --- |
| `small_parts` | seven parts: 3 creations of 2 users under 1 key; 4 calls of the mutex; 4 tasks of the queue; 2 workers, 2 deaths, 1 error of the server; 2 messages to one session or two, answers of 2 parts (the messages are alike, and being answered is stated of one); 2 handlers and 3 sockets; 2 lines of a log | creation refines `GetOrCreate`; mutex and queue refine `FifoLock`; the proxy has a target and recovers; answers are whole and messages answered; subjects are listened to again and registering ends; the last line is reviewed |
| `services` | twelve parts, each with two or three requests, those of the users service to 2 processes | `FilesHold`, `VotesHold`, `CommentsHold`, `MarkStays`, `TreesHold`, `PostsHold`, `HierarchyIsClosed`, `PagingHolds`, `AccessHolds`, `MigrationHolds`, `LibrariesHold`, `RightsHold`: what the last column of section 1 says of each |
| `entity_ownership_group` | 3 users, 2 requests, 1 invitation, a team of two owners | the optimistic lock keeps the changes of both requests, an owner remains, invitations are not lost |
| `team_twice_accepted` | 2 users, 4 requests | **violated**: "can't leave as the only owner" (see below) |
| `team_ownership` | 1 entity, 2 teams, 1 user, 3 requests | acknowledged teams own; saves replace what they read |
| `owning_team_deleted` | the same, 2 requests | **violated**: "cannot be deleted because it has owned entities" |
| `engine5_handler` | 1 event with an id, 1 without, 1 request, 2 invocations at a time, TTL of 2 ticks, 2 faults | duplicates are dropped, events are consumed in the end, requests answered |
| `engine5_connection` | 2 sockets at a time, 2 requests, TLS | CONNECTED means a greeted socket and no greeting is missed (`GreetingsHold`); attempts end, written requests settle |
| `cache_manager` | 2 keys with different livetimes, 4 reads of which one throws at once, 2 edits, 1 `clear()` | loads are shared, callers answered, the timer armed, no load that fails later and nothing old left behind |
| `ip_blocker` | 3 calls of any kind, 1 restart, iptables commands that fail | points are earned; a restart restores and releases |
| `accounts` | 3 requests of any operation, one user or registration at the start, 2 names, 3 addresses | keys prove addresses, one link per user, nothing lost, no stale fields |
| `accounts_emails` | 1 request, 2 typed addresses in either case | **violated**: "User with that primary mail is exist." |

**Bounds.** Each bound is the least at which the hazards it is for occur, and mostly one
more. Four calls of the mutex or the queue give a running task, two waiters whose order
matters and a late caller. In the database models every known race is between two
requests; a third (creations, ownership, votes, comments, CRUD, documents) is one that
meets what the race has left. The acceptance of one invitation twice needs two
acceptances and two removals. Two sockets at a time of the connection are an old and a
new one; the model needs a free slot to connect, so that a third attempt waits for the
`close` of the first. Three sockets of the server (`MaxLinks`) are one that ends before
its greeting, one that ends after it, and one to listen again on. Two `Processes` of the users service
are the one that writes and one that is not told. TTL and livetimes of two
ticks distinguish new, ageing and expired. Two lines (`MaxLines`) let one wait for a
pause and another be written during the pause, during the read, or after it. Pages have at most two rows of lists
of at most three, read in sizes −1, 0, 1 and 3, with one change of the list
(`MaxChanges`), which is all it takes to move a row over the edge of a page; a migration
meets two requests (its `MaxChanges`). A release has four libraries, two versions
(`LastVersion`) and three commands (`MaxRuns`): one that is killed, one after it, and one
of another kind. `MaxFaults`, `MaxClears`, `MaxRestarts`, `MaxDeaths` and `MaxErrors`
bound failures; counters that would grow (versions, points, data) are bounded by the
number of requests. The theorems of section 4 remove the bounds for the safety
properties they state.

**Fairness.** Each temporal property rests only on what the program or its surroundings
owe:

* `AsyncMutex`, `DynamicQueue`: the refinement of `FifoLock` is about steps; that the queue
  does not stop while its tasks end rests on the fairness of `complete` and `error`. A
  task that never settles keeps the mutex.
* `LoadbalancedProxy`: a worker that is forked gets its port, listens or dies.
* `RealtimeChat`: the cron ticks, and requests, streams and the bus go on; a stream may
  fail instead, and so may the handler of an event; both are among the exceptions `odd` names.
* `Engine5Handler`: time passes, a listener is registered, callbacks settle; strong
  fairness of `Redeliver`, because the server goes on delivering an event it has no
  consumption for, and the client only intermittently accepts it (between duplicates).
* `Engine5Connection`: timers fire, a destroyed socket reports `close`, the operating
  system ends an attempt to connect. It does not end a TLS handshake: `HandshakesEnd`
  says whether the server does, and the run assumes it. Without it a server that stays
  silent keeps the status CONNECTING for ever, since the ten-second timer starts on
  `secureConnect` (connection.ts:291).
* `Engine5Subscriptions`: attempts to connect end, and writes end, by success or failure;
  nothing is assumed of the server's greeting or of reconnections.
* `LogWatcher`: the kernel reports changes, the timer fires, a read ends.
* `CacheManager`: time passes, the timer fires, loads that have read come back. A read
  may fail instead.
* `IpBlocker`: commands end, one way or the other.
* All parts of `MCServices`, `EntityOwnershipGroup`, `GroupCreation`, `TeamOwnership` and
  `Accounts` have none: a request may die at any command and they state safety only.

**Where the code and what it says disagree.**

* `team_twice_accepted`: two acceptances of one invitation (or two messages that add a
  user) both find the user absent and both push. The user is then counted as two owners
  and two members, and removing them leaves the team empty, past both checks.
* `owning_team_deleted`: between the check that a team owns nothing and its deletion an
  entity is given to it.
* `accounts_emails`: `findByUsernameOrEmail` looks for the address as it was typed, and
  `UserMapper` stores it in lower case; an address given in upper case passes the check,
  and two users have it. (The address has no unique index either, so that two requests at
  once do the same.)

**Seen while modelling.** The models do what the code does in these cases, and the
properties are stated around them (their history variables name the exceptions), or the
case lies outside what is modelled.

* Bus. A failed request callback is answered with RESPONSE and `IsError`, where
  src/README.md:55 says RESPONSE_ERROR (`Engine5Handler!Reply`). A server whose first
  socket fails never registers its handlers, since only that socket's greeting resolves
  `init()`. A `listen()` in flight while a new socket connects registers its callback,
  but that socket is not told of the subject until the next reconnection (`overtaken`).
  LISTEN can be written before CONNECT on a socket that still connects. A `listen()` that
  fails is an unhandled rejection.
* Cache. After `clear()` the `finally` of an old load removes the promise of its
  successor, so that `OneLoadPerKey` is stated for as long as nobody has called it. A
  callback that throws before it returns a promise runs that `finally` before the promise
  is noted (cache-manager.service.ts:94-104), so that the rejected promise answers all who
  ask for the key until `clear()` or the end of the process. `searchByUserId` does so for
  capabilities that are no list (entity-ownership-group.service.ts:332-338), and its key
  (entity-ownership-group-microservice.controller.ts:100) leaves the capabilities out: one
  malformed request keeps the sound ones of that user from an answer. Every process has a
  cache of its own and invalidates no other, so that after a write, or the removal of a
  user, the other processes go on with the old answer for as long as it is asked for.
* IP blocker. A release that overlaps a ban can delete the rule of a ban that stays
  active; a second ban inserts a second iptables rule and a release deletes one;
  `releaseAt` is compared with the clock only when the process starts, or when the
  address sends another request, although TRANSFER_CONTRACT_MVP.md:73-75 has it end the
  ban. A log that is written without a pause is never reviewed, and of a burst only the
  last line is. After a rotation by renaming, changes are no longer seen. `fs.watch` of a
  missing file throws, although the warning before it says that the watcher will still be
  attached (log-watcher.service.ts:34).
* Accounts. Two requests that fill in one registration at once can leave an address the
  key was not sent to (`mixed`), since a save leaves out a field it finds unchanged.
  `user-role-remove` hands its whole payload to `removeRole(userId, role)` as the first
  argument, so that no role is removed by that message; `hasUserRoleAtLeastOneOrAdmin`
  asks for a field `id` that is not stored and for `roles` equal to exactly two; two
  overlapping `insertRole` list a role twice; a suspension does not invalidate
  `user-by-id`, whose answer lives as long as it is asked for, and `user-by-login` is never
  invalidated.
* Ownership and capabilities. The search of teams by user does not tie the capability it
  finds to the user or to the kind of entity. A capability granted directly to somebody
  who is only a member of the team updates nothing. `overriderRoles` of an ownership
  defaults to an empty list, which is truthy, so that those of the team hardly count. The
  key of a cached search of teams leaves out the requested capabilities, and a change of
  a team does not invalidate what was answered of an entity. An empty list of requested
  capabilities is refused by the database and granted by the check in JavaScript; an empty
  alternative in it (`[[]]`) is granted by the check, while the search finds nothing
  (`$all: []`), so that `SearchFindsAccess` is stated for queries without one.
* Migration. Legacy entity capabilities of invitations are never saved, so that accepting
  loses them. Of two replicas that start at once, the second one's save is refused and it
  fails to start.
* Files. `proxyExternalImage` says that the same URL is never downloaded twice
  (file.service.ts:346-351); two requests at once both download it, and one is stored.
  `setVolatility` resets whether rights are asked for at a view.
* Comments. Saves of votes and edits are not awaited, and a refused one is an unhandled
  rejection after the answer. A double push lists a voter, or a banned user, twice, so
  that one unban leaves a ban. Two metas of an entity can exist. Deleting a comment does
  not decrease the counts. The default date of a document is that of the process's start.
  The check for a comment's administrator compares a boolean with null.
* Documents and posts. A document added below one that is being removed stays active and
  unreachable (`late`). A publication that overlaps an update can publish a post without
  text; a text of spaces counts as one for readers.
* CRUD base. An edit writes back every field and undoes a resolve or a removal that came
  between its load and its save. Those operations do not invalidate the cache.
* Lists. An empty result has a last page of −1, so that no page is the last one. Only
  comments break ties by id: other orders leave equals to the database.
* Chat. A message is stored after its session has become WAITING, so that the cron may
  answer the old tail. A stream that fails or never emits leaves the session CONTINUING,
  and no session is answered any more, and so does a last event whose handler fails. A
  late part after the end finishes the session
  again, over the WAITING of a new message.
* Proxy. The splice keeps only the closed worker. An import of countries that was cut off
  is never completed, and two processes import twice.
* Library release. Libraries are finished in the order of the numbers of their imports,
  not of the imports themselves: an embedded library with as many imports as its embedder
  can be copied before it is finished. Peer dependencies of an embedded library are not
  added to its embedder. A library whose configuration cannot be read is only logged, and
  its importers keep the import. A publication that is run again stops at the first
  package it has published already. A patch copies over old files and leaves others.

## 4. What is proved

TLAPS checks the theorems below for all values of the constants that satisfy the named
assumptions. Each follows one pattern: an inductive invariant, a lemma that it holds
initially, a lemma for each action that disturbs it, and the theorem, which combines them
with PTL; for the parts of `SmallParts` and `Services` the theorem is about `PartsSpec`
and `ServicesSpec`, the specifications that the runs check. Every safety invariant and
every action property that a passing run checks is stated by a theorem.

**`SmallPartsProofs`.**

* `GroupCreation` (`IInv`): keys are unique among groups, groups are as they were asked
  for, ids are fresh, and whoever lost the race finds a group or a deletion. Hence one
  group for all retries, from their own input, errors with reasons, and the refinement of
  `GetOrCreate`, step by step.
* `AsyncMutex` (`MutexInv`): the types, at most one running task, and that the waiters are
  exactly the waiting calls, each once. Hence mutual exclusion, no lost waiter, and the
  refinement of `FifoLock`.
* `DynamicQueue` (`QueueInv`): at most one current task, the rest of the open ones each
  once in the queue, and only while it is busy. Hence the safety part of the refinement
  of `FifoLock`.
* `LoadbalancedProxy` (`ProxyInv`): the list of processes has somebody in it while the server
  starts or listens, and while it has yet to be told of a close: the splice that keeps
  only the closed process does not empty it. Hence `RequestsHaveATarget`.
* `Engine5Subscriptions` (`ServerInv`): the socket in use has been told of a subject, or
  its turn is in the write queue, or it comes with the LISTEN of a reconnection
  (`AgainIsOnItsWay`), or the first LISTEN went to an earlier socket (`LateIsNoted`);
  `FirstListens` says which callback goes with which payload. Hence `ListenedAgain`, for
  any number of sockets and subjects.
* `RealtimeChat` (`ChatInv`): events are of streams, and an end is of a stream that is over;
  as long as `odd` has no overlap, one answer at most is under way in a session, and the
  status of the session is in step with it; of an answer that is not in `raced`, the text
  is the parts up to some number in their order (`Upto`), the others that were sent are on
  the bus or in a handler, in their order, and none of those stored is. Hence `AnswersAreWhole`.

**`Engine5Proofs`.**

* `Engine5Connection` (`Inv`): types; CONNECTED means a greeted socket that is open or about
  to report its close, and nobody waits for CONNECTED while it is (`GreetingsAreHeard`); a
  timer runs behind every request that waits. They are inductive together.
* `Engine5Handler` (`HandlerInv`): the mark of an event is never older than the start of its
  callbacks (`MarkedFirst`). Hence `RunsOncePerTtl`: no event with an id is handled twice
  within the time to live, for any number of invocations and listeners.

**`OwnershipProofs`.**

* `EntityOwnershipGroup` (`IInv`): a snapshot is of now or of an older version, and stamps of
  entries lie below the version, which makes a pushed entry new. Hence the optimistic
  lock, changes of others kept, self-service only by owners, an owner kept, invitations
  kept.
* `TeamOwnership` (`OwnershipInv`): ids not handed out yet are unused, and users a request
  has seen are those of that version unless some were only pulled. Hence acknowledged
  teams own, and saves replace what they have read.

**`AccountsProofs`** (types, one link per user, keys that prove addresses, nothing lost, no
stale fields). The invariant says what a request knows at each command: that nobody else
has a link of this user unless it is recorded in `crossed`, that a loaded registration is
the stored one unless it is in `mixed`, and that the addresses a key was sent to are the
one that its registration holds.

**`CacheManagerProofs`** (types, armed timer, no promise of a load that failed later, shared loads, and that only a
race leaves something old). The invariant adds what a load has read and which load
`inflight` has.

**`IpBlockerProofs`** (types, earned points, restored bans). The invariant adds that at most
one call is under way while nothing has overlapped, and that a start-up that has not ended
will repair the rules.

**`ContentProofs`.** What these parts have in common is that the version of a document stands
for some of its fields: a request that has read the version that is stored has read those
fields as they are. The invariants say of which fields that is true, and of which writes
it is not.

* `FilesInv`: the id and the version that a scaling has read stand for the bytes, unless an
  upload went by without them (`unguarded`); `FilesHold`.
* `VotesInv`: the version of a comment stands for its voters; `VotesHold`. That the tally
  is that of the lists needs the cardinalities of the lists after each push and pull.
* `CrudInv`: what an edit, a mark or a removal acts on was found; `MarkStays`.
* `DocsInv`: ancestors are those of the parent and the parent, closed upwards; what is left
  below a removed document is on the list of a removal under way or was added late;
  `TreesHold`.
* `PostsInv`: what is about to be saved has a text if it is public, and the date that was
  read; `PostsHold`.
* `ImportInv`: all that comes before the place where an import is at is stored, unless it
  met a clearing; `HierarchyIsClosed`.
* `RightsInv`: the version of a user stands for the arrays, and a process in whose cache a
  removed user is has yet to invalidate or is in `excused`; `RightsHold`.
* `CommentsInv`: the version of a meta stands for its items and bans, the counts add up
  (also over two metas of an entity), and what let a request go on is among what it has
  passed; `CommentsHold`.

**`PlatformProofs`.**

* `AccessInv`: a load that neither an invalidation nor the write of another process has met
  has read what there is now, or what a write of its process is about to invalidate;
  `AccessHolds`. `SearchFindsAccess` is proved of the
  operators: whom the check in JavaScript lets in, the query finds, if no alternative is
  empty.
* `MigrationInv`: the version stands for the members, and once one replica is through
  nothing puts an old string back; `MigrationHolds`.
* `LibrariesInv`: an order of the libraries by imports exists (the place of a library is
  the number of those that come before it, which is one to one); what a directory holds
  in each phase; what the registry and the finished releases hold. `LibrariesHold`.
* `PagesInv`: the rank of a row is the number of rows that precede it; a page shows the
  rows of so many ranks; a row was read once if its rank was passed; ranks only grow while
  rows only come; and a last or an empty page means that there is no higher rank.
  `PagingHolds`, for lists of any length and pages of any size.

**Assumptions.** All of them are evaluated by TLC in the runs. Most say that a model value is
not a value of something else (`Distinct`, `Absent`, `Outcomes`, and a line of most
others), that a bound is a number (`Bounds`, `Bound`, `Times`, `Options`, `ProxyNumbers`,
`ChatNumbers`, `ServerNumbers`), or that users can be counted (`VotersFinite`). The others
say what is stored at the beginning, and it is what the code itself stores: images are
scaled from the file beside them (`FilesFirst`), paths are those of the parents and nothing
active is below something removed (`TreesFirst`), a published post has its text
(`PostsFirst`), no comment has been counted before anybody has asked (`CommentsFirst`), the
members of a team from before the migration have its old fields (`TeamsBefore`), entries
are stamped below the version (`Inputs` of `EntityOwnershipGroup`), rows have numbers as
ids and a list is finite (`RowsFirst`), and a scan of directories meets each once
(`LibrariesMade`). `TreesFirst` leaves out trees in which `late` documents exist from the
start, and `PostsFirst` public posts without text; either only arises from a race that
the properties except.

**Only model-checked.**

* Liveness: `EventuallySettled`, `NothingWaitsForever`, `EveryCallSettles`,
  `RestartReleases`, that the queue of `QueueIsFifoLock` does not stop, `ProxyRecovers`,
  `MessagesAreAnswered`, `ListensSettle` and `LastLineIsReviewed`. They rest on fairness,
  that is on ENABLED, which the prover does not handle.
* The three properties that the code violates: `LastOwnerStays`, `OwningTeamIsKept`,
  `EmailUnique`.

Where a proof would use induction over numbers it takes the least element of a set by
well-foundedness (`WFMin`: the first place at which something holds, the first entry of a
user) or the cardinality of what comes before (the order of libraries and of rows), since the
library's induction theorems take an operator as a parameter, which the installed provers
do not instantiate. No module with a theorem declares or reaches a recursive operator.

## 5. Where to go on

* A composition of `Engine5Connection` with `Engine5Subscriptions` and `Engine5Handler`
  would show that requests find their handlers after a reconnection; each is checked with
  the others reduced to what they may do.
* The steps on which the liveness properties rest are safety facts and could be theorems:
  that something is under way as long as somebody waits (a callback, a timer, a load), and
  that a measure decreases with each fair step.
* `GroupCreation`, `EntityOwnershipGroup`, `TeamOwnership`, `EntityAccess` and
  `TeamMigration` share a team without sharing state. A specification of what a team
  promises to the others, implemented by each, would say that they fit.
* Of what is not modelled: the closing stage of the proxy, the rights to view a file, and
  the filters of the searches of comments.
