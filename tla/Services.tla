------------------------------ MODULE Services ------------------------------
(* The services that keep data of their own and share nothing: files,       *)
(* votes and comments, what CrudService stands for, documents, blog posts,  *)
(* the import of countries, the pages of a search, who may do what with an  *)
(* entity, the migration of teams, the release of the libraries, and who a  *)
(* user is let in as.  A behaviour is one of the part that `part` names;    *)
(* the variables of the others are off.                                     *)
EXTENDS Integers, Sequences, FiniteSets, TLC

CONSTANTS
    Three, Two,                                \* the requests of most parts, and of the larger ones
    Users, Grants, Slugs, Roles, Admin, Before,         \* of several parts
    Missing, Same, None, New, Off,
    Processes,                                 \* of the users service
    FileCalls, FirstFiles, Widths, Small,      \* of FileService
    Poster,                                    \* of CommentVotes
    Commenters, Children, FirstMetas, FirstRestrictions,          \* of Commenting
    Authorization, HasArray,                   \* of CrudService
    FirstTrees, Names, DocumentLocales,        \* of Documents
    FirstPosts, PostLocales,                   \* of BlogPosts
    RowIds, Keys, ListKinds, Sizes, DefaultSize, MaxPageSize, FirstRows, MaxTurns,   \* of SearchPages
    Queries, TheTeam, RolesOf, Administrator, FirstOwned, TeamStates,         \* of EntityAccess
    Migrated, FirstTeams, FirstInvites, MaxChanges,                           \* of TeamMigration
    LibraryNames, Mode, Packages, LastVersion, Requires, Scans, MaxRuns,      \* of LibraryBuild
    FirstUsers                                 \* of UserRights

VARIABLES
    part,
    pc, kind, found, overlapped, doc, cached, excused, user,     \* of several parts
    at, team, version, changes,
    load, saving, keep, answer, wish, outdated, blurred, unguarded,
    comment,
    metas, restrictions, comments, child, restriction, counted, passed,
    role, announced,
    docs, name, todo, late,
    posts, changed,
    reinit, stored, clearing, disturbed,
    rows, ask, mine, page, content, total, read, stayed, shifted, grown, torn,
    owned, call, raced,
    invite, inviteVersion, groups, invites, request,
    run, phase, children, output, imports, peers, registry, target, latest, finished, runs

fileOnly == <<load, saving, keep, answer, wish, outdated, blurred, unguarded>>
metaOnly == <<metas, restrictions, comments, child, restriction, counted, passed>>
crudOnly == <<role, announced>>
docsOnly == <<docs, name, todo, late>>
postsOnly == <<posts, changed>>
importOnly == <<reinit, stored, clearing, disturbed>>
pagesOnly == <<rows, ask, mine, page, content, total, read, stayed, shifted, grown, torn>>
accessOnly == <<owned, call, raced>>
migrationOnly == <<invite, inviteVersion, groups, invites, request>>
librariesOnly == <<run, phase, children, output, imports, peers, registry, target, latest, finished, runs>>
several == <<pc, kind, found, overlapped, doc, cached, excused, user, at, team, version, changes>>
servicesVars == <<part, several, fileOnly, comment, metaOnly, crudOnly, docsOnly, postsOnly, importOnly,
                  pagesOnly, accessOnly, migrationOnly, librariesOnly>>

-----------------------------------------------------------------------------
Files == INSTANCE FileService WITH Calls <- FileCalls, FirstDocs <- FirstFiles

Votes == INSTANCE CommentVotes WITH Calls <- Three

Comments == INSTANCE Commenting WITH Calls <- Three, Users <- Commenters

Crud == INSTANCE CrudService WITH Calls <- Three, NoUser <- None

Docs == INSTANCE Documents WITH Calls <- Three, Locales <- DocumentLocales

Posts == INSTANCE BlogPosts WITH Calls <- Two, Locales <- PostLocales

Import == INSTANCE CscdImport WITH Processes <- Two

Pages == INSTANCE SearchPages WITH MaxChanges <- MaxTurns

Access == INSTANCE EntityAccess WITH Calls <- Two, Admin <- Administrator

Migration == INSTANCE TeamMigration WITH Replicas <- Two

Libraries == INSTANCE LibraryBuild WITH Libraries <- LibraryNames

Rights == INSTANCE UserRights WITH Calls <- Two, Absent <- None

-----------------------------------------------------------------------------
(* What there is when the parts begin, and what is not a value of theirs.   *)
(* Files: the images are scaled from the file they are stored with.         *)
ASSUME FilesFirst ==
    /\ Widths \subseteq Nat /\ Before \notin FileCalls /\ Missing # None
    /\ {Missing, None} \intersect Files!Doc = {} /\ None \notin Files!Save
    /\ \A d \in FirstFiles : d \in Files!Doc /\ d.id = Before /\ \A s \in d.scaled : s.of \in {d.file, Same}

(* Documents: paths and ancestors are those of the parents, and what is     *)
(* active is below what is active.                                          *)
ASSUME TreesFirst ==
    /\ None \notin Docs!Ids
    /\ \A t \in FirstTrees : \A d \in DOMAIN t :
          /\ t[d] \in Docs!Doc /\ d \notin Three
          /\ IF t[d].parent = None THEN t[d].ancestors = {}
             ELSE /\ t[d].parent \in DOMAIN t
                  /\ t[d].path = Append(t[t[d].parent].path, t[d].slug)
                  /\ t[d].ancestors = t[t[d].parent].ancestors \union {t[d].parent}
          /\ \A a \in t[d].ancestors :
                a \in DOMAIN t /\ t[a].ancestors \subseteq t[d].ancestors /\ (t[d].active => t[a].active)

(* Posts: what is public has a text in its default language.                *)
ASSUME PostsFirst ==
    /\ \A p \in FirstPosts : \A i \in DOMAIN p :
         /\ p[i] \in Posts!Post /\ i \notin Two
         /\ p[i].active /\ p[i].status = "published" => p[i].texts[p[i].defaultLocale] = "text"
    /\ None \notin Posts!Loaded

(* Users: a role is had or not, and versions are numbers.                   *)
User == [roles : [Roles -> Nat], active : BOOLEAN, suspended : BOOLEAN, version : Nat]
ASSUME RightsUsers == FirstUsers \subseteq User /\ Missing \notin User

(* Votes: as many users as there may be, they can be counted.               *)
ASSUME VotersFinite == IsFiniteSet(Users)

(* Comments: nothing was counted before, as nobody has asked.               *)
ASSUME CommentsFirst ==
    /\ None # New /\ {None, New} \intersect [at : Nat \ {0}, meta : Comments!Meta] = {}
    /\ \A ms \in FirstMetas : ms \in Seq(Comments!Meta) /\ \A i \in DOMAIN ms : ms[i].items = <<>>

(* Pages: rows have ids in the order in which they were made and are sorted *)
(* by numbers; a list begins with so many rows that can be counted.         *)
ASSUME RowsFirst ==
    /\ RowIds \subseteq Nat /\ Keys \subseteq Int /\ Sizes \subseteq Int
    /\ DefaultSize \in Nat \ {0} /\ MaxPageSize \in Nat \ {0}
    /\ \A rs \in FirstRows :
          /\ IsFiniteSet(DOMAIN rs) /\ DOMAIN rs \subseteq RowIds
          /\ rs \in [DOMAIN rs -> [key : Keys, active : BOOLEAN, own : BOOLEAN]]
    /\ None \notin Nat /\ None \notin Seq(RowIds)

(* Teams: what a member had before the migration has its old fields.        *)
ASSUME TeamsBefore ==
    /\ \A t \in FirstTeams : t # None =>
          \A m \in t : DOMAIN m = {"user", "role", "capabilities", "entityRole", "entity"}
    /\ \A i \in FirstInvites : i # None => "capabilities" \in DOMAIN i

(* Libraries: a scan meets each directory once, and no library has the name *)
(* of a package from elsewhere.                                             *)
ASSUME LibrariesMade ==
    /\ Mode \in [LibraryNames -> {"PEER", "EMBEDDED"}]
    /\ \A s \in Scans : s \in Seq(LibraryNames) /\ \A i, j \in DOMAIN s : s[i] = s[j] => i = j
    /\ Packages \intersect LibraryNames = {} /\ None \notin {"publish", "patch", "set-latest"}

-----------------------------------------------------------------------------
(* The variables that a part does not have.                                 *)
Parts == {"files", "votes", "comments", "crud", "docs", "posts", "import",
          "pages", "access", "migration", "libraries", "rights"}
Unused(p) ==
    /\ p # "libraries" \/ pc = Off
    /\ p \in {"files", "votes", "comments", "crud", "docs", "posts", "rights"} \/ kind = Off
    /\ p \in {"files", "votes", "comments", "crud", "docs", "posts", "access", "rights"} \/ found = Off
    /\ p \in {"votes", "posts"} \/ overlapped = Off
    /\ p \in {"files", "crud", "rights"} \/ doc = Off
    /\ p \in {"files", "access", "rights"} \/ cached = Off
    /\ p \in {"files", "access", "rights"} \/ excused = Off
    /\ p \in {"votes", "comments"} \/ user = Off
    /\ p \in {"import", "libraries"} \/ at = Off
    /\ p \in {"access", "migration"} \/ team = Off
    /\ p \in {"migration", "libraries"} \/ version = Off
    /\ p \in {"pages", "migration"} \/ changes = Off
    /\ p = "files" \/ (load = Off /\ saving = Off /\ keep = Off /\ answer = Off /\ wish = Off
        /\ outdated = Off /\ blurred = Off /\ unguarded = Off)
    /\ p = "votes" \/ comment = Off
    /\ p = "comments" \/ (metas = Off /\ restrictions = Off /\ comments = Off /\ child = Off
        /\ restriction = Off /\ counted = Off /\ passed = Off)
    /\ p = "crud" \/ (role = Off /\ announced = Off)
    /\ p = "docs" \/ (docs = Off /\ name = Off /\ todo = Off /\ late = Off)
    /\ p = "posts" \/ (posts = Off /\ changed = Off)
    /\ p = "import" \/ (reinit = Off /\ stored = Off /\ clearing = Off /\ disturbed = Off)
    /\ p = "pages" \/ (rows = Off /\ ask = Off /\ mine = Off /\ page = Off /\ content = Off /\ total = Off
        /\ read = Off /\ stayed = Off /\ shifted = Off /\ grown = Off /\ torn = Off)
    /\ p = "access" \/ (owned = Off /\ call = Off /\ raced = Off)
    /\ p = "migration" \/ (invite = Off /\ inviteVersion = Off /\ groups = Off /\ invites = Off
        /\ request = Off)
    /\ p = "libraries" \/ (run = Off /\ phase = Off /\ children = Off /\ output = Off /\ imports = Off
        /\ peers = Off /\ registry = Off /\ target = Off /\ latest = Off /\ finished = Off
        /\ runs = Off)

Stays(p) ==
    /\ IF p # "libraries" THEN TRUE ELSE UNCHANGED pc
    /\ IF p \in {"files", "votes", "comments", "crud", "docs", "posts", "rights"} THEN TRUE ELSE UNCHANGED kind
    /\ IF p \in {"files", "votes", "comments", "crud", "docs", "posts", "access", "rights"} THEN TRUE
       ELSE UNCHANGED found
    /\ IF p \in {"votes", "posts"} THEN TRUE ELSE UNCHANGED overlapped
    /\ IF p \in {"files", "crud", "rights"} THEN TRUE ELSE UNCHANGED doc
    /\ IF p \in {"files", "access", "rights"} THEN TRUE ELSE UNCHANGED cached
    /\ IF p \in {"files", "access", "rights"} THEN TRUE ELSE UNCHANGED excused
    /\ IF p \in {"votes", "comments"} THEN TRUE ELSE UNCHANGED user
    /\ IF p \in {"import", "libraries"} THEN TRUE ELSE UNCHANGED at
    /\ IF p \in {"access", "migration"} THEN TRUE ELSE UNCHANGED team
    /\ IF p \in {"migration", "libraries"} THEN TRUE ELSE UNCHANGED version
    /\ IF p \in {"pages", "migration"} THEN TRUE ELSE UNCHANGED changes
    /\ IF p = "files" THEN TRUE ELSE UNCHANGED fileOnly
    /\ IF p = "votes" THEN TRUE ELSE UNCHANGED comment
    /\ IF p = "comments" THEN TRUE ELSE UNCHANGED metaOnly
    /\ IF p = "crud" THEN TRUE ELSE UNCHANGED crudOnly
    /\ IF p = "docs" THEN TRUE ELSE UNCHANGED docsOnly
    /\ IF p = "posts" THEN TRUE ELSE UNCHANGED postsOnly
    /\ IF p = "import" THEN TRUE ELSE UNCHANGED importOnly
    /\ IF p = "pages" THEN TRUE ELSE UNCHANGED pagesOnly
    /\ IF p = "access" THEN TRUE ELSE UNCHANGED accessOnly
    /\ IF p = "migration" THEN TRUE ELSE UNCHANGED migrationOnly
    /\ IF p = "libraries" THEN TRUE ELSE UNCHANGED librariesOnly

ServicesInit ==
    /\ part \in Parts
    /\ \/ part = "files" /\ Files!Init
       \/ part = "votes" /\ Votes!VotesInit
       \/ part = "comments" /\ Comments!CommentsInit
       \/ part = "crud" /\ Crud!CrudInit
       \/ part = "docs" /\ Docs!DocsInit
       \/ part = "posts" /\ Posts!PostsInit
       \/ part = "import" /\ Import!Init
       \/ part = "pages" /\ Pages!Init
       \/ part = "access" /\ Access!Init
       \/ part = "migration" /\ Migration!Init
       \/ part = "libraries" /\ Libraries!Init
       \/ part = "rights" /\ Rights!RightsInit
    /\ Unused(part)

ServicesNext ==
    /\ UNCHANGED part
    /\ \/ part = "files" /\ Files!Next
       \/ part = "votes" /\ Votes!VotesNext
       \/ part = "comments" /\ Comments!CommentsNext
       \/ part = "crud" /\ Crud!CrudNext
       \/ part = "docs" /\ Docs!DocsNext
       \/ part = "posts" /\ Posts!PostsNext
       \/ part = "import" /\ Import!Next
       \/ part = "pages" /\ Pages!Next
       \/ part = "access" /\ Access!Next
       \/ part = "migration" /\ Migration!Next
       \/ part = "libraries" /\ Libraries!Next
       \/ part = "rights" /\ Rights!RightsNext
    /\ Stays(part)

ServicesSpec == ServicesInit /\ [][ServicesNext]_servicesVars

-----------------------------------------------------------------------------
(* The properties of the parts, each of its part only.                      *)

(* A scaled image is of the file it is stored with, a file that is to be    *)
(* kept is not made volatile, and a proxied image that was answered is      *)
(* stored: see FileService.                                                 *)
FilesHold == part = "files" => Files!ScaledOfStored /\ Files!KeptAsAsked /\ Files!ProxiedIsStored

(* Only votes of a user change the votes of that user, and the tally is     *)
(* that of the lists of voters: see CommentVotes.                           *)
VotesHold == [][part = "votes" => Votes!OthersVotesStay /\ Votes!TallyFollowsVotes']_servicesVars

(* The counts add up to the comments, and who is kept out does not comment: *)
(* see Commenting.                                                          *)
CommentsHold == [][part = "comments" => Comments!CountsAddUp' /\ Comments!OnlyPassed]_servicesVars

(* What was resolved or removed stays so: see CrudService.                  *)
MarkStays == [][part = "crud" => Crud!OnlyOldEditsUnmark]_servicesVars

(* Paths and ancestors follow the tree, and a removal takes everything      *)
(* below: see Documents.                                                    *)
TreesHold == part = "docs" => Docs!TreeIsConsistent /\ Docs!RemovalIsComplete

(* Readers of public posts are shown a text, and the date of a publication  *)
(* stays: see BlogPosts.                                                    *)
PostsHold == [][part = "posts" => Posts!PublishedHasText' /\ Posts!DateStays]_servicesVars

(* Roles and suspensions are not undone by who has not seen them, and who   *)
(* was removed is forgotten: see UserRights.                                *)
RightsHold == [][part = "rights" => Rights!RightsStay /\ Rights!RemovedIsForgotten']_servicesVars

(* No locality without its subdivision and its country: see CscdImport.     *)
HierarchyIsClosed == part = "import" => Import!HierarchyIsClosed

(* A list that is read to its end is read whole: see SearchPages.           *)
PagingHolds == part = "pages" => Pages!PagingHolds

(* Answers about capabilities are as old as the last change, and searches   *)
(* find what checks find: see EntityAccess.                                 *)
AccessHolds == part = "access" => Access!AccessHolds

(* A replica that serves has migrated the team and has undone nothing: see  *)
(* TeamMigration.                                                           *)
MigrationHolds == [][part = "migration" => Migration!MigrationHolds]_servicesVars

(* The packages of a release hold together: see LibraryBuild.               *)
LibrariesHold == part = "libraries" => Libraries!LibrariesHold
=============================================================================
