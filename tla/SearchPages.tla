---------------------------- MODULE SearchPages -----------------------------
(* Reading a list page by page while it changes: MongooseSearchUtil, the    *)
(* searches of CRUD services, comments, sessions and teams that use it, and *)
(* the lists of blog posts, which have their own.  A reader asks for one    *)
(* page after the other; each page is a query of its own, preceded, when    *)
(* only what belongs to the reader is asked for, by one for the ids.  (The   *)
(* pages of CRUD lists are also cached for a moment, see CacheManager; here  *)
(* they come from the database.)                                            *)
EXTENDS Integers, Sequences, FiniteSets

CONSTANTS
    RowIds,       \* ids of rows, in the order in which they were made
    Keys,         \* what rows are sorted by: votes, dates
    ListKinds,    \* "comments", "sessions", "posts", "crud"
    Sizes,        \* the sizes asked for
    DefaultSize,  \* 10; the blog has 20
    MaxPageSize,  \* of the blog
    FirstRows,    \* the rows to begin with
    MaxChanges,   \* bound on changes of the list
    None

VARIABLES
    rows,         \* what is stored, by id
    ask,          \* what the reader asks for
    pc,           \* where the reader is
    mine,         \* ids the reader was told to own
    page,         \* the index of the page
    content, total,
    read,         \* how often each row was read
    stayed,       \* rows that have matched since the reader began
    shifted,      \* since then a row has gone or has moved
    grown,        \* since then a row has come
    torn,         \* the list has changed between the two queries of a page
    changes

vars == <<rows, ask, pc, mine, page, content, total, read, stayed, shifted, grown, torn, changes>>

Least(i, j) == IF i < j THEN i ELSE j

-----------------------------------------------------------------------------
(* What a search matches: commentFilterMatch, the searchParams of projects, *)
(* messages and teams, the filters of listAdmin and listPublic.  Projects   *)
(* that are deactivated are listed for who asks for all.                    *)
Listed(row, where) == where = "all" \/ row.active
OfOwner(id, where, own) == where # "mine" \/ id \in own
Matches(row, id, where, own) == Listed(row, where) /\ OfOwner(id, where, own)
Found(rs, where, own) == {id \in DOMAIN rs : Matches(rs[id], id, where, own)}

(* The order of a page.  Comments are sorted by votes or date and then by   *)
(* id; the others by a field of which two rows may have the same value, and *)
(* CRUD lists only when they are asked to: then any order among equals is   *)
(* one the database may choose, for each query anew.                        *)
ByKey(i, j) == rows[i].key > rows[j].key
ThenById(i, j) == ByKey(i, j) \/ (rows[i].key = rows[j].key /\ i > j)

Precedes_ByKey(i, j, list) ==     \* bug: the id is not in the order
    ByKey(i, j)

Precedes(i, j, list) ==
    IF list = "comments" THEN ThenById(i, j) ELSE (list = "crud" => ask.sorted) /\ ByKey(i, j)

Orders(set, list) ==
    {o \in [1..Cardinality(set) -> set] :
        \A m, n \in 1..Cardinality(set) : m < n => o[m] # o[n] /\ ~Precedes(o[n], o[m], list)}

(* parseInt(size) || 10, and what normalizePaging makes of it.              *)
SizeOf(a) ==
    IF a.list = "posts"
    THEN IF a.size > 0 THEN Least(a.size, MaxPageSize) ELSE DefaultSize
    ELSE IF a.size = 0 THEN DefaultSize ELSE a.size
Size == SizeOf(ask)

(* $skip and $limit.                                                        *)
Skipped(p) == Size * p
PageOf(o, p) == SubSeq(o, Skipped(p) + 1, Least(Skipped(p) + Size, Len(o)))

Ceil(n, m) == (n + m - 1) \div m
maxPagesIndex(n) == Ceil(n, Size) - 1

-----------------------------------------------------------------------------
Init ==
    /\ rows \in FirstRows
    /\ pc = "begin"
    /\ ask = None /\ mine = {} /\ page = 0 /\ content = None /\ total = None
    /\ read = [id \in RowIds |-> 0] /\ stayed = {}
    /\ shifted = FALSE /\ grown = FALSE /\ torn = FALSE /\ changes = 0

Asks ==
    {[list |-> l, where |-> w, size |-> s, sorted |-> b] :
        l \in ListKinds, w \in {"active", "all", "mine"}, s \in Sizes, b \in BOOLEAN}

(* Only comments and CRUD lists ask for what belongs to a user; deactivated *)
(* rows are listed by CRUD services that are asked to.                      *)
Begin ==
    /\ pc = "begin"
    /\ \E a \in Asks :
          /\ a.where = "mine" => a.list \in {"comments", "crud"}
          /\ a.where = "all" => a.list = "crud"
          /\ a.sorted \/ a.list = "crud"
          /\ ask' = a
          /\ pc' = IF a.where = "mine" THEN "owner" ELSE "find"
          /\ stayed' = Found(rows, a.where, {id \in DOMAIN rows : rows[id].own})
    /\ UNCHANGED <<rows, mine, page, content, total, read, shifted, grown, torn, changes>>

(* searchOwnershipUser, searchOwnershipEntityIdsByUser.  A user who owns    *)
(* nothing is given an empty page of comments at once.                      *)
FindOwned ==
    /\ pc = "owner"
    /\ mine' = {id \in DOMAIN rows : rows[id].own}
    /\ pc' = IF ask.list = "comments" /\ mine' = {} THEN "end" ELSE "find"
    /\ UNCHANGED <<rows, ask, page, content, total, read, stayed, shifted, grown, torn, changes>>

(* modelSearch: the page and the count in one $facet.  A negative $limit is *)
(* refused.                                                                 *)
modelSearch ==
    /\ pc = "find" /\ ask.list # "posts"
    /\ IF Size < 0
       THEN pc' = "refused" /\ UNCHANGED <<content, total>>
       ELSE \E o \in Orders(Found(rows, ask.where, mine), ask.list) :
               /\ content' = PageOf(o, page)
               /\ total' = Len(o)
               /\ pc' = "answered"
    /\ UNCHANGED <<rows, ask, mine, page, read, stayed, shifted, grown, torn, changes>>

(* listAdmin, listPublic: two commands at once.                             *)
FindPosts ==
    /\ pc = "find" /\ ask.list = "posts" /\ content = None
    /\ \E o \in Orders(Found(rows, ask.where, mine), ask.list) : content' = PageOf(o, page)
    /\ pc' = IF total = None THEN "find" ELSE "answered"
    /\ UNCHANGED <<rows, ask, mine, page, total, read, stayed, shifted, grown, torn, changes>>

CountPosts ==
    /\ pc = "find" /\ ask.list = "posts" /\ total = None
    /\ total' = Cardinality(Found(rows, ask.where, mine))
    /\ pc' = IF content = None THEN "find" ELSE "answered"
    /\ UNCHANGED <<rows, ask, mine, page, content, read, stayed, shifted, grown, torn, changes>>

(* The reader goes on until lastPage (for posts: until `total` is reached), *)
(* or a page is empty: no page of an empty list is the last one.            *)
lastPage ==
    IF ask.list = "posts" THEN (page + 1) * Size >= total
    ELSE maxPagesIndex(total) = page

Turn ==
    /\ pc = "answered"
    /\ read' = [id \in RowIds |->
          read[id] + Cardinality({n \in 1..Len(content) : content[n] = id})]
    /\ IF lastPage \/ content = <<>>
       THEN pc' = "end" /\ UNCHANGED page
       ELSE pc' = (IF ask.where = "mine" THEN "owner" ELSE "find") /\ page' = page + 1
    /\ content' = None /\ total' = None /\ torn' = FALSE
    /\ UNCHANGED <<rows, ask, mine, stayed, shifted, grown, changes>>

-----------------------------------------------------------------------------
Changed(rs) ==
    /\ pc \notin {"begin", "end", "refused"}
    /\ changes < MaxChanges
    /\ changes' = changes + 1
    /\ rows' = rs
    /\ stayed' = stayed \intersect Found(rs, ask.where, {id \in DOMAIN rs : rs[id].own})
    /\ torn' = (torn \/ (pc = "find" /\ (content # None \/ total # None)))
    /\ UNCHANGED <<ask, pc, mine, page, content, total, read>>

Insert ==
    /\ \E id \in RowIds \ DOMAIN rows, k \in Keys :
          Changed([i \in DOMAIN rows \union {id} |->
                      IF i = id THEN [key |-> k, active |-> TRUE, own |-> TRUE] ELSE rows[i]])
    /\ grown' = TRUE /\ UNCHANGED shifted

Delete ==
    /\ \E id \in DOMAIN rows : Changed([i \in DOMAIN rows \ {id} |-> rows[i]])
    /\ shifted' = TRUE /\ UNCHANGED grown

(* A vote, an edit: the row moves in the order, or is no longer there.      *)
Touch ==
    /\ \E id \in DOMAIN rows, k \in Keys, active, own \in BOOLEAN :
          LET row == [key |-> k, active |-> active, own |-> own] IN
          /\ row # rows[id]
          /\ Changed([rows EXCEPT ![id] = row])
    /\ shifted' = TRUE /\ grown' = TRUE

Next ==
    \/ Begin \/ FindOwned \/ modelSearch \/ FindPosts \/ CountPosts \/ Turn
    \/ Insert \/ Delete \/ Touch

Spec == Init /\ [][Next]_vars

-----------------------------------------------------------------------------
Ordered ==
    \/ ask.list = "comments"
    \/ /\ ask.sorted
       /\ \A i, j \in stayed : rows[i].key = rows[j].key => i = j

(* Who reads a list to its end has read every row that was there all the    *)
(* time, if no row went or moved meanwhile, and read none twice, if none    *)
(* came either.  (Unless the order leaves equals to the database.)          *)
EveryRowIsRead ==
    pc = "end" /\ ~shifted /\ ~grown /\ Ordered =>
        \A id \in RowIds : read[id] = IF id \in stayed THEN 1 ELSE 0

NoRowIsMissed ==
    pc = "end" /\ ~shifted /\ ask.list = "comments" => \A id \in stayed : read[id] > 0

(* The number of pages an answer announces and the rows it holds belong     *)
(* together, for every size that is accepted.                               *)
PagesAddUp ==
    pc = "answered" /\ ~torn =>
        Len(content) = Least(Size, IF total > Size * page THEN total - Size * page ELSE 0)

PagingHolds == EveryRowIsRead /\ NoRowIsMissed /\ PagesAddUp
=============================================================================
