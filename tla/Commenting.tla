----------------------------- MODULE Commenting -----------------------------
(***************************************************************************)
(* libs/social-webservice: the comments on one entity, the documents (meta)*)
(* that hold its status, its banned users and the counts of its comments,  *)
(* and the restrictions of users, which run out.                           *)
(*                                                                         *)
(* There should be one meta; it is made by the first request that finds    *)
(* none, without an index that refuses a second one.  findOne returns the  *)
(* oldest.                                                                 *)
(***************************************************************************)
EXTENDS Integers, Sequences, FiniteSets

CONSTANTS
    Calls, Users,
    Children,            \* what of the entity is commented on (childEntityId)
    FirstMetas,          \* what metas there may be at first
    FirstRestrictions,   \* and restrictions
    Before,              \* what stored a restriction there is at first
    None, New            \* nothing looked for yet; a meta to be created

VARIABLES
    metas,               \* sequence of documents, the oldest first
    restrictions,        \* set of documents
    comments,            \* the calls whose comment is stored
    pc, kind, user, child,
    found,               \* meta found or created: its place and its contents
    restriction,         \* the restriction found: its id, None if there is none
    counted,             \* history: the comments whose count was saved
    passed               \* history: what let each comment pass at some time since its request

commentsVars == <<metas, restrictions, comments, pc, kind, user, child, found, restriction, counted, passed>>
metaless == <<restrictions, comments, kind, user, child, restriction, counted>>

Item == [child : Children, length : Nat]
Meta == [status : {"ALLOW", "DISABLE"}, banned : [Users -> Nat], items : Seq(Item), version : Nat]
Restriction == [id : Calls \union {Before}, user : Users, ends : {"never", "later", "past"}]
Kinds == {"insert", "ban", "unban", "allow", "disable", "restrict", "suspend", "release", "clear"}
OnMeta == {"insert", "ban", "unban", "allow", "disable"}
Means == {"status", "ban", "restriction"}

CommentsTypeOK ==
    /\ metas \in Seq(Meta) /\ restrictions \subseteq Restriction
    /\ comments \subseteq Calls /\ counted \subseteq Calls
    /\ pc \in [Calls -> {"find", "check", "find again", "insert", "increase", "save", "done"}]
    /\ kind \in [Calls -> Kinds] /\ user \in [Calls -> Users] /\ child \in [Calls -> Children]
    /\ found \in [Calls -> [at : Nat \ {0}, meta : Meta] \union {None, New}]
    /\ restriction \in [Calls -> Calls \union {Before, None}]
    /\ passed \in [Calls -> SUBSET Means]

CommentsInit ==
    /\ metas \in FirstMetas /\ restrictions \in FirstRestrictions
    /\ comments = {} /\ counted = {}
    /\ pc = [c \in Calls |-> "find"]
    /\ kind \in [Calls -> Kinds] /\ user \in [Calls -> Users] /\ child \in [Calls -> Children]
    /\ found = [c \in Calls |-> None]
    /\ restriction = [c \in Calls |-> None]
    /\ passed = [c \in Calls |-> {}]

Goto(c, step) == pc' = [pc EXCEPT ![c] = step]
Done(c) == Goto(c, "done") /\ found' = [found EXCEPT ![c] = None]

-----------------------------------------------------------------------------
(* findOrCreateNewMeta *)
NewMeta == [status |-> "ALLOW", banned |-> [u \in Users |-> 0], items |-> <<>>, version |-> 0]

AfterFind(c) ==
    IF kind[c] # "insert" THEN "save" ELSE IF pc[c] = "find" THEN "check" ELSE "insert"

FindMeta(c) ==
    /\ pc[c] \in {"find", "find again"} /\ kind[c] \in OnMeta /\ found[c] = None
    /\ IF metas = <<>> THEN found' = [found EXCEPT ![c] = New] /\ UNCHANGED pc
       ELSE /\ found' = [found EXCEPT ![c] = [at |-> 1, meta |-> metas[1]]]
            /\ Goto(c, AfterFind(c))
    /\ UNCHANGED <<metas, metaless>>

CreateMeta(c) ==
    /\ found[c] = New
    /\ metas' = Append(metas, NewMeta)
    /\ found' = [found EXCEPT ![c] = [at |-> Len(metas) + 1, meta |-> NewMeta]]
    /\ Goto(c, AfterFind(c))
    /\ UNCHANGED metaless

(* setCommentingStatus asks for the owner over the bus first.              *)
NotOwner(c) ==
    /\ pc[c] = "find" /\ kind[c] \in {"allow", "disable"} /\ found[c] = None
    /\ Done(c)
    /\ UNCHANGED <<metas, metaless>>

-----------------------------------------------------------------------------
(* userRestrictionDetailsRaw, after cleanExpired                           *)
Current == {r \in restrictions : r.ends # "past"}
Of(u, rs) == {r \in rs : r.user = u}

isRestricted_Endless(u) ==      \* bug: only the endless restrictions are looked for
    \E r \in restrictions : r.user = u /\ r.ends = "never"

isRestricted(u) == Of(u, Current) # {}

(* checkCommentingAbilities, with the meta that it has found before.       *)
checkCommentingAbilities(c) ==
    /\ pc[c] = "check"
    /\ LET meta == found[c].meta IN
       /\ restrictions' = IF meta.status = "ALLOW" THEN Current ELSE restrictions
       /\ IF meta.status = "ALLOW" /\ ~isRestricted(user[c]) /\ meta.banned[user[c]] = 0
          THEN Goto(c, "find again") /\ found' = [found EXCEPT ![c] = None]
          ELSE Done(c)
    /\ UNCHANGED <<metas, comments, kind, user, child, restriction, counted>>

(* insertComment from its save on.  (CommentVotes has the count that it    *)
(* keeps in the comment it answers.)                                       *)
insertComment(c) ==
    /\ pc[c] = "insert"
    /\ comments' = comments \union {c}
    /\ Goto(c, "increase")
    /\ UNCHANGED <<metas, restrictions, kind, user, child, found, restriction, counted>>

(* increaseExisting: the first item of the child is counted up and the     *)
(* array set, for the version that was loaded; or a new item is pushed.    *)
PlaceOf(c) == {i \in DOMAIN found[c].meta.items : found[c].meta.items[i].child = child[c]}
First(S) == CHOOSE i \in S : \A j \in S : i <= j

Written(old, new, now) == IF old = new THEN now ELSE new

Saved(c, meta) == metas' = [metas EXCEPT ![found[c].at] = meta]

(* bug: without markModified only the length of the item is set            *)
increaseExisting_Unmarked(c) ==
    LET old == found[c] now == metas[old.at] IN
    /\ pc[c] = "increase" /\ Done(c)
    /\ IF PlaceOf(c) = {}
       THEN Saved(c, [now EXCEPT !.items = Append(@, [child |-> child[c], length |-> 1]), !.version = @ + 1])
       ELSE LET i == First(PlaceOf(c)) IN
            Saved(c, [now EXCEPT !.items[i].length = old.meta.items[i].length + 1])
    /\ counted' = counted \union {c}
    /\ UNCHANGED <<restrictions, comments, kind, user, child, restriction>>

Increased(c) ==
    IF PlaceOf(c) = {} THEN Append(metas[found[c].at].items, [child |-> child[c], length |-> 1])
    ELSE [found[c].meta.items EXCEPT ![First(PlaceOf(c))].length = @ + 1]

increaseExisting(c) ==
    LET now == metas[found[c].at] IN
    /\ pc[c] = "increase" /\ Done(c)
    /\ IF PlaceOf(c) # {} /\ now.version # found[c].meta.version
       THEN UNCHANGED <<metas, counted>>       \* the request fails, the comment stays
       ELSE /\ Saved(c, [now EXCEPT !.items = Increased(c), !.version = @ + 1])
            /\ counted' = counted \union {c}
    /\ UNCHANGED <<restrictions, comments, kind, user, child, restriction>>

-----------------------------------------------------------------------------
(* banUser pushes what it has not found, unbanUser sets the list without   *)
(* the first entry of the user, setStatus sets a field of its own.         *)
Moderate(c) ==
    LET old == found[c].meta now == metas[found[c].at] listed == old.banned[user[c]] > 0 IN
    /\ pc[c] = "save" /\ kind[c] \in OnMeta
    /\ \/ /\ kind[c] = "ban" /\ ~listed
          /\ Saved(c, [now EXCEPT !.banned[user[c]] = @ + 1, !.version = @ + 1])
       \/ /\ kind[c] = "unban" /\ listed /\ now.version = old.version
          /\ Saved(c, [now EXCEPT !.banned[user[c]] = @ - 1, !.version = @ + 1])
       \/ /\ (kind[c] = "ban" /\ listed) \/ (kind[c] = "unban" /\ ~(listed /\ now.version = old.version))
          /\ UNCHANGED metas
       \/ kind[c] = "allow" /\ Saved(c, [now EXCEPT !.status = Written(old.status, "ALLOW", @)])
       \/ kind[c] = "disable" /\ Saved(c, [now EXCEPT !.status = Written(old.status, "DISABLE", @)])
    /\ Done(c)
    /\ UNCHANGED metaless

(* restrictUser: findOne returns one of those there are.                   *)
FindRestriction(c) ==
    /\ pc[c] = "find" /\ kind[c] \in {"restrict", "suspend"}
    /\ restrictions' = Current
    /\ \E id \in IF isRestricted(user[c]) THEN {r.id : r \in Of(user[c], Current)} ELSE {None} :
          restriction' = [restriction EXCEPT ![c] = id]
    /\ Goto(c, "save")
    /\ UNCHANGED <<metas, comments, kind, user, child, found, counted>>

SaveRestriction(c) ==
    LET ends == IF kind[c] = "restrict" THEN "never" ELSE "later"
        saved == {r \in restrictions : r.id = restriction[c]} IN    \* none: it is gone, the save fails
    /\ pc[c] = "save" /\ kind[c] \in {"restrict", "suspend"}
    /\ restrictions' =
          IF restriction[c] = None
          THEN restrictions \union {[id |-> c, user |-> user[c], ends |-> ends]}
          ELSE (restrictions \ saved) \union {[r EXCEPT !.ends = ends] : r \in saved}
    /\ Done(c) /\ restriction' = [restriction EXCEPT ![c] = None]
    /\ UNCHANGED <<metas, comments, kind, user, child, counted>>

(* removeCommentRestriction *)
Release(c) ==
    /\ pc[c] = "find" /\ kind[c] = "release"
    /\ restrictions' = {r \in restrictions : r.user # user[c]}
    /\ Done(c)
    /\ UNCHANGED <<metas, comments, kind, user, child, restriction, counted>>

(* clearUserCommentsAll *)
Clear(c) ==
    /\ pc[c] = "find" /\ kind[c] = "clear"
    /\ comments' = {d \in comments : user[d] # user[c]}
    /\ Done(c)
    /\ UNCHANGED <<metas, restrictions, kind, user, child, restriction, counted>>

(* The time of a restriction is over.                                      *)
Elapse(r) ==
    /\ r.ends = "later"
    /\ restrictions' = (restrictions \ {r}) \union {[r EXCEPT !.ends = "past"]}
    /\ UNCHANGED <<metas, comments, pc, kind, user, child, found, restriction, counted>>

Step ==
    \/ \E c \in Calls :
          \/ FindMeta(c) \/ CreateMeta(c) \/ NotOwner(c) \/ checkCommentingAbilities(c)
          \/ insertComment(c) \/ increaseExisting(c) \/ Moderate(c)
          \/ FindRestriction(c) \/ SaveRestriction(c) \/ Release(c) \/ Clear(c)
    \/ \E r \in restrictions : Elapse(r)

(* What does not keep the user of the request out in the present state.    *)
Open(c) ==
    {m \in Means :
        CASE m = "status" -> metas # <<>> => metas[1].status = "ALLOW"
          [] m = "ban" -> metas # <<>> => metas[1].banned[user[c]] = 0
          [] m = "restriction" -> Of(user[c], Current) = {}}

Asking(c) == kind[c] = "insert" /\ (found[c] # None \/ pc[c] \in {"find again", "insert", "increase"})

CommentsNext ==
    /\ Step
    /\ passed' = [c \in Calls |-> IF Asking(c)' THEN passed[c] \union Open(c)' ELSE {}]

CommentsSpec == CommentsInit /\ [][CommentsNext]_commentsVars

-----------------------------------------------------------------------------
(* A comment is stored only if, at some time since its request came, the   *)
(* entity was open to comments, at some time the user was not banned there *)
(* and at some time no restriction of the user was in force: what kept the *)
(* user out all the time keeps the comment out, although the meta and the  *)
(* restrictions are read one after the other and used later.               *)
OnlyPassed == \A c \in comments' \ comments : passed'[c] = Means
BlockedStaysOut == [][OnlyPassed]_commentsVars

(* What the items of a child count, an element for each of its comments.   *)
Counted(m, i) == {<<m, i, n>> : n \in 1 .. metas[m].items[i].length}
ItemsOf(m, ch) == {i \in DOMAIN metas[m].items : metas[m].items[i].child = ch}
Counts(ch) == UNION {UNION {Counted(m, i) : i \in ItemsOf(m, ch)} : m \in DOMAIN metas}

(* The counts of the metas add up to the comments whose request came that  *)
(* far, also when two requests count at the same time, make an item for    *)
(* the same child twice or two metas for the entity.                       *)
CountsAddUp ==
    \A ch \in Children :
        Cardinality(Counts(ch)) = Cardinality({c \in counted : child[c] = ch})
=============================================================================
