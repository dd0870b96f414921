------------------------------ MODULE BlogPosts ------------------------------
(***************************************************************************)
(* libs/greenhat-webservice: blog posts and the requests of administrators *)
(* that create, change, publish and remove them.  Each loads the post,     *)
(* changes it and saves the fields that differ from what it has loaded; an *)
(* index over the posts that are not deactivated refuses a slug twice.     *)
(***************************************************************************)
EXTENDS Integers

CONSTANTS
    Calls,         \* requests; a post has the id of the request that created it
    FirstPosts,    \* what posts there may be at first
    Slugs,
    Locales,
    None           \* no post, no date

VARIABLES
    posts,         \* the posts, by id
    pc, kind,
    found,         \* the post that a request has loaded
    changed,       \* and what it wants to save
    overlapped     \* history: posts saved from an earlier state than they had

postsVars == <<posts, pc, kind, found, changed, overlapped>>

Ids == Calls \union UNION {DOMAIN p : p \in FirstPosts}

(* texts: in each locale, a text, one of spaces only, a title or an empty  *)
(* text, or nothing.  publishedAt: the request that set the date.          *)
Texts == {"text", "spaces", "empty", "none"}
Post == [slug : Slugs, status : {"draft", "published"}, texts : [Locales -> Texts],
         defaultLocale : Locales, publishedAt : Ids \union {None}, active : BOOLEAN]
Kinds == {"create", "update", "publish", "draft", "remove"}
Loaded == [id : Ids, post : Post]

PostsTypeOK ==
    /\ DOMAIN posts \subseteq Ids /\ \A p \in DOMAIN posts : posts[p] \in Post
    /\ pc \in [Calls -> {"find", "check", "save", "done"}]
    /\ kind \in [Calls -> Kinds]
    /\ found \in [Calls -> Loaded \union {None}] /\ changed \in [Calls -> Post \union {None}]
    /\ overlapped \subseteq Ids

PostsInit ==
    /\ posts \in FirstPosts
    /\ pc = [c \in Calls |-> "find"] /\ kind \in [Calls -> Kinds]
    /\ found = [c \in Calls |-> None] /\ changed = [c \in Calls |-> None]
    /\ overlapped = {}

Active == {p \in DOMAIN posts : posts[p].active}

Goto(c, step) == pc' = [pc EXCEPT ![c] = step]
Done(c) == /\ Goto(c, "done")
           /\ found' = [found EXCEPT ![c] = None] /\ changed' = [changed EXCEPT ![c] = None]

-----------------------------------------------------------------------------
(* applySave(doc, input): what the input makes of the post.  A published   *)
(* post must have a text in its default locale.                            *)
LocalesOf(post) == {l \in Locales : post.texts[l] # "none"}

applySave_Unchecked(post, new) ==       \* bug: a published post is checked in setPublished only
    new.defaultLocale \in LocalesOf(new)

applySave(post, new) ==
    /\ new.defaultLocale \in LocalesOf(new)
    /\ post.status = "published" => new.texts[new.defaultLocale] = "text"

Inputs == [slug : Slugs, texts : [Locales -> Texts], defaultLocale : Locales]

Applied(post, in) == [post EXCEPT !.slug = in.slug, !.texts = in.texts,
                                  !.defaultLocale = in.defaultLocale]

Draft(in) == [slug |-> in.slug, status |-> "draft", texts |-> in.texts,
              defaultLocale |-> in.defaultLocale, publishedAt |-> None, active |-> TRUE]

(* create and update up to their next await; ensureSlugAvailable comes     *)
(* only if the slug is new.                                                *)
Create(c) ==
    /\ pc[c] = "find" /\ kind[c] = "create"
    /\ \E in \in Inputs :
          /\ applySave(Draft(in), Draft(in))
          /\ changed' = [changed EXCEPT ![c] = Draft(in)]
    /\ Goto(c, "check")
    /\ UNCHANGED <<posts, kind, found, overlapped>>

Update(c) ==
    /\ pc[c] = "find" /\ kind[c] = "update"
    /\ \E p \in Active, in \in Inputs :
          LET new == Applied(posts[p], in) IN
          /\ applySave(posts[p], new)
          /\ found' = [found EXCEPT ![c] = [id |-> p, post |-> posts[p]]]
          /\ changed' = [changed EXCEPT ![c] = new]
          /\ Goto(c, IF new.slug = posts[p].slug THEN "save" ELSE "check")
    /\ UNCHANGED <<posts, kind, overlapped>>

(* No such post, an input that is refused.                                 *)
Refused(c) == pc[c] = "find" /\ Done(c) /\ UNCHANGED <<posts, kind, overlapped>>

ensureSlugAvailable(c) ==
    /\ pc[c] = "check"
    /\ LET others == IF found[c] = None THEN Active ELSE Active \ {found[c].id} IN
       IF \E p \in others : posts[p].slug = changed[c].slug THEN Done(c)
       ELSE Goto(c, "save") /\ UNCHANGED <<found, changed>>
    /\ UNCHANGED <<posts, kind, overlapped>>

(* setPublished: the date is that of the first publication.                *)
publishedAt_Anew(post, c) ==            \* bug: only what is published keeps its date
    IF post.status = "published" THEN post.publishedAt ELSE c

publishedAt(post, c) ==
    IF post.status = "published" \/ post.publishedAt # None THEN post.publishedAt ELSE c

setPublished(c) ==
    /\ pc[c] = "find" /\ kind[c] \in {"publish", "draft"}
    /\ \E p \in Active :
          LET post == posts[p] IN
          /\ kind[c] = "publish" => post.texts[post.defaultLocale] = "text"
          /\ found' = [found EXCEPT ![c] = [id |-> p, post |-> post]]
          /\ changed' = [changed EXCEPT ![c] =
                IF kind[c] = "draft" THEN [post EXCEPT !.status = "draft"]
                ELSE [post EXCEPT !.status = "published", !.publishedAt = publishedAt(post, c)]]
    /\ Goto(c, "save")
    /\ UNCHANGED <<posts, kind, overlapped>>

remove(c) ==
    /\ pc[c] = "find" /\ kind[c] = "remove"
    /\ \E p \in Active :
          /\ found' = [found EXCEPT ![c] = [id |-> p, post |-> posts[p]]]
          /\ changed' = [changed EXCEPT ![c] = [posts[p] EXCEPT !.active = FALSE]]
    /\ Goto(c, "save")
    /\ UNCHANGED <<posts, kind, overlapped>>

-----------------------------------------------------------------------------
Written(old, new, now) == [f \in DOMAIN now |-> IF old[f] = new[f] THEN now[f] ELSE new[f]]

(* What the document is after the save, unless the index refuses it.       *)
After(c) ==
    IF found[c] = None THEN changed[c]
    ELSE Written(found[c].post, changed[c], posts[found[c].id])

IdOf(c) == IF found[c] = None THEN c ELSE found[c].id

Accepted(p, post) == post.active => \A q \in Active \ {p} : posts[q].slug # post.slug

(* doc.save(), saveHandlingConflict *)
Save(c) ==
    /\ pc[c] = "save"
    /\ LET p == IdOf(c) IN
       IF Accepted(p, After(c))
       THEN /\ posts' = [q \in DOMAIN posts \union {p} |-> IF q = p THEN After(c) ELSE posts[q]]
            /\ overlapped' = IF found[c] # None /\ posts[p] # found[c].post
                             THEN overlapped \union {p} ELSE overlapped
       ELSE UNCHANGED <<posts, overlapped>>
    /\ Done(c)
    /\ UNCHANGED kind

PostsNext == \E c \in Calls :
    \/ Create(c) \/ Update(c) \/ Refused(c) \/ ensureSlugAvailable(c)
    \/ setPublished(c) \/ remove(c) \/ Save(c)

PostsSpec == PostsInit /\ [][PostsNext]_postsVars

-----------------------------------------------------------------------------
(* What the public is shown: listPublic and getPublicBySlug, in the locale *)
(* that is asked for, in that of the post, or in any other.                *)
Public == {p \in Active : posts[p].status = "published"}

HasContent(post) == {l \in Locales : post.texts[l] \in {"text", "spaces"}}

resolveLocale(post, requested) ==
    IF requested \in HasContent(post) THEN {requested}
    ELSE IF post.defaultLocale \in HasContent(post) THEN {post.defaultLocale}
    ELSE IF HasContent(post) # {} THEN HasContent(post)
    ELSE {post.defaultLocale}

(* A reader of a public post gets the locale asked for, if it has one, or  *)
(* that of the post, and then never an empty page: the check is made when  *)
(* a post is published and at each change of a published one, and only two *)
(* requests at the same time can undo it, one publishing what the other    *)
(* empties.                                                                *)
PublishedHasText ==
    \A p \in Public \ overlapped, l \in Locales \union {None} :
        \A shown \in resolveLocale(posts[p], l) :
            IF shown = l THEN posts[p].texts[l] \in {"text", "spaces"}
            ELSE shown = posts[p].defaultLocale /\ posts[p].texts[shown] = "text"

(* The date of a publication, by which the public list is sorted, is set   *)
(* once: it stays through drafts and further publications, except when two *)
(* requests publish for the first time together.                           *)
DateStays ==
    \A p \in DOMAIN posts :
        (posts[p].publishedAt # None /\ posts'[p].publishedAt # posts[p].publishedAt)
            => p \in overlapped'
DateIsKept == [][DateStays]_postsVars
=============================================================================
