------------------------------ MODULE Documents ------------------------------
(***************************************************************************)
(* libs/greenhat-webservice: the tree of the documents of one project and  *)
(* the requests that add to it, rename, fill and remove.  A document keeps *)
(* its path and all its ancestors, copied from the parent that the request *)
(* has read.  Two indexes of the database, over the documents that are not *)
(* deactivated, refuse a second document of the same path or name.         *)
(***************************************************************************)
EXTENDS Integers, Sequences

CONSTANTS
    Calls,          \* requests; a document that is added has the id of its request
    FirstTrees,     \* what documents there may be at first
    Names, Slugs,   \* names in lower case
    Locales,
    None            \* no parent, no content

VARIABLES
    docs,           \* the documents, by id
    pc, kind,
    name,           \* the name that a request wants
    found,          \* what it has read: of a parent or of its document
    todo,           \* the matches of the update of many documents, not done yet
    late            \* history: added below a document while that was being removed

docsVars == <<docs, pc, kind, name, found, todo, late>>

Ids == Calls \union UNION {DOMAIN t : t \in FirstTrees}
Doc == [parent : Ids \union {None}, ancestors : SUBSET Ids, slug : Slugs, path : Seq(Slugs),
        name : Names, active : BOOLEAN, contents : [Locales -> Calls \union {None}]]
Found == [id : Ids \union {None}, ancestors : SUBSET Ids, path : Seq(Slugs)]
Nothing == [id |-> None, ancestors |-> {}, path |-> <<>>]

DocsTypeOK ==
    /\ DOMAIN docs \subseteq Ids /\ \A d \in DOMAIN docs : docs[d] \in Doc
    /\ pc \in [Calls -> {"find", "check", "parent", "save", "update", "done"}]
    /\ kind \in [Calls -> {"add", "rename", "put", "remove"}]
    /\ name \in [Calls -> Names \union {None}]
    /\ found \in [Calls -> Found]
    /\ todo \in [Calls -> SUBSET Ids] /\ late \subseteq Ids

DocsInit ==
    /\ docs \in FirstTrees
    /\ pc = [c \in Calls |-> "find"]
    /\ kind \in [Calls -> {"add", "rename", "put", "remove"}]
    /\ name = [c \in Calls |-> None]
    /\ found = [c \in Calls |-> Nothing]
    /\ todo = [c \in Calls |-> {}]
    /\ late = {}

Active == {d \in DOMAIN docs : docs[d].active}

Goto(c, step) == pc' = [pc EXCEPT ![c] = step]
Done(c) == /\ Goto(c, "done") /\ found' = [found EXCEPT ![c] = Nothing]
           /\ name' = [name EXCEPT ![c] = None]

-----------------------------------------------------------------------------
(* The project is removed, the locale or the name is none, or the service  *)
(* of the ownerships, asked over the bus, knows of no right to edit.       *)
Refused(c) == pc[c] = "find" /\ Done(c) /\ UNCHANGED <<docs, kind, todo, late>>

(* renameDocument, putDocumentContent and removeDocumentRecursive begin    *)
(* with the document; a request for one that is not there is refused.      *)
Find(c) ==
    /\ pc[c] = "find" /\ kind[c] # "add"
    /\ \E d \in Active :
          found' = [found EXCEPT ![c] = [id |-> d, ancestors |-> docs[d].ancestors, path |-> docs[d].path]]
    /\ Goto(c, CASE kind[c] = "rename" -> "check" [] kind[c] = "put" -> "save" [] kind[c] = "remove" -> "update")
    /\ UNCHANGED <<docs, kind, name, todo, late>>

Named(n) == {d \in Active : docs[d].name = n}

(* existingByName, duplicate *)
CheckName(c) ==
    /\ pc[c] = (IF kind[c] = "add" THEN "find" ELSE "check") /\ kind[c] \in {"add", "rename"}
    /\ \E n \in Names :
          IF Named(n) \ {found[c].id} # {} THEN Done(c)
          ELSE /\ name' = [name EXCEPT ![c] = n]
               /\ Goto(c, IF kind[c] = "add" THEN "parent" ELSE "save")
               /\ UNCHANGED found
    /\ UNCHANGED <<docs, kind, todo, late>>

FindParent(c) ==
    /\ pc[c] = "parent"
    /\ \/ Goto(c, "save") /\ UNCHANGED <<found, name>>           \* a root
       \/ \E d \in DOMAIN docs :
             IF d \notin Active THEN Done(c)
             ELSE /\ found' = [found EXCEPT ![c] = [id |-> d, ancestors |-> docs[d].ancestors, path |-> docs[d].path]]
                  /\ Goto(c, "save") /\ UNCHANGED name
    /\ UNCHANGED <<docs, kind, todo, late>>

(* The unique indexes on path and name.                                    *)
Accepted(d, path, n) == \A e \in Active \ {d} : docs[e].path # path /\ docs[e].name # n

Ancestors(c) == found[c].ancestors \union ({found[c].id} \ {None})

Added(c, slug, path) ==
    [parent |-> found[c].id, ancestors |-> Ancestors(c), slug |-> slug, path |-> path, name |-> name[c],
     active |-> TRUE, contents |-> [l \in Locales |-> None]]

Save(c) ==
    /\ pc[c] = "save" /\ kind[c] = "add"
    /\ \E slug \in Slugs :
          LET path == Append(found[c].path, slug) IN
          IF Accepted(c, path, name[c])
          THEN /\ docs' = [d \in DOMAIN docs \union {c} |-> IF d = c THEN Added(c, slug, path) ELSE docs[d]]
               /\ late' = IF \E a \in Ancestors(c) :
                               a \notin Active \/ \E r \in Calls : a = found[r].id /\ todo[r] # {}
                          THEN late \union {c} ELSE late
          ELSE UNCHANGED <<docs, late>>
    /\ Done(c)
    /\ UNCHANGED <<kind, todo>>

(* bug: the path follows the name, of this document alone                  *)
Rename_Moves(c) ==
    LET d == found[c].id IN
    /\ pc[c] = "save" /\ kind[c] = "rename"
    /\ \E slug \in Slugs :
          LET path == Append(SubSeq(docs[d].path, 1, Len(docs[d].path) - 1), slug) IN
          docs' = IF d \in Active /\ ~Accepted(d, path, name[c]) THEN docs
                  ELSE [docs EXCEPT ![d].name = name[c], ![d].path = path, ![d].slug = slug]
    /\ Done(c)
    /\ UNCHANGED <<kind, todo, late>>

Rename(c) ==
    LET d == found[c].id IN
    /\ pc[c] = "save" /\ kind[c] = "rename"
    /\ docs' = IF d \in Active /\ ~Accepted(d, docs[d].path, name[c]) THEN docs
               ELSE [docs EXCEPT ![d].name = name[c]]
    /\ Done(c)
    /\ UNCHANGED <<kind, todo, late>>

(* putDocumentContent: the save writes the locale that was set.            *)
Put(c) ==
    /\ pc[c] = "save" /\ kind[c] = "put"
    /\ \E l \in Locales : docs' = [docs EXCEPT ![found[c].id].contents[l] = c]
    /\ Done(c)
    /\ UNCHANGED <<kind, todo, late>>

-----------------------------------------------------------------------------
(* bug: the root and its children *)
Below_Children(r) == {d \in Active : d = r \/ docs[d].parent = r}

Below(r) == {d \in Active : d = r \/ r \in docs[d].ancestors}

(* updateMany: not one step but one for each document it finds; what is    *)
(* added meanwhile may be found or not.                                    *)
Match(c) ==
    /\ pc[c] = "update" /\ todo[c] = {} /\ Below(found[c].id) # {}
    /\ todo' = [todo EXCEPT ![c] = Below(found[c].id)]
    /\ UNCHANGED <<docs, pc, kind, name, found, late>>

Deactivate(c) ==
    /\ pc[c] = "update" /\ todo[c] # {}
    /\ \E d \in todo[c] \union Below(found[c].id) :
          /\ docs' = [docs EXCEPT ![d].active = FALSE]
          /\ todo' = [todo EXCEPT ![c] = @ \ {d}]
          /\ IF todo[c] \subseteq {d} THEN Done(c) ELSE UNCHANGED <<pc, name, found>>
    /\ UNCHANGED <<kind, late>>

MatchNone(c) ==
    /\ pc[c] = "update" /\ todo[c] = {} /\ Below(found[c].id) = {}
    /\ Done(c)
    /\ UNCHANGED <<docs, kind, todo, late>>

DocsNext == \E c \in Calls :
    \/ Refused(c) \/ Find(c) \/ CheckName(c) \/ FindParent(c) \/ Save(c) \/ Rename(c) \/ Put(c)
    \/ Match(c) \/ Deactivate(c) \/ MatchNone(c)

DocsSpec == DocsInit /\ [][DocsNext]_docsVars

-----------------------------------------------------------------------------
(* listDocuments: what is shown below a document, or at the root.          *)
listDocuments(p) ==
    IF p # None /\ p \notin Active THEN {} ELSE {d \in Active : docs[d].parent = p}

(* previewRecursiveRemove: what its two counts are of.                     *)
Descendants(r) == {d \in Active : r \in docs[d].ancestors}
DirectChildren(r) == {d \in Active : docs[d].parent = r}

(* The path and the ancestors of every document, copies of what its parent *)
(* had when it was added, are still those of its parent with one more; so  *)
(* a preview counts the children that it shows among the descendants.      *)
TreeIsConsistent ==
    /\ \A d \in DOMAIN docs : docs[d].parent # None =>
          LET p == docs[docs[d].parent] IN
          /\ docs[d].path = Append(p.path, docs[d].slug)
          /\ docs[d].ancestors = p.ancestors \union {docs[d].parent}
    /\ \A r \in Active : DirectChildren(r) \subseteq Descendants(r)

Removing == {c \in Calls : todo[c] # {}}

(* No document is left below one that is deactivated, where no list shows  *)
(* it, unless it was added while that one was being removed, or is below   *)
(* such a one: the removal of a whole subtree reads the ancestors, not the *)
(* tree.                                                                   *)
RemovalIsComplete ==
    Removing = {} => \A d \in Active : d \in listDocuments(docs[d].parent) \/ d \in late
=============================================================================
