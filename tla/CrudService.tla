----------------------------- MODULE CrudService -----------------------------
(***************************************************************************)
(* libs/crud-base, BaseCrudService with BaseCrudController: one document   *)
(* and the requests that create, edit and remove it, with an operation of  *)
(* the derived service that sets a mark of its own: the resolve of a       *)
(* feedback message, which is answered by e-mail, or the remove of a       *)
(* greenhat project.                                                       *)
(*                                                                         *)
(* An edit saves a copy of what it has loaded, `new this.m(m)`, and so     *)
(* writes every field; when the schema has an array, only over the version *)
(* that was loaded.  The operation of the derived service writes the       *)
(* fields it has changed.  (CacheManager has the reads and the invalida-   *)
(* tions; the own operations do not invalidate.)                           *)
(***************************************************************************)
EXTENDS Naturals

CONSTANTS
    Calls,
    Before,          \* what there is at first, if anything, was written by
    Roles, Admin,    \* the roles of users, that of administrators among them
    NoUser,          \* for a request without a user
    Authorization,   \* the roles that may do an operation, by ADD, EDIT, REMOVE or ALL
    HasArray,        \* the schema has an array field
    Missing          \* no document

VARIABLES
    doc,             \* the document
    pc, kind, role,
    found,           \* what a request has loaded
    announced        \* the requests whose e-mail or ownership was emitted

crudVars == <<doc, pc, kind, role, found, announced>>

Doc == [id : Calls \union {Before}, body : Calls \union {Before}, marked : BOOLEAN, version : Nat]
Kinds == {"ADD", "EDIT", "REMOVE", "mark"}

CrudTypeOK ==
    /\ doc \in Doc \union {Missing}
    /\ pc \in [Calls -> {"ask", "find", "save", "delete", "after", "done"}]
    /\ kind \in [Calls -> Kinds] /\ role \in [Calls -> Roles \union {NoUser}]
    /\ found \in [Calls -> Doc \union {Missing}]
    /\ announced \subseteq Calls

CrudInit ==
    /\ doc \in {Missing, [id |-> Before, body |-> Before, marked |-> FALSE, version |-> 0]}
    /\ pc = [c \in Calls |-> "ask"]
    /\ kind \in [Calls -> Kinds] /\ role \in [Calls -> Roles \union {NoUser}]
    /\ found = [c \in Calls |-> Missing]
    /\ announced = {}

Goto(c, step) == pc' = [pc EXCEPT ![c] = step]
Done(c) == Goto(c, "done") /\ found' = [found EXCEPT ![c] = Missing]

-----------------------------------------------------------------------------
(* findExistAuth and the guards of CrudControllerConfig: the entry of the  *)
(* operation, or ALL; an entry that does not say whether it needs a user   *)
(* does if it has roles; without roles, any user; an administrator always. *)
Entry(op) ==
    IF op \in DOMAIN Authorization THEN Authorization[op]
    ELSE IF "ALL" \in DOMAIN Authorization THEN Authorization["ALL"]
    ELSE [needsAuthenticated |-> FALSE, roles |-> {}]

findExistAuth(op) ==
    LET auth == Entry(op) IN
    IF auth.needsAuthenticated = Missing
    THEN [auth EXCEPT !.needsAuthenticated = (auth.roles # {})] ELSE auth

matchRolesOrAdm(roles, r) == r = Admin \/ r \in roles

MayCall(op, r) ==
    LET auth == findExistAuth(op) IN
    auth.needsAuthenticated =>
        r # NoUser /\ (auth.roles # {} => matchRolesOrAdm(auth.roles, r))

Ask(c) ==
    /\ pc[c] = "ask"
    /\ IF kind[c] = "mark" \/ MayCall(kind[c], role[c])
       THEN Goto(c, IF kind[c] = "ADD" THEN "save" ELSE "find") /\ UNCHANGED found
       ELSE Done(c)
    /\ UNCHANGED <<doc, kind, role, announced>>

(* findById; what is not there fails the request in the next hook.         *)
Find(c) ==
    /\ pc[c] = "find"
    /\ IF doc = Missing THEN Done(c)
       ELSE /\ found' = [found EXCEPT ![c] = doc]
            /\ Goto(c, IF kind[c] = "REMOVE" THEN "delete" ELSE "save")
    /\ UNCHANGED <<doc, kind, role, announced>>

(* moveIntoModel: what the input brings; the mark is set when there is     *)
(* none yet.                                                               *)
moveIntoModel_Reset(c) ==       \* bug: the status is set anew
    [found[c] EXCEPT !.body = c, !.marked = FALSE]

moveIntoModel(c) == [found[c] EXCEPT !.body = c]

(* create, from m.saveModel on: the document, and then afterCreate.        *)
Create(c) ==
    /\ pc[c] = "save" /\ kind[c] = "ADD"
    /\ doc' = IF doc = Missing THEN [id |-> c, body |-> c, marked |-> FALSE, version |-> 0] ELSE doc
    /\ IF doc = Missing THEN Goto(c, "after") /\ UNCHANGED found ELSE Done(c)
    /\ UNCHANGED <<kind, role, announced>>

Exists(c) == doc # Missing /\ doc.id = found[c].id

Matches(c) == Exists(c) /\ (HasArray => doc.version = found[c].version)

(* edit, from m.saveModel on                                               *)
Edit(c) ==
    /\ pc[c] = "save" /\ kind[c] = "EDIT"
    /\ doc' = IF Matches(c) THEN [moveIntoModel(c) EXCEPT !.version = @ + IF HasArray THEN 1 ELSE 0] ELSE doc
    /\ Done(c)
    /\ UNCHANGED <<kind, role, announced>>

(* UserMessageService.resolve, ProjectService.remove                       *)
Mark(c) ==
    /\ pc[c] = "save" /\ kind[c] = "mark"
    /\ doc' = IF ~Exists(c) THEN doc
              ELSE [doc EXCEPT !.marked = IF found[c].marked THEN @ ELSE TRUE]
    /\ IF ~Exists(c) THEN Done(c) ELSE Goto(c, "after") /\ UNCHANGED found
    /\ UNCHANGED <<kind, role, announced>>

(* afterCreate, sentUserMessageResolvedMail: emitted, not waited for; or   *)
(* the process dies before.                                                *)
Announce(c) ==
    /\ pc[c] = "after" /\ Done(c)
    /\ announced' \in {announced, announced \union {c}}
    /\ UNCHANGED <<doc, kind, role>>

(* remove: findByIdAndDelete                                               *)
Remove(c) ==
    /\ pc[c] = "delete" /\ Done(c)
    /\ doc' = IF Exists(c) THEN Missing ELSE doc
    /\ UNCHANGED <<kind, role, announced>>

CrudNext == \E c \in Calls :
    Ask(c) \/ Find(c) \/ Create(c) \/ Edit(c) \/ Mark(c) \/ Announce(c) \/ Remove(c)

CrudSpec == CrudInit /\ [][CrudNext]_crudVars

-----------------------------------------------------------------------------
(* What has been resolved, or removed, stays so through the edits that     *)
(* come after; only an edit that had loaded the document before, and       *)
(* writes all of it back, undoes it.                                       *)
OnlyOldEditsUnmark ==
    (doc # Missing /\ doc' # Missing /\ doc.marked /\ ~doc'.marked)
        => \E c \in Calls : kind[c] = "EDIT" /\ pc[c] = "save" /\ pc'[c] = "done"
                            /\ ~found[c].marked
MarkStays == [][OnlyOldEditsUnmark]_crudVars
=============================================================================
