------------------------------ MODULE Accounts ------------------------------
(***************************************************************************)
(* The accounts of libs/users-webservice: registration and activation,     *)
(* accounts made, changed and deleted by administrators, changes of the    *)
(* e-mail address, forgotten passwords, and the first account of all.      *)
(*                                                                         *)
(* A request is a sequence of commands to the database, shared by several  *)
(* operations: look whether name and address are free, load a document,    *)
(* save it.  Other requests come in between, time passes, and a request    *)
(* may die before any command.  A document that was loaded and changed is  *)
(* saved by writing the fields that differ from what was loaded; the save  *)
(* fails when the document is gone.                                        *)
(*                                                                         *)
(* Documents, passwords and activation keys are known by the request that  *)
(* made them.                                                              *)
(***************************************************************************)
EXTENDS FiniteSets

CONSTANTS
    Requests,
    Before,       \* whoever made what is there at the start
    Names, Emails,
    Typed,        \* what people type into forms
    First,        \* the environment's initial account
    Nothing

Ids == Requests \union {Before}

(* What is typed may not be in lower case, as it will be stored.           *)
Identities == [name : Names, email : Emails, lower : BOOLEAN]

ASSUME Inputs ==
    Typed \subseteq Identities /\ First \in Identities /\ First.lower
ASSUME Distinct == Before \notin Requests /\ Nothing \notin Ids \union Names \union Emails

VARIABLES
    users,        \* the ids in the collection of users ...
    user,         \* ... and the document of each
    forms,        \* the ids of the registrations (UserCandiate) ...
    form,         \* ... and the document of each
    changes,      \* EmailChangeRequest
    links,        \* PwResetRequest
    expired,      \* the registrations, changes and links whose time has passed
    pc,           \* the next command of each request
    req,          \* what it is for
    seen,         \* the document it has loaded
    mailed,       \* history: the activation keys sent, and to whom
    mixed,        \* history: registrations filled in twice at the same time
    crossed,      \* history: users asked for twice at the same time
    served        \* history: registrations and links that have had their effect

collections == <<users, user, forms, form, changes, links, expired>>
history == <<mailed, mixed, crossed, served>>
vars == <<collections, pc, req, seen, history>>

User == [name : Names, email : Emails, password : Ids]
Form == [name : Names \union {Nothing}, email : Emails \union {Nothing},
         password : Ids \union {Nothing}, key : Ids \union {Nothing}]
Change == [id : Requests, user : Ids, email : Emails]
Link == [id : Requests, user : Ids]
NoUser == [name |-> First.name, email |-> First.email, password |-> Before]
NoForm == [name |-> Nothing, email |-> Nothing, password |-> Nothing, key |-> Nothing]
FilledForm(t) == [name |-> t.name, email |-> t.email, password |-> Before, key |-> Before]

Steps == {"uncalled", "count", "check", "check forms", "check others", "insert", "load", "save",
          "delete", "load form", "save form", "find key", "drop form", "find change",
          "save change", "find login", "delete links", "save link", "find link", "drop link",
          "done"}
Operations == {"start", "renew", "register", "activate", "create", "edit", "delete", "password",
               "ask change", "approve change", "forgot", "reset"}

(* `by` is the key, change, link or login given, `of` the document that is *)
(* meant, `typed` what it shall become, `alsoPassword` whether an edit     *)
(* has a new password.                                                     *)
Request == [op : Operations, by : Ids \union Names \union Emails \union {Nothing},
            of : Ids \union {Nothing}, typed : Identities, alsoPassword : BOOLEAN]
Asking(op) == [op |-> op, by |-> Nothing, of |-> Nothing, typed |-> First, alsoPassword |-> FALSE]

TypeOK ==
    /\ users \subseteq Ids /\ user \in [Ids -> User]
    /\ forms \subseteq Ids /\ form \in [Ids -> Form]
    /\ changes \subseteq Change /\ links \subseteq Link /\ expired \subseteq Ids
    /\ pc \in [Requests -> Steps] /\ req \in [Requests -> Request]
    /\ seen \in [Requests -> User \union Form]
    /\ mailed \subseteq [key : Ids, email : Emails]
    /\ mixed \subseteq Ids /\ crossed \subseteq Ids /\ served \subseteq Ids

Init ==
    /\ users \in SUBSET {Before} /\ user = [i \in Ids |-> NoUser]
    /\ forms \in SUBSET {Before}
    /\ \E d \in {NoForm} \union {FilledForm(t) : t \in Typed} :
          /\ form = [i \in Ids |-> IF i = Before THEN d ELSE NoForm]
          /\ d # NoForm => forms = {Before}
    /\ mailed = {[key |-> form[f].key, email |-> form[f].email] : f \in {i \in Ids : form[i] # NoForm}}
    /\ changes = {} /\ links = {} /\ expired = {}
    /\ pc = [r \in Requests |-> "uncalled"]
    /\ req = [r \in Requests |-> Asking("start")]
    /\ seen = [r \in Requests |-> NoUser]
    /\ mixed = {} /\ crossed = {} /\ served = {}

-----------------------------------------------------------------------------
Go(r, step, request, document) ==
    /\ pc' = [pc EXCEPT ![r] = step]
    /\ req' = [req EXCEPT ![r] = request]
    /\ seen' = [seen EXCEPT ![r] = document]
Goto(r, step) == Go(r, step, req[r], seen[r])
End(r) == Go(r, "done", Asking("start"), NoUser)

(* A request arrives, or a process starts.  Only who was sent a key, a     *)
(* change or a link can name it; it may be gone when it is looked for.     *)
Arrive(r) ==
    LET Ask(step, request) == Go(r, step, request, NoUser)
        About(op, i) == [Asking(op) EXCEPT !.of = i]
        With(op, what) == [Asking(op) EXCEPT !.by = what] IN
    /\ pc[r] = "uncalled"
    /\ \/ Ask("count", Asking("start"))
       \/ \E f \in forms \union {Nothing} : Ask("load form", About("renew", f))
       \/ \E f \in forms, t \in Typed : Ask("check", [About("register", f) EXCEPT !.typed = t])
       \/ \E m \in mailed : Ask("find key", With("activate", m.key))
       \/ \E t \in Typed : Ask("check", [Asking("create") EXCEPT !.typed = t])
       \/ \E i \in users, t \in Typed, p \in BOOLEAN :
             Ask("check others", [About("edit", i) EXCEPT !.typed = t, !.alsoPassword = p])
       \/ \E i \in users : Ask("delete", About("delete", i))
       \/ \E i \in users : Ask("load", About("password", i))
       \/ \E i \in users, e \in {t.email : t \in Typed} :
             Ask("check others", [About("ask change", i) EXCEPT !.typed = [First EXCEPT !.email = e]])
       \/ \E c \in changes : Ask("find change", [About("approve change", c.user) EXCEPT !.by = c.id])
       \/ \E i \in users : \E login \in {user[i].name, user[i].email} :
             Ask("find login", With("forgot", login))
       \/ \E l \in links : Ask("find link", With("reset", l.id))
    /\ UNCHANGED <<collections, history>>

(* initOperation: something is to be done only if there are no users.      *)
Count(r) ==
    /\ pc[r] = "count"
    /\ IF users = {} THEN Goto(r, "check") ELSE End(r)
    /\ UNCHANGED <<collections, history>>

-----------------------------------------------------------------------------
(* The new user.                                                           *)

(* Documents are looked for by what was typed, in the case it was typed.   *)
Same(d, t) == t.lower /\ (d.name = t.name \/ d.email = t.email)

(* assertUserInfoValid of UserCommonService and findByUsernameOrEmail.     *)
CheckUsers(r) ==
    /\ pc[r] = "check"
    /\ IF \E i \in users : Same(user[i], req[r].typed) THEN End(r)
       ELSE Goto(r, IF req[r].op = "register" THEN "check forms" ELSE "insert")
    /\ UNCHANGED <<collections, history>>

(* A new user is saved.  Its name has a unique index, its address has not. *)
Insert(r) ==
    LET t == req[r].typed
        password == IF req[r].op = "activate" THEN seen[r].password ELSE r IN
    /\ pc[r] = "insert"
    /\ IF \E i \in users : user[i].name = t.name
       THEN End(r) /\ UNCHANGED <<users, user, served>>
       ELSE /\ users' = users \union {r}
            /\ user' = [user EXCEPT ![r] = [name |-> t.name, email |-> t.email,
                                            password |-> password]]
            /\ IF req[r].op = "activate"
               THEN Goto(r, "drop form") /\ served' = served \union {req[r].of}
               ELSE End(r) /\ UNCHANGED served
    /\ UNCHANGED <<forms, form, changes, links, expired, mailed, mixed, crossed>>

Delete(r) ==
    /\ pc[r] = "delete"
    /\ users' = users \ {req[r].of}
    /\ End(r)
    /\ UNCHANGED <<user, forms, form, changes, links, expired, history>>

-----------------------------------------------------------------------------
(* The registration.                                                       *)

(* The second half of assertUserInfoValid of UserRegisterService.          *)
CheckForms(r) ==
    /\ pc[r] = "check forms"
    /\ IF \E f \in forms \ {req[r].of} : Same(form[f], req[r].typed) THEN End(r)
       ELSE Goto(r, "load form")
    /\ UNCHANGED <<collections, history>>

(* findById: renewing makes a new registration when there is none.         *)
LoadForm(r) ==
    LET f == req[r].of
        Overlaps == \E q \in Requests \ {r} :
                       pc[q] = "save form" /\ req[q].op = "register" /\ req[q].of = f IN
    /\ pc[r] = "load form"
    /\ IF f \in forms
       THEN /\ Go(r, "save form", req[r], form[f])
            /\ mixed' = IF req[r].op = "register" /\ Overlaps THEN mixed \union {f} ELSE mixed
       ELSE /\ IF req[r].op = "renew" THEN Go(r, "save form", [req[r] EXCEPT !.of = r], NoForm)
               ELSE End(r)
            /\ UNCHANGED mixed
    /\ UNCHANGED <<collections, mailed, crossed, served>>

(* The fields of document d with another value than was loaded are written *)
(* over the stored ones.                                                   *)
Written(stored, loaded, d) ==
    [x \in DOMAIN stored |-> IF d[x] # loaded[x] THEN d[x] ELSE stored[x]]

(* What register leaves in the document.                                   *)
Filled_SameKey(r) ==      \* bug: a key that has been sent already is kept
    LET t == req[r].typed
        key == IF seen[r].key # Nothing THEN seen[r].key ELSE r IN
    [name |-> t.name, email |-> t.email, password |-> r, key |-> key]
Filled(r) ==
    LET t == req[r].typed IN
    [name |-> t.name, email |-> t.email, password |-> r, key |-> r]

(* The end of renewOrCheckOld; of register, with the mail, which has the   *)
(* address that was typed whatever is stored by then.                      *)
SaveForm(r) ==
    LET f == req[r].of
        d == IF req[r].op = "register" THEN Filled(r) ELSE seen[r] IN
    /\ pc[r] = "save form"
    /\ End(r)
    /\ IF f \in forms \/ f = r
       THEN /\ forms' = forms \union {f}
            /\ form' = [form EXCEPT ![f] = IF f = r THEN d ELSE Written(@, seen[r], d)]
            /\ expired' = expired \ {f}
            /\ mailed' = IF req[r].op = "register"
                         THEN mailed \union {[key |-> d.key, email |-> d.email]} ELSE mailed
       ELSE UNCHANGED <<forms, form, expired, mailed>>
    /\ UNCHANGED <<users, user, changes, links, mixed, crossed, served>>

(* enableUser.  Whether the registration has expired is not asked.         *)
FindKey(r) ==
    /\ pc[r] = "find key"
    /\ \/ \E f \in forms :
             /\ form[f].key = req[r].by
             /\ Go(r, "check", [req[r] EXCEPT !.of = f, !.typed = [name |-> form[f].name,
                                             email |-> form[f].email, lower |-> TRUE]], form[f])
       \/ /\ \A f \in forms : form[f].key # req[r].by
          /\ End(r)
    /\ UNCHANGED <<collections, history>>

DropForm(r) ==
    /\ pc[r] = "drop form"
    /\ forms' = forms \ {req[r].of}
    /\ End(r)
    /\ UNCHANGED <<users, user, form, changes, links, expired, history>>

-----------------------------------------------------------------------------
(* The address.                                                            *)

(* findByEmailExcludeUserId.                                               *)
CheckOthers(r) ==
    LET t == req[r].typed IN
    /\ pc[r] = "check others"
    /\ IF \E i \in users \ {req[r].of} : t.lower /\ user[i].email = t.email THEN End(r)
       ELSE Goto(r, IF req[r].op = "edit" THEN "load" ELSE "save change")
    /\ UNCHANGED <<collections, history>>

(* The end of insertNewRequest.  Its deleteMany is never executed: nobody  *)
(* awaits the query.                                                       *)
SaveChange(r) ==
    /\ pc[r] = "save change"
    /\ changes' = changes \union {[id |-> r, user |-> req[r].of, email |-> req[r].typed.email]}
    /\ End(r)
    /\ UNCHANGED <<users, user, forms, form, links, expired, history>>

(* approveEmailChange, with the right code.  The change stays.             *)
FindChange(r) ==
    /\ pc[r] = "find change"
    /\ \/ \E c \in changes :
             /\ c.id = req[r].by /\ c.id \notin expired /\ c.user = req[r].of
             /\ Go(r, "load", [req[r] EXCEPT !.typed.email = c.email], NoUser)
       \/ /\ \A c \in changes : c.id = req[r].by => c.id \in expired \/ c.user # req[r].of
          /\ End(r)
    /\ UNCHANGED <<collections, history>>

-----------------------------------------------------------------------------
(* The change of a user.                                                   *)
LoadUser(r) ==
    /\ pc[r] = "load"
    /\ IF req[r].of \in users THEN Go(r, "save", req[r], user[req[r].of]) ELSE End(r)
    /\ UNCHANGED <<collections, history>>

(* What the operations leave in the document they have loaded.             *)
Changed(r) ==
    LET t == req[r].typed IN
    CASE req[r].op = "edit" ->
            [name |-> t.name, email |-> t.email,
             password |-> IF req[r].alsoPassword THEN r ELSE seen[r].password]
      [] req[r].op = "approve change" -> [seen[r] EXCEPT !.email = t.email]
      [] req[r].op \in {"password", "reset"} -> [seen[r] EXCEPT !.password = r]

SaveUser(r) ==
    LET i == req[r].of
        d == Changed(r) IN
    /\ pc[r] = "save"
    /\ IF i \notin users \/ (d.name # seen[r].name /\ \E j \in users \ {i} : user[j].name = d.name)
       THEN End(r) /\ UNCHANGED <<user, served>>
       ELSE /\ user' = [user EXCEPT ![i] = Written(@, seen[r], d)]
            /\ IF req[r].op = "reset" THEN Goto(r, "drop link") ELSE End(r)
            /\ served' = IF req[r].op = "reset" THEN served \union {req[r].by} ELSE served
    /\ UNCHANGED <<users, forms, form, changes, links, expired, mailed, mixed, crossed>>

-----------------------------------------------------------------------------
(* The forgotten password.                                                 *)

(* findUserByLogin: the first of those with this name or address.          *)
FindLogin(r) ==
    LET found == {i \in users : req[r].by \in {user[i].name, user[i].email}} IN
    /\ pc[r] = "find login"
    /\ \E i \in IF found = {} THEN {Nothing} ELSE found :
          Go(r, "delete links", [req[r] EXCEPT !.of = i], seen[r])
    /\ UNCHANGED <<collections, history>>

(* The earlier links of the user, and all that have expired.               *)
Superseded_OnlyExpired(i) == {l \in links : l.id \in expired}   \* bug: the user's own stay
Superseded(i) == {l \in links : l.id \in expired \/ l.user = i}

DeleteLinks(r) ==
    LET i == req[r].of
        Overlaps == \E q \in Requests \ {r} : pc[q] = "save link" /\ req[q].of = i IN
    /\ pc[r] = "delete links"
    /\ links' = links \ Superseded(i)
    /\ IF i = Nothing THEN End(r) ELSE Goto(r, "save link")
    /\ crossed' = IF Overlaps THEN crossed \union {i} ELSE crossed
    /\ UNCHANGED <<users, user, forms, form, changes, expired, mailed, mixed, served>>

SaveLink(r) ==
    /\ pc[r] = "save link"
    /\ links' = links \union {[id |-> r, user |-> req[r].of]}
    /\ End(r)
    /\ UNCHANGED <<users, user, forms, form, changes, expired, history>>

(* approve of PasswordResetService.                                        *)
FindLink_AndDelete(r) ==      \* bug: a link is deleted when it is found
    /\ pc[r] = "find link"
    /\ \/ \E l \in links :
             /\ l.id = req[r].by /\ l.id \notin expired
             /\ links' = links \ {l}
             /\ Go(r, "load", [req[r] EXCEPT !.of = l.user], seen[r])
       \/ /\ \A l \in links : l.id = req[r].by => l.id \in expired
          /\ End(r) /\ UNCHANGED links
    /\ UNCHANGED <<users, user, forms, form, changes, expired, history>>
FindLink(r) ==
    /\ pc[r] = "find link"
    /\ \/ \E l \in links :
             /\ l.id = req[r].by /\ l.id \notin expired
             /\ Go(r, "load", [req[r] EXCEPT !.of = l.user], seen[r])
       \/ /\ \A l \in links : l.id = req[r].by => l.id \in expired
          /\ End(r)
    /\ UNCHANGED <<collections, history>>

DropLink(r) ==
    /\ pc[r] = "drop link"
    /\ links' = {l \in links : l.id # req[r].by}
    /\ End(r)
    /\ UNCHANGED <<users, user, forms, form, changes, expired, history>>

-----------------------------------------------------------------------------
(* A command fails, or the process stops.                                  *)
Die(r) ==
    /\ pc[r] \notin {"uncalled", "done"}
    /\ End(r)
    /\ UNCHANGED <<collections, history>>

(* Times pass, and the three crons remove what they find expired.          *)
Expire ==
    /\ \E i \in (forms \union {c.id : c \in changes} \union {l.id : l \in links}) \ expired :
          expired' = expired \union {i}
    /\ UNCHANGED <<users, user, forms, form, changes, links, pc, req, seen, history>>

Cron ==
    /\ \/ /\ forms' = forms \ expired /\ forms' # forms
          /\ UNCHANGED <<changes, links>>
       \/ /\ changes' = {c \in changes : c.id \notin expired} /\ changes' # changes
          /\ UNCHANGED <<forms, links>>
       \/ /\ links' = {l \in links : l.id \notin expired} /\ links' # links
          /\ UNCHANGED <<forms, changes>>
    /\ UNCHANGED <<users, user, form, expired, pc, req, seen, history>>

Step(r) ==
    \/ Arrive(r) \/ Count(r) \/ CheckUsers(r) \/ Insert(r) \/ Delete(r)
    \/ CheckForms(r) \/ LoadForm(r) \/ SaveForm(r) \/ FindKey(r) \/ DropForm(r)
    \/ CheckOthers(r) \/ SaveChange(r) \/ FindChange(r) \/ LoadUser(r) \/ SaveUser(r)
    \/ FindLogin(r) \/ DeleteLinks(r) \/ SaveLink(r) \/ FindLink(r) \/ DropLink(r)
    \/ Die(r)

Next == (\E r \in Requests : Step(r)) \/ Expire \/ Cron

Spec == Init /\ [][Next]_vars

-----------------------------------------------------------------------------
(* An account made by an activation has the address its key was sent to,   *)
(* and to no other, whatever was typed into that registration before and   *)
(* after: so the key in the mail shows that the address is that of whoever *)
(* activates.  Two requests that fill in one form at the same time are the *)
(* exception: the later save leaves out an address it finds unchanged.     *)
Activates(r) == pc[r] = "insert" /\ req[r].op = "activate" /\ r \in users' \ users
KeyProvesAddress ==
    [][\A r \in Requests : Activates(r) =>
          \/ {m.email : m \in {x \in mailed : x.key = seen[r].key}} = {user'[r].email}
          \/ req[r].of \in mixed]_vars

(* A user has one link to choose a new password: whoever asks for another  *)
(* makes the earlier mails worthless, unless two have asked at once.       *)
OneLinkPerUser ==
    \A l, m \in links : l.user = m.user => l.id = m.id \/ l.user \in crossed

(* Whatever dies or overlaps, a registration goes only when it has become  *)
(* a user or has expired, and a link only when the password was changed    *)
(* with it, when it has expired, or when its user asks for another.        *)
KeepsRequests ==
    /\ \A f \in forms \ forms' : f \in served \union expired
    /\ \A l \in links \ links' :
          \/ l.id \in served \union expired
          \/ \E r \in Requests : pc[r] = "delete links" /\ req[r].of = l.user

(* Operations on different parts of an account do not undo each other: a   *)
(* new password leaves name and address as they are by then, and a new     *)
(* address the password, also when they were loaded before another change. *)
KeepsFields ==
    \A r \in Requests : pc[r] = "save" /\ pc'[r] # "save" =>
        LET i == req[r].of IN
        /\ req[r].op # "edit" => user'[i].name = user[i].name
        /\ req[r].op \in {"password", "reset"} => user'[i].email = user[i].email
        /\ req[r].op = "approve change" => user'[i].password = user[i].password

(* What assertUserInfoValid and editUserFullInformation refuse: 'User with *)
(* that primary mail is exist.', 'email-is-using-already'.                 *)
EmailUnique == \A i, j \in users : user[i].email = user[j].email => i = j

(* No account loses what was asked of it, to a failure or to another       *)
(* operation on it.                                                        *)
NothingLostOrUndone == [][KeepsRequests /\ KeepsFields]_vars
=============================================================================
