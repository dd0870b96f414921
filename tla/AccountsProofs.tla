--------------------------- MODULE AccountsProofs ---------------------------
(***************************************************************************)
(* Theorems about Accounts, for any number of requests, names and          *)
(* addresses.  The inductive invariant says what a request knows at each   *)
(* of its commands (Knows), what two requests at the same command may      *)
(* share (Apart), and what the documents are (Stored).                     *)
(***************************************************************************)
EXTENDS Accounts, TLAPS

(* The addresses to which a key was sent.                                  *)
Addresses(k) == {m.email : m \in {x \in mailed : x.key = k}}

UserOps == {"edit", "approve change", "password", "reset"}
FormOps == {"renew", "register"}

(* What is known of a request at step s, for q, with the document d.       *)
KnowsUser(s, q, d) ==
    /\ s \in {"check others", "save change", "save link"} => q.of \in Ids
    /\ s = "count" => q.op = "start"
    /\ s \in {"find login", "delete links"} => q.op = "forgot"
    /\ s = "check others" => q.op \in {"edit", "ask change"}
    /\ s = "find change" => q.op = "approve change"
    /\ s = "find link" => q.op = "reset"
    /\ s \in {"load", "save"} => q.op \in UserOps
    /\ q.op = "reset" => q.by \in Ids
    /\ s = "save" => d \in User /\ q.of \in Ids
    /\ s = "drop link" => q.by \in served
    /\ s = "save link" => \A l \in links : l.user = q.of => l.user \in crossed

KnowsForm(r, s, q, d) ==
    /\ s = "check forms" => q.op = "register"
    /\ s \in {"check forms", "load form"} => q.op \in FormOps
    /\ q.op \in FormOps /\ s # "save form" => q.of # r
    /\ q.op \in FormOps \union {"activate"} /\ q.of \in Requests \ {r} => pc[q.of] = "done"
    /\ s = "save form" =>
          /\ d \in Form /\ q.op \in FormOps /\ q.of \in Ids
          /\ q.of = r => q.op = "renew" /\ d = NoForm
          /\ q.of # r => \A x \in DOMAIN NoForm : d[x] # Nothing => form[q.of][x] # Nothing
          /\ q.op = "register" /\ q.of \in forms \ mixed => d = form[q.of]

KnowsKey(s, q, d) ==
    /\ s = "find key" => q.op = "activate"
    /\ q.op = "activate" => q.by \in Ids
    /\ s \in {"check", "insert"} /\ q.op = "activate" =>
          /\ d \in Form /\ d.password \in Ids /\ d.key \in Ids /\ q.of \in Ids
          /\ q.of \in mixed \/ Addresses(d.key) = {q.typed.email}
    /\ s = "drop form" => q.of \in served

Knows(r, s, q, d) == KnowsUser(s, q, d) /\ KnowsForm(r, s, q, d) /\ KnowsKey(s, q, d)

(* Whoever shares a registration or a user with another is recorded.       *)
Fills(r, f) == pc[r] = "save form" /\ req[r].op = "register" /\ req[r].of = f
Links(r, i) == pc[r] = "save link" /\ req[r].of = i
Apart ==
    \A r, q \in Requests : r # q =>
        /\ \A f \in Ids : Fills(r, f) /\ Fills(q, f) => f \in mixed
        /\ \A i \in Ids : Links(r, i) /\ Links(q, i) => i \in crossed

Stored ==
    /\ \A i \in Ids : form[i].key # Nothing => \A x \in DOMAIN NoForm : form[i][x] # Nothing
    /\ \A f \in forms \ mixed :
          form[f].key # Nothing => Addresses(form[f].key) = {form[f].email}
    /\ \A f \in forms \intersect Requests : pc[f] = "done"
    /\ \A m \in mailed : m.key \in Requests => pc[m.key] = "done"

IInv ==
    /\ TypeOK
    /\ \A r \in Requests : Knows(r, pc[r], req[r], seen[r])
    /\ Apart
    /\ Stored
    /\ OneLinkPerUser

-----------------------------------------------------------------------------
(* What an action may do to the collections so that what others know stays *)
(* true: all but the save of a registration and of a link are like this.   *)
Mild ==
    /\ users' \subseteq Ids /\ user' \in [Ids -> User]
    /\ forms' \subseteq forms /\ UNCHANGED form
    /\ changes' \subseteq Change /\ links' \subseteq links /\ expired' \subseteq Ids
    /\ UNCHANGED mailed
    /\ mixed \subseteq mixed' /\ mixed' \subseteq Ids
    /\ crossed \subseteq crossed' /\ crossed' \subseteq Ids
    /\ served \subseteq served' /\ served' \subseteq Ids

LEMMA MildKeepsDocuments ==
    ASSUME IInv, Mild, \A p \in Requests : pc[p] = "done" => pc'[p] = "done"
    PROVE  Stored' /\ OneLinkPerUser'
<1>1. \A m \in mailed : m.key \in Ids /\ m.email \in Emails
  BY DEF IInv, TypeOK
<1>2. (\A f \in forms \ mixed :
          form[f].key # Nothing => Addresses(form[f].key) = {form[f].email})'
  BY DEF IInv, Stored, Mild, Addresses
<1>3. Stored'
  <2>1. (\A i \in Ids : form[i].key # Nothing => \A x \in DOMAIN NoForm : form[i][x] # Nothing)'
    BY DEF IInv, Stored, Mild, NoForm
  <2>2. (\A f \in forms \intersect Requests : pc[f] = "done")'
    BY DEF IInv, Stored, Mild
  <2>3. (\A m \in mailed : m.key \in Requests => pc[m.key] = "done")'
    BY DEF IInv, Stored, Mild
  <2>. QED BY <1>2, <2>1, <2>2, <2>3 DEF Stored
<1>4. OneLinkPerUser'
  BY DEF IInv, OneLinkPerUser, Mild
<1>. QED BY <1>3, <1>4

LEMMA MildKeepsKnowledge ==
    ASSUME IInv, Mild, NEW p \in Requests,
           pc'[p] = pc[p], req'[p] = req[p], seen'[p] = seen[p],
           \A x \in Requests : pc[x] = "done" => pc'[x] = "done"
    PROVE  Knows(p, pc[p], req[p], seen[p])'
<1>. Knows(p, pc[p], req[p], seen[p])
  BY DEF IInv
<1>1. KnowsUser(pc[p], req[p], seen[p])'
  BY DEF Knows, KnowsUser, Mild
<1>2. KnowsForm(p, pc[p], req[p], seen[p])'
  BY DEF Knows, KnowsForm, Mild
<1>3. KnowsKey(pc[p], req[p], seen[p])'
  BY DEF Knows, KnowsKey, Mild, Addresses
<1>. QED BY <1>1, <1>2, <1>3 DEF Knows

(* A request r goes on to step s.                                          *)
LEMMA Walk ==
    ASSUME IInv, Mild, NEW r \in Requests, pc[r] # "done",
           NEW s \in Steps, NEW q \in Request, NEW d \in User \union Form,
           Go(r, s, q, d), Knows(r, s, q, d)',
           \A p \in Requests \ {r} : s = "save form" /\ q.op = "register" /\ Fills(p, q.of)
                                        => q.of \in mixed',
           \A p \in Requests \ {r} : s = "save link" /\ Links(p, q.of) => q.of \in crossed'
    PROVE  IInv'
<1>. pc \in [Requests -> Steps] /\ req \in [Requests -> Request] /\ seen \in [Requests -> User \union Form]
  BY DEF IInv, TypeOK
<1>1. /\ pc' \in [Requests -> Steps] /\ pc'[r] = s /\ req' \in [Requests -> Request] /\ req'[r] = q
      /\ seen' \in [Requests -> User \union Form] /\ seen'[r] = d
      /\ \A p \in Requests \ {r} : pc'[p] = pc[p] /\ req'[p] = req[p] /\ seen'[p] = seen[p]
  BY DEF Go
<1>2. \A p \in Requests : pc[p] = "done" => pc'[p] = "done"
  BY <1>1
<1>3. TypeOK'
  BY <1>1 DEF TypeOK, IInv, Mild
<1>4. \A p \in Requests : Knows(p, pc[p], req[p], seen[p])'
  <2>. SUFFICES ASSUME NEW p \in Requests PROVE Knows(p, pc[p], req[p], seen[p])'
    OBVIOUS
  <2>1. CASE p = r
    <3>1. KnowsUser(pc[p], req[p], seen[p])'
      BY <1>1, <2>1 DEF Knows, KnowsUser
    <3>2. KnowsForm(p, pc[p], req[p], seen[p])'
      BY <1>1, <2>1 DEF Knows, KnowsForm
    <3>3. KnowsKey(pc[p], req[p], seen[p])'
      BY <1>1, <2>1 DEF Knows, KnowsKey, Addresses
    <3>. QED BY <3>1, <3>2, <3>3 DEF Knows
  <2>2. CASE p # r
    BY <1>1, <1>2, <2>2, MildKeepsKnowledge
  <2>. QED BY <2>1, <2>2
<1>5. Apart'
  <2>1. ASSUME NEW p \in Requests, NEW o \in Requests, p # o, NEW f \in Ids, Fills(p, f)', Fills(o, f)'
        PROVE  f \in mixed'
    <3>1. CASE p # r /\ o # r
      BY <1>1, <2>1, <3>1 DEF IInv, Apart, Fills, Mild
    <3>2. CASE p = r
      BY <1>1, <2>1, <3>2 DEF Fills
    <3>3. CASE o = r
      BY <1>1, <2>1, <3>3 DEF Fills
    <3>. QED BY <3>1, <3>2, <3>3
  <2>2. ASSUME NEW p \in Requests, NEW o \in Requests, p # o, NEW i \in Ids, Links(p, i)', Links(o, i)'
        PROVE  i \in crossed'
    <3>1. CASE p # r /\ o # r
      BY <1>1, <2>2, <3>1 DEF IInv, Apart, Links, Mild
    <3>2. CASE p = r
      BY <1>1, <2>2, <3>2 DEF Links
    <3>3. CASE o = r
      BY <1>1, <2>2, <3>3 DEF Links
    <3>. QED BY <3>1, <3>2, <3>3
  <2>. QED BY <2>1, <2>2 DEF Apart
<1>. QED BY <1>2, <1>3, <1>4, <1>5, MildKeepsDocuments DEF IInv

(* The end of a request.                                                   *)
LEMMA Ends ==
    ASSUME IInv, Mild, NEW r \in Requests, pc[r] # "done", End(r)
    PROVE  IInv'
<1>1. "done" \in Steps /\ Asking("start") \in Request /\ NoUser \in User
  BY Inputs DEF Steps, Asking, Request, Operations, NoUser, User, Identities, Ids
<1>2. Knows(r, "done", Asking("start"), NoUser)'
  BY DEF Knows, KnowsUser, KnowsForm, KnowsKey, Asking, FormOps
<1>. QED BY <1>1, <1>2, Walk DEF End

LEMMA Still == ASSUME IInv, UNCHANGED <<collections, history>> PROVE Mild
BY DEF IInv, TypeOK, Mild, collections, history

LEMMA Types == ASSUME IInv, NEW r \in Requests
               PROVE  /\ pc[r] \in Steps /\ req[r] \in Request /\ seen[r] \in User \union Form
                      /\ r \in Ids /\ Before \in Ids
                      /\ \A i \in Ids : user[i] \in User /\ form[i] \in Form
                      /\ Knows(r, pc[r], req[r], seen[r])
                      /\ NoUser \in User /\ NoForm \in Form
BY Inputs DEF IInv, TypeOK, Ids, NoUser, NoForm, User, Form, Identities

-----------------------------------------------------------------------------
(* The actions.                                                            *)
LEMMA ArriveStep == ASSUME IInv, NEW r \in Requests, Arrive(r) PROVE IInv'
<1>. DEFINE Ask(s, q) == Go(r, s, q, NoUser)
            About(op, i) == [Asking(op) EXCEPT !.of = i]
            With(op, what) == [Asking(op) EXCEPT !.by = what]
<1>. Mild
  BY Still DEF Arrive
<1>. pc[r] = "uncalled" /\ NoUser \in User /\ UNCHANGED <<collections, history>>
  BY Types DEF Arrive
<1>. First \in Identities /\ Typed \subseteq Identities /\ First.email \in Emails
  BY Inputs DEF Identities
<1>. forms \subseteq Ids /\ users \subseteq Ids /\ changes \subseteq Change /\ links \subseteq Link
  BY DEF IInv, TypeOK
<1>0. ASSUME NEW s \in {"count", "load form", "check", "find key", "check others", "delete", "load",
                        "find change", "find login", "find link"},
             NEW q \in Request, Go(r, s, q, NoUser),
             s = "check others" => q.op \in {"edit", "ask change"} /\ q.of \in Ids,
             s = "find change" => q.op = "approve change",
             s = "find link" => q.op = "reset",
             s = "load" => q.op = "password",
             s = "load form" => q.op \in FormOps,
             s = "check" => q.op \in {"register", "create"},
             s = "find key" <=> q.op = "activate",
             s = "count" => q.op = "start",
             s = "find login" => q.op = "forgot",
             q.op \in {"reset", "activate"} => q.by \in Ids,
             q.op \in FormOps => q.of \in forms \union {Nothing},
             q.op = "activate" => q.of = Nothing
      PROVE  IInv'
  <2>1. s \in Steps
    BY <1>0 DEF Steps
  <2>2. q.op \in FormOps => q.of # r
    <3>1. Nothing # r
      BY Distinct DEF Ids
    <3>. QED BY <1>0, <3>1 DEF IInv, Stored
  <2>3. pc' \in [Requests -> Steps] /\ \A x \in Requests \ {r} : pc'[x] = pc[x]
    BY <1>0, <2>1 DEF Go, IInv, TypeOK
  <2>4. q.op \in FormOps /\ q.of \in Requests \ {r} => pc'[q.of] = "done"
    BY <1>0, <2>3, Distinct DEF IInv, Stored, Ids
  <2>5. KnowsUser(s, q, NoUser)'
    BY <1>0 DEF KnowsUser, UserOps
  <2>6. KnowsForm(r, s, q, NoUser)'
    BY <1>0, <2>2, <2>4, Distinct DEF KnowsForm, FormOps, Ids
  <2>7. KnowsKey(s, q, NoUser)'
    BY <1>0 DEF KnowsKey
  <2>. QED BY <1>0, <2>1, <2>5, <2>6, <2>7, Walk DEF Knows
<1>1. CASE Ask("count", Asking("start"))
  BY <1>0, <1>1 DEF Asking, Request, Operations, FormOps
<1>2. ASSUME NEW f \in forms \union {Nothing}, Ask("load form", About("renew", f)) PROVE IInv'
  BY <1>0, <1>2 DEF Asking, Request, Operations, FormOps
<1>3. ASSUME NEW f \in forms, NEW t \in Typed, Ask("check", [About("register", f) EXCEPT !.typed = t])
      PROVE  IInv'
  BY <1>0, <1>3 DEF Asking, Request, Operations, FormOps
<1>4. ASSUME NEW m \in mailed, Ask("find key", With("activate", m.key)) PROVE IInv'
  <2>. m.key \in Ids
    BY DEF IInv, TypeOK
  <2>. QED BY <1>0, <1>4 DEF Asking, Request, Operations, FormOps
<1>5. ASSUME NEW t \in Typed, Ask("check", [Asking("create") EXCEPT !.typed = t]) PROVE IInv'
  BY <1>0, <1>5 DEF Asking, Request, Operations, FormOps
<1>6. ASSUME NEW i \in users, NEW t \in Typed, NEW b \in BOOLEAN,
             Ask("check others", [About("edit", i) EXCEPT !.typed = t, !.alsoPassword = b])
      PROVE  IInv'
  BY <1>0, <1>6 DEF Asking, Request, Operations, FormOps
<1>7. ASSUME NEW i \in users, Ask("delete", About("delete", i)) PROVE IInv'
  BY <1>0, <1>7 DEF Asking, Request, Operations, FormOps
<1>8. ASSUME NEW i \in users, Ask("load", About("password", i)) PROVE IInv'
  BY <1>0, <1>8 DEF Asking, Request, Operations, FormOps
<1>9. ASSUME NEW i \in users, NEW t \in Typed,
             Ask("check others", [About("ask change", i) EXCEPT !.typed = [First EXCEPT !.email = t.email]])
      PROVE  IInv'
  BY <1>0, <1>9 DEF Asking, Request, Operations, FormOps, Identities
<1>10. ASSUME NEW c \in changes, Ask("find change", [About("approve change", c.user) EXCEPT !.by = c.id])
       PROVE  IInv'
  BY <1>0, <1>10 DEF Asking, Request, Operations, FormOps, Change, Ids
<1>11. ASSUME NEW i \in users, NEW login \in {user[i].name, user[i].email},
              Ask("find login", With("forgot", login))
       PROVE  IInv'
  <2>. login \in Names \union Emails
    BY Types DEF User
  <2>. QED BY <1>0, <1>11 DEF Asking, Request, Operations, FormOps
<1>12. ASSUME NEW l \in links, Ask("find link", With("reset", l.id)) PROVE IInv'
  BY <1>0, <1>12 DEF Asking, Request, Operations, FormOps, Link, Ids
<1>. QED BY <1>1, <1>2, <1>3, <1>4, <1>5, <1>6, <1>7, <1>8, <1>9, <1>10, <1>11, <1>12 DEF Arrive

(* A request that does not end goes on with what it has, or with more.     *)
LEMMA Goes ==
    ASSUME IInv, NEW r \in Requests
    PROVE  \E q \in Request, d \in User \union Form :
              q = req[r] /\ d = seen[r] /\ Knows(r, pc[r], q, d)
BY Types

LEMMA OtherSteps ==
    ASSUME IInv, NEW r \in Requests, NEW s, NEW q, NEW d, Go(r, s, q, d)
    PROVE  \A x \in Requests \ {r} : pc'[x] = pc[x]
BY DEF IInv, TypeOK, Go

LEMMA CountStep == ASSUME IInv, NEW r \in Requests, Count(r) PROVE IInv'
<1>. Mild /\ pc[r] = "count" /\ UNCHANGED <<collections, history>>
  BY Still DEF Count
<1>. PICK q \in Request, d \in User \union Form : q = req[r] /\ d = seen[r] /\ Knows(r, "count", q, d)
  BY Goes
<1>1. CASE End(r)
  BY <1>1, Ends
<1>2. CASE Go(r, "check", q, d)
  <2>1. "check" \in Steps
    BY DEF Steps
  <2>2. KnowsUser("check", q, d)' /\ KnowsForm(r, "check", q, d)' /\ KnowsKey("check", q, d)'
    BY <1>2, OtherSteps DEF Knows, KnowsUser, KnowsForm, KnowsKey, FormOps
  <2>. QED BY <1>2, <2>1, <2>2, Walk DEF Knows
<1>. QED BY <1>1, <1>2 DEF Count, Goto

LEMMA CheckUsersStep == ASSUME IInv, NEW r \in Requests, CheckUsers(r) PROVE IInv'
<1>. Mild /\ pc[r] = "check" /\ UNCHANGED <<collections, history>>
  BY Still DEF CheckUsers
<1>. PICK q \in Request, d \in User \union Form : q = req[r] /\ d = seen[r] /\ Knows(r, "check", q, d)
  BY Goes
<1>1. CASE End(r)
  BY <1>1, Ends
<1>2. CASE Go(r, "check forms", q, d) /\ q.op = "register"
  <2>1. "check forms" \in Steps
    BY DEF Steps
  <2>2. KnowsUser("check forms", q, d)' /\ KnowsForm(r, "check forms", q, d)' /\ KnowsKey("check forms", q, d)'
    BY <1>2, OtherSteps DEF Knows, KnowsUser, KnowsForm, KnowsKey, FormOps
  <2>. QED BY <1>2, <2>1, <2>2, Walk DEF Knows
<1>3. CASE Go(r, "insert", q, d)
  <2>1. "insert" \in Steps
    BY DEF Steps
  <2>2. KnowsUser("insert", q, d)' /\ KnowsForm(r, "insert", q, d)'
    BY <1>3, OtherSteps DEF Knows, KnowsUser, KnowsForm, FormOps
  <2>3. KnowsKey("insert", q, d)'
    BY <1>3 DEF Knows, KnowsKey, Addresses, history
  <2>. QED BY <1>3, <2>1, <2>2, <2>3, Walk DEF Knows
<1>. QED BY <1>1, <1>2, <1>3 DEF CheckUsers, Goto

LEMMA CheckFormsStep == ASSUME IInv, NEW r \in Requests, CheckForms(r) PROVE IInv'
<1>. Mild /\ pc[r] = "check forms" /\ UNCHANGED <<collections, history>>
  BY Still DEF CheckForms
<1>. PICK q \in Request, d \in User \union Form :
        q = req[r] /\ d = seen[r] /\ Knows(r, "check forms", q, d)
  BY Goes
<1>1. CASE End(r)
  BY <1>1, Ends
<1>2. CASE Go(r, "load form", q, d)
  <2>1. "load form" \in Steps
    BY DEF Steps
  <2>2. KnowsUser("load form", q, d)' /\ KnowsForm(r, "load form", q, d)' /\ KnowsKey("load form", q, d)'
    BY <1>2, OtherSteps DEF Knows, KnowsUser, KnowsForm, KnowsKey, FormOps
  <2>. QED BY <1>2, <2>1, <2>2, Walk DEF Knows
<1>. QED BY <1>1, <1>2 DEF CheckForms, Goto

LEMMA CheckOthersStep == ASSUME IInv, NEW r \in Requests, CheckOthers(r) PROVE IInv'
<1>. Mild /\ pc[r] = "check others" /\ UNCHANGED <<collections, history>>
  BY Still DEF CheckOthers
<1>. PICK q \in Request, d \in User \union Form :
        q = req[r] /\ d = seen[r] /\ Knows(r, "check others", q, d)
  BY Goes
<1>1. CASE End(r)
  BY <1>1, Ends
<1>2. ASSUME NEW s \in {"load", "save change"}, Go(r, s, q, d), s = "load" => q.op = "edit"
      PROVE  IInv'
  <2>1. s \in Steps
    BY DEF Steps
  <2>2. KnowsUser(s, q, d)' /\ KnowsForm(r, s, q, d)' /\ KnowsKey(s, q, d)'
    BY <1>2, OtherSteps DEF Knows, KnowsUser, KnowsForm, KnowsKey, FormOps, UserOps
  <2>. QED BY <1>2, <2>1, <2>2, Walk DEF Knows
<1>. QED BY <1>1, <1>2 DEF CheckOthers, Goto

LEMMA FindChangeStep == ASSUME IInv, NEW r \in Requests, FindChange(r) PROVE IInv'
<1>. Mild /\ pc[r] = "find change" /\ UNCHANGED <<collections, history>>
  BY Still DEF FindChange
<1>. PICK q \in Request, d \in User \union Form :
        q = req[r] /\ d = seen[r] /\ Knows(r, "find change", q, d)
  BY Goes
<1>1. CASE End(r)
  BY <1>1, Ends
<1>2. ASSUME NEW c \in changes, Go(r, "load", [q EXCEPT !.typed.email = c.email], NoUser)
      PROVE  IInv'
  <2>0. c.email \in Emails
    BY DEF IInv, TypeOK, Change
  <2>1. "load" \in Steps /\ [q EXCEPT !.typed.email = c.email] \in Request /\ NoUser \in User
    BY <2>0, Types DEF Steps, Request, Identities
  <2>2. PICK p \in Request : p = [q EXCEPT !.typed.email = c.email]
    BY <2>1
  <2>3. p.op = "approve change"
    BY <2>2 DEF Knows, KnowsUser, Request
  <2>4. KnowsUser("load", p, NoUser)' /\ KnowsForm(r, "load", p, NoUser)' /\ KnowsKey("load", p, NoUser)'
    BY <2>3 DEF KnowsUser, KnowsForm, KnowsKey, FormOps, UserOps
  <2>. QED BY <1>2, <2>1, <2>2, <2>4, Walk DEF Knows
<1>. QED BY <1>1, <1>2 DEF FindChange

LEMMA LoadUserStep == ASSUME IInv, NEW r \in Requests, LoadUser(r) PROVE IInv'
<1>. Mild /\ pc[r] = "load" /\ UNCHANGED <<collections, history>>
  BY Still DEF LoadUser
<1>. PICK q \in Request, d \in User \union Form : q = req[r] /\ d = seen[r] /\ Knows(r, "load", q, d)
  BY Goes
<1>1. CASE End(r)
  BY <1>1, Ends
<1>2. CASE q.of \in users /\ Go(r, "save", q, user[q.of])
  <2>1. "save" \in Steps /\ q.of \in Ids
    BY <1>2 DEF Steps, IInv, TypeOK
  <2>2. PICK e \in User : e = user[q.of]
    BY <2>1, Types
  <2>3. KnowsUser("save", q, e)' /\ KnowsForm(r, "save", q, e)' /\ KnowsKey("save", q, e)'
    BY <1>2, <2>1, OtherSteps DEF Knows, KnowsUser, KnowsForm, KnowsKey, FormOps, UserOps
  <2>. QED BY <1>2, <2>1, <2>2, <2>3, Walk DEF Knows
<1>. QED BY <1>1, <1>2 DEF LoadUser

LEMMA FindLinkStep == ASSUME IInv, NEW r \in Requests, FindLink(r) PROVE IInv'
<1>. Mild /\ pc[r] = "find link" /\ UNCHANGED <<collections, history>>
  BY Still DEF FindLink
<1>. PICK q \in Request, d \in User \union Form :
        q = req[r] /\ d = seen[r] /\ Knows(r, "find link", q, d)
  BY Goes
<1>1. CASE End(r)
  BY <1>1, Ends
<1>2. ASSUME NEW l \in links, Go(r, "load", [q EXCEPT !.of = l.user], d) PROVE IInv'
  <2>1. "load" \in Steps /\ l.user \in Ids
    BY DEF Steps, IInv, TypeOK, Link
  <2>2. PICK p \in Request : p = [q EXCEPT !.of = l.user]
    BY <2>1 DEF Request
  <2>3. p.op = "reset" /\ p.by = q.by
    BY <2>2 DEF Knows, KnowsUser, Request
  <2>4. KnowsUser("load", p, d)' /\ KnowsForm(r, "load", p, d)' /\ KnowsKey("load", p, d)'
    BY <2>3 DEF Knows, KnowsUser, KnowsForm, KnowsKey, FormOps, UserOps
  <2>. QED BY <1>2, <2>1, <2>2, <2>4, Walk DEF Knows
<1>. QED BY <1>1, <1>2 DEF FindLink

LEMMA FindLoginStep == ASSUME IInv, NEW r \in Requests, FindLogin(r) PROVE IInv'
<1>. Mild /\ pc[r] = "find login" /\ UNCHANGED <<collections, history>>
  BY Still DEF FindLogin
<1>. PICK q \in Request, d \in User \union Form :
        q = req[r] /\ d = seen[r] /\ Knows(r, "find login", q, d)
  BY Goes
<1>1. PICK i \in users \union {Nothing} : Go(r, "delete links", [q EXCEPT !.of = i], d)
  BY DEF FindLogin
<1>2. "delete links" \in Steps /\ i \in Ids \union {Nothing}
  BY DEF Steps, IInv, TypeOK
<1>3. PICK p \in Request : p = [q EXCEPT !.of = i]
  BY <1>2 DEF Request
<1>4. q.op = "forgot"
  BY DEF Knows, KnowsUser
<1>5. p.op = "forgot"
  BY <1>3, <1>4 DEF Request
<1>6. KnowsUser("delete links", p, d)' /\ KnowsForm(r, "delete links", p, d)' /\ KnowsKey("delete links", p, d)'
  BY <1>5 DEF KnowsUser, KnowsForm, KnowsKey, FormOps
<1>. QED BY <1>1, <1>2, <1>3, <1>6, Walk DEF Knows

LEMMA FindKeyStep == ASSUME IInv, NEW r \in Requests, FindKey(r) PROVE IInv'
<1>. Mild /\ pc[r] = "find key" /\ UNCHANGED <<collections, history>>
  BY Still DEF FindKey
<1>. PICK q \in Request, d \in User \union Form :
        q = req[r] /\ d = seen[r] /\ Knows(r, "find key", q, d)
  BY Goes
<1>1. CASE End(r)
  BY <1>1, Ends
<1>2. ASSUME NEW f \in forms, form[f].key = q.by,
             Go(r, "check", [q EXCEPT !.of = f, !.typed = [name |-> form[f].name,
                                             email |-> form[f].email, lower |-> TRUE]], form[f])
      PROVE  IInv'
  <2>1. f \in Ids /\ q.by \in Ids /\ q.op = "activate"
    BY DEF IInv, TypeOK, Knows, KnowsKey
  <2>2. PICK e \in Form : e = form[f]
    BY <2>1, Types
  <2>3. e.key \in Ids /\ e.key # Nothing
    BY <1>2, <2>1, <2>2, Distinct
  <2>4. e.name # Nothing /\ e.email # Nothing /\ e.password # Nothing
    BY <2>1, <2>2, <2>3 DEF IInv, Stored, NoForm
  <2>5. e.name \in Names /\ e.email \in Emails /\ e.password \in Ids
    BY <2>4 DEF Form
  <2>6. PICK p \in Request : p = [q EXCEPT !.of = f, !.typed = [name |-> e.name,
                                             email |-> e.email, lower |-> TRUE]]
    BY <2>1, <2>5 DEF Request, Identities
  <2>7. p.op = "activate" /\ p.of = f /\ p.by = q.by /\ p.typed.email = e.email
    BY <2>1, <2>6 DEF Request
  <2>8. f \in mixed \/ Addresses(e.key) = {e.email}
    BY <2>2, <2>3 DEF IInv, Stored
  <2>9. f \in mixed' \/ Addresses(e.key)' = {e.email}
    BY <2>8 DEF Addresses, history
  <2>10. KnowsKey("check", p, e)'
    BY <2>1, <2>3, <2>5, <2>7, <2>9 DEF KnowsKey
  <2>11. f \in Requests => pc[f] = "done"
    BY DEF IInv, Stored
  <2>12. KnowsUser("check", p, e)' /\ KnowsForm(r, "check", p, e)'
    BY <1>2, <2>7, <2>11, OtherSteps DEF KnowsUser, KnowsForm, FormOps
  <2>13. "check" \in Steps
    BY DEF Steps
  <2>. QED BY <1>2, <2>2, <2>6, <2>10, <2>12, <2>13, Walk DEF Knows
<1>. QED BY <1>1, <1>2 DEF FindKey

LEMMA DieStep == ASSUME IInv, NEW r \in Requests, Die(r) PROVE IInv'
BY Still, Ends DEF Die

LEMMA InsertStep == ASSUME IInv, NEW r \in Requests, Insert(r) PROVE IInv'
<1>. pc[r] = "insert"
  BY DEF Insert
<1>. PICK q \in Request, d \in User \union Form : q = req[r] /\ d = seen[r] /\ Knows(r, "insert", q, d)
  BY Goes
<1>. DEFINE password == IF q.op = "activate" THEN d.password ELSE r
            new == [name |-> q.typed.name, email |-> q.typed.email, password |-> password]
<1>1. CASE End(r) /\ UNCHANGED <<users, user, served>>
  <2>1. UNCHANGED <<collections, history>>
    BY <1>1 DEF Insert, collections, history
  <2>. QED BY <1>1, <2>1, Still, Ends
<1>2. CASE /\ users' = users \union {r} /\ user' = [user EXCEPT ![r] = new]
           /\ UNCHANGED <<forms, form, changes, links, expired, mailed, mixed, crossed>>
           /\ \/ /\ q.op = "activate" /\ Goto(r, "drop form")
                 /\ served' = served \union {q.of}
              \/ End(r) /\ UNCHANGED served
  <2>1. password \in Ids
    BY DEF Knows, KnowsKey, Ids
  <2>2. new \in User
    BY <2>1 DEF User, Request, Identities
  <2>3. q.op = "activate" => q.of \in Ids
    BY DEF Knows, KnowsKey
  <2>4. Mild
    BY <1>2, <2>2, <2>3, Types DEF Mild, IInv, TypeOK
  <2>5. CASE End(r)
    BY <2>4, <2>5, Ends
  <2>6. CASE q.op = "activate" /\ Go(r, "drop form", q, d) /\ q.of \in served'
    <3>1. "drop form" \in Steps
      BY DEF Steps
    <3>2. KnowsUser("drop form", q, d)' /\ KnowsForm(r, "drop form", q, d)' /\ KnowsKey("drop form", q, d)'
      BY <2>6, OtherSteps DEF Knows, KnowsUser, KnowsForm, KnowsKey, FormOps
    <3>. QED BY <2>4, <2>6, <3>1, <3>2, Walk DEF Knows
  <2>. QED BY <1>2, <2>5, <2>6 DEF Goto
<1>. QED BY <1>1, <1>2 DEF Insert

LEMMA DeleteStep == ASSUME IInv, NEW r \in Requests, Delete(r) PROVE IInv'
<1>1. Mild
  BY DEF Delete, Mild, IInv, TypeOK, history
<1>. QED BY <1>1, Ends DEF Delete

LEMMA DropFormStep == ASSUME IInv, NEW r \in Requests, DropForm(r) PROVE IInv'
<1>1. Mild
  BY DEF DropForm, Mild, IInv, TypeOK, history
<1>. QED BY <1>1, Ends DEF DropForm

LEMMA DropLinkStep == ASSUME IInv, NEW r \in Requests, DropLink(r) PROVE IInv'
<1>1. Mild
  BY DEF DropLink, Mild, IInv, TypeOK, history
<1>. QED BY <1>1, Ends DEF DropLink

LEMMA SaveChangeStep == ASSUME IInv, NEW r \in Requests, SaveChange(r) PROVE IInv'
<1>1. req[r].of \in Ids /\ req[r].typed.email \in Emails
  BY Types DEF SaveChange, Knows, KnowsUser, Request, Identities
<1>2. [id |-> r, user |-> req[r].of, email |-> req[r].typed.email] \in Change
  BY <1>1 DEF Change
<1>3. Mild
  BY <1>2 DEF SaveChange, Mild, IInv, TypeOK, history
<1>. QED BY <1>3, Ends DEF SaveChange

LEMMA WrittenUser == \A a, b, c \in User : Written(a, b, c) \in User
BY DEF Written, User

LEMMA WrittenForm == \A a, b, c \in Form : Written(a, b, c) \in Form
BY DEF Written, Form

LEMMA SaveUserStep == ASSUME IInv, NEW r \in Requests, SaveUser(r) PROVE IInv'
<1>. pc[r] = "save"
  BY DEF SaveUser
<1>. PICK q \in Request, d \in User \union Form : q = req[r] /\ d = seen[r] /\ Knows(r, "save", q, d)
  BY Goes
<1>0. d \in User /\ q.of \in Ids /\ q.op \in UserOps
  BY DEF Knows, KnowsUser
<1>1. CASE End(r) /\ UNCHANGED <<user, served>>
  <2>1. UNCHANGED <<collections, history>>
    BY <1>1 DEF SaveUser, collections, history
  <2>. QED BY <1>1, <2>1, Still, Ends
<1>2. CASE /\ user' = [user EXCEPT ![q.of] = Written(@, seen[r], Changed(r))]
           /\ IF q.op = "reset" THEN Goto(r, "drop link") ELSE End(r)
           /\ served' = IF q.op = "reset" THEN served \union {q.by} ELSE served
  <2>1. Changed(r) \in User
    BY <1>0 DEF Changed, User, Ids, Request, Identities, UserOps
  <2>2. Written(user[q.of], seen[r], Changed(r)) \in User
    BY <1>0, <2>1, WrittenUser, Types
  <2>3. q.op = "reset" => q.by \in Ids
    BY DEF Knows, KnowsUser
  <2>4. Mild
    BY <1>2, <2>2, <2>3 DEF SaveUser, Mild, IInv, TypeOK
  <2>5. CASE End(r)
    BY <2>4, <2>5, Ends
  <2>6. CASE q.op = "reset" /\ Go(r, "drop link", q, d)
    <3>1. "drop link" \in Steps /\ q.by \in served'
      BY <1>2, <2>6 DEF Steps
    <3>2. KnowsUser("drop link", q, d)' /\ KnowsForm(r, "drop link", q, d)' /\ KnowsKey("drop link", q, d)'
      BY <2>6, <3>1, <2>3 DEF Knows, KnowsUser, KnowsForm, KnowsKey, FormOps
    <3>. QED BY <2>4, <2>6, <3>1, <3>2, Walk DEF Knows
  <2>. QED BY <1>2, <2>5, <2>6 DEF Goto
<1>. QED BY <1>1, <1>2 DEF SaveUser

LEMMA LoadFormStep == ASSUME IInv, NEW r \in Requests, LoadForm(r) PROVE IInv'
<1>. pc[r] = "load form" /\ UNCHANGED <<collections, mailed, crossed, served>>
  BY DEF LoadForm
<1>. PICK q \in Request, d \in User \union Form :
        q = req[r] /\ d = seen[r] /\ Knows(r, "load form", q, d)
  BY Goes
<1>. DEFINE Overlaps == \E p \in Requests \ {r} :
                           pc[p] = "save form" /\ req[p].op = "register" /\ req[p].of = q.of
<1>0. q.op \in FormOps /\ q.of # r
  BY DEF Knows, KnowsForm
<1>1. CASE UNCHANGED mixed /\ End(r)
  <2>1. UNCHANGED <<collections, history>>
    BY <1>1 DEF history
  <2>. QED BY <2>1, <1>1, Still, Ends
<1>2. CASE UNCHANGED mixed /\ q.op = "renew" /\ Go(r, "save form", [q EXCEPT !.of = r], NoForm)
  <2>1. "save form" \in Steps /\ NoForm \in Form /\ Mild
    BY <1>2, Types, Still DEF Steps, history
  <2>2. PICK p \in Request : p = [q EXCEPT !.of = r]
    BY Types DEF Request
  <2>3. p.op = "renew" /\ p.of = r
    BY <1>2, <2>2 DEF Request
  <2>4. KnowsUser("save form", p, NoForm)' /\ KnowsKey("save form", p, NoForm)'
    BY <2>3 DEF KnowsUser, KnowsKey
  <2>5. KnowsForm(r, "save form", p, NoForm)'
    BY <2>1, <2>3, Types DEF KnowsForm, FormOps
  <2>. QED BY <1>2, <2>1, <2>2, <2>3, <2>4, <2>5, Walk DEF Knows
<1>3. CASE /\ q.of \in forms /\ Go(r, "save form", q, form[q.of])
           /\ mixed' = IF q.op = "register" /\ Overlaps THEN mixed \union {q.of} ELSE mixed
  <2>1. "save form" \in Steps /\ q.of \in Ids
    BY <1>3 DEF Steps, IInv, TypeOK
  <2>2. PICK e \in Form : e = form[q.of]
    BY <2>1, Types
  <2>3. Mild
    BY <1>3, <2>1 DEF Mild, IInv, TypeOK, collections
  <2>4. KnowsUser("save form", q, e)' /\ KnowsKey("save form", q, e)'
    BY <1>0 DEF Knows, KnowsUser, KnowsKey, FormOps
  <2>5. q.of \in Requests \ {r} => pc'[q.of] = "done"
    BY <1>0, <1>3, OtherSteps DEF Knows, KnowsForm
  <2>6. KnowsForm(r, "save form", q, e)'
    BY <1>0, <2>1, <2>2, <2>5 DEF KnowsForm, collections
  <2>7. \A p \in Requests \ {r} : q.op = "register" /\ Fills(p, q.of) => q.of \in mixed'
    BY <1>3 DEF Fills
  <2>. QED BY <1>3, <2>1, <2>2, <2>3, <2>4, <2>6, <2>7, Walk DEF Knows
<1>. QED BY <1>1, <1>2, <1>3 DEF LoadForm

LEMMA DeleteLinksStep == ASSUME IInv, NEW r \in Requests, DeleteLinks(r) PROVE IInv'
<1>. pc[r] = "delete links"
  BY DEF DeleteLinks
<1>. PICK q \in Request, d \in User \union Form :
        q = req[r] /\ d = seen[r] /\ Knows(r, "delete links", q, d)
  BY Goes
<1>0. \A p \in Requests : Links(p, q.of) => q.of \in Ids
  BY Types DEF Links, Knows, KnowsUser
<1>1. Mild
  BY <1>0 DEF DeleteLinks, Mild, IInv, TypeOK, Links
<1>2. \A p \in Requests \ {r} : Links(p, q.of) => q.of \in crossed'
  BY DEF DeleteLinks, Links
<1>3. CASE End(r)
  BY <1>1, <1>3, Ends
<1>4. CASE q.of # Nothing /\ Go(r, "save link", q, d)
  <2>1. "save link" \in Steps /\ q.of \in Ids
    BY <1>4 DEF Steps, Request
  <2>2. \A l \in links' : l.user # q.of
    BY DEF DeleteLinks, Superseded
  <2>3. q.op \notin FormOps \union {"activate"}
    BY DEF Knows, KnowsUser, FormOps
  <2>4. KnowsUser("save link", q, d)'
    BY <2>1, <2>2 DEF Knows, KnowsUser
  <2>5. KnowsForm(r, "save link", q, d)' /\ KnowsKey("save link", q, d)'
    BY <2>3 DEF KnowsForm, KnowsKey
  <2>. QED BY <1>1, <1>2, <1>4, <2>1, <2>4, <2>5, Walk DEF Knows
<1>. QED BY <1>3, <1>4 DEF DeleteLinks, Goto

(* A new link is the only one its user has, or the user is in `crossed'.   *)
LEMMA SaveLinkStep == ASSUME IInv, NEW r \in Requests, SaveLink(r) PROVE IInv'
<1>. DEFINE i == req[r].of
            new == [id |-> r, user |-> i]
<1>1. /\ pc[r] = "save link" /\ links' = links \union {new} /\ End(r)
      /\ UNCHANGED <<users, user, forms, form, changes, expired, history>>
  BY DEF SaveLink
<1>2. i \in Ids /\ new \in Link
  BY <1>1, Types DEF Knows, KnowsUser, Link
<1>3. \A l \in links : l.user = i => i \in crossed
  BY <1>1, Types DEF Knows, KnowsUser
<1>3a. \A l \in links' : l \in links \/ (l.user = i /\ l.id = r)
  <2>1. links' = links \union {new}
    BY <1>1
  <2>2. new.user = i /\ new.id = r
    OBVIOUS
  <2>. QED BY <2>1, <2>2
<1>4. "done" \in Steps /\ Asking("start") \in Request /\ NoUser \in User
  BY Inputs, Types DEF Steps, Asking, Request, Operations
<1>5. /\ pc' \in [Requests -> Steps] /\ pc'[r] = "done"
      /\ req' \in [Requests -> Request] /\ req'[r] = Asking("start")
      /\ seen' \in [Requests -> User \union Form] /\ seen'[r] = NoUser
      /\ \A p \in Requests \ {r} : pc'[p] = pc[p] /\ req'[p] = req[p] /\ seen'[p] = seen[p]
  BY <1>1, <1>4 DEF IInv, TypeOK, End, Go
<1>6. TypeOK'
  BY <1>1, <1>2, <1>5 DEF IInv, TypeOK, history
<1>7. ASSUME NEW p \in Requests PROVE Knows(p, pc[p], req[p], seen[p])'
  <2>1. CASE p = r
    BY <1>5, <2>1 DEF Knows, KnowsUser, KnowsForm, KnowsKey, Asking, FormOps
  <2>2. CASE p # r
    <3>. Knows(p, pc[p], req[p], seen[p]) /\ pc'[p] = pc[p] /\ req'[p] = req[p] /\ seen'[p] = seen[p]
      BY <1>5, <2>2, Types
    <3>1. pc[p] = "save link" /\ req[p].of = i => i \in crossed
      BY <1>1, <1>2, <2>2 DEF IInv, Apart, Links
    <3>2. KnowsUser(pc[p], req[p], seen[p])'
      <4>1. pc[p] = "save link" => \A l \in links' : l.user = req[p].of => l.user \in crossed
        BY <1>3a, <3>1 DEF Knows, KnowsUser
      <4>. QED BY <1>1, <4>1 DEF Knows, KnowsUser, history
    <3>3. \A x \in Requests : pc[x] = "done" => pc'[x] = "done"
      BY <1>5
    <3>4. KnowsForm(p, pc[p], req[p], seen[p])'
      BY <1>1, <3>3 DEF Knows, KnowsForm, history
    <3>5. KnowsKey(pc[p], req[p], seen[p])'
      BY <1>1 DEF Knows, KnowsKey, Addresses, history
    <3>. QED BY <3>2, <3>4, <3>5 DEF Knows
  <2>. QED BY <2>1, <2>2
<1>8. Apart'
  <2>0. UNCHANGED <<mixed, crossed>>
    BY <1>1 DEF history
  <2>1. ASSUME NEW p \in Requests, NEW o \in Requests, p # o, NEW g \in Ids, Fills(p, g)', Fills(o, g)'
        PROVE  g \in mixed'
    <3>1. p # r /\ o # r
      BY <1>5, <2>1 DEF Fills
    <3>. QED BY <1>5, <2>0, <2>1, <3>1 DEF IInv, Apart, Fills
  <2>2. ASSUME NEW p \in Requests, NEW o \in Requests, p # o, NEW j \in Ids, Links(p, j)', Links(o, j)'
        PROVE  j \in crossed'
    <3>1. p # r /\ o # r
      BY <1>5, <2>2 DEF Links
    <3>. QED BY <1>5, <2>0, <2>2, <3>1 DEF IInv, Apart, Links
  <2>. QED BY <2>1, <2>2 DEF Apart
<1>9. Stored'
  <2>1. (\A f \in forms \ mixed :
            form[f].key # Nothing => Addresses(form[f].key) = {form[f].email})'
    BY <1>1 DEF IInv, Stored, Addresses, history
  <2>2. (/\ \A f \in forms \intersect Requests : pc[f] = "done"
         /\ \A m \in mailed : m.key \in Requests => pc[m.key] = "done")'
    BY <1>1, <1>5 DEF IInv, Stored, history
  <2>. QED BY <1>1, <2>1, <2>2 DEF IInv, Stored, NoForm
<1>10. OneLinkPerUser'
  <2>1. \A l, m \in links' : l.user = m.user => l.id = m.id \/ l.user \in crossed
    <3>. SUFFICES ASSUME NEW l \in links', NEW m \in links', l.user = m.user
                  PROVE  l.id = m.id \/ l.user \in crossed
      OBVIOUS
    <3>. HIDE DEF i, new
    <3>1. CASE l \in links /\ m \in links
      BY <3>1 DEF IInv, OneLinkPerUser
    <3>2. CASE l \in links /\ m.user = i
      BY <1>3, <3>2
    <3>3. CASE m \in links /\ l.user = i
      BY <1>3, <3>3
    <3>. QED BY <1>3a, <3>1, <3>2, <3>3
  <2>. QED BY <1>1, <2>1 DEF OneLinkPerUser, history
<1>. QED BY <1>6, <1>7, <1>8, <1>9, <1>10 DEF IInv

-----------------------------------------------------------------------------
(* The save of a registration f by r, which leaves e, and may mail its key. *)
Saves(r, f, e) ==
    /\ pc[r] = "save form" /\ End(r)
    /\ f \in forms \/ f = r
    /\ forms' = forms \union {f} /\ form' = [form EXCEPT ![f] = e]
    /\ expired' \subseteq Ids
    /\ \/ UNCHANGED mailed
       \/ \E a \in Emails : mailed' = mailed \union {[key |-> r, email |-> a]}
    /\ UNCHANGED <<users, user, changes, links, mixed, crossed, served>>

(* Keys that have been sent are never sent again.                          *)
LEMMA AddressesKept ==
    ASSUME IInv, NEW r \in Requests, NEW f, NEW e, Saves(r, f, e), NEW k \in Ids, NEW a,
           Addresses(k) = {a}
    PROVE  k # r /\ Addresses(k)' = {a}
<1>1. PICK m \in mailed : m.key = k
  BY DEF Addresses
<1>2. k # r
  BY <1>1 DEF Saves, IInv, Stored
<1>3. CASE UNCHANGED mailed
  BY <1>2, <1>3 DEF Addresses
<1>4. ASSUME NEW b \in Emails, mailed' = mailed \union {[key |-> r, email |-> b]}
      PROVE  Addresses(k)' = {a}
  <2>1. \A x \in mailed' : x.key = k => x \in mailed
    BY <1>2, <1>4
  <2>2. {x \in mailed' : x.key = k} = {x \in mailed : x.key = k}
    BY <1>4, <2>1
  <2>. QED BY <2>2 DEF Addresses
<1>. QED BY <1>2, <1>3, <1>4 DEF Saves

LEMMA FormSaved ==
    ASSUME IInv, NEW r \in Requests, NEW f \in Ids, NEW e \in Form, Saves(r, f, e),
           e.key # Nothing => \A x \in DOMAIN NoForm : e[x] # Nothing,
           f # r => \A x \in DOMAIN NoForm : form[f][x] # Nothing => e[x] # Nothing,
           f \notin mixed /\ e.key # Nothing => Addresses(e.key)' = {e.email},
           \A p \in Requests \ {r} : Fills(p, f) => f \in mixed
    PROVE  IInv'
<1>1. /\ pc[r] = "save form" /\ End(r) /\ forms' = forms \union {f}
      /\ form' = [form EXCEPT ![f] = e]
      /\ UNCHANGED <<users, user, changes, links, mixed, crossed, served>>
  BY DEF Saves
<1>2. "done" \in Steps /\ Asking("start") \in Request /\ NoUser \in User
  BY Inputs, Types DEF Steps, Asking, Request, Operations
<1>3. /\ pc' \in [Requests -> Steps] /\ pc'[r] = "done"
      /\ req' \in [Requests -> Request] /\ req'[r] = Asking("start")
      /\ seen' \in [Requests -> User \union Form] /\ seen'[r] = NoUser
      /\ \A p \in Requests \ {r} : pc'[p] = pc[p] /\ req'[p] = req[p] /\ seen'[p] = seen[p]
  BY <1>1, <1>2 DEF IInv, TypeOK, End, Go
<1>4. /\ form' \in [Ids -> Form] /\ form'[f] = e
      /\ \A i \in Ids \ {f} : form'[i] = form[i]
  BY <1>1 DEF IInv, TypeOK
<1>5. /\ mailed' \subseteq [key : Ids, email : Emails]
      /\ \A m \in mailed' : m \in mailed \/ m.key = r
  <2>. mailed \subseteq [key : Ids, email : Emails] /\ r \in Ids
    BY Types DEF IInv, TypeOK
  <2>1. CASE UNCHANGED mailed
    BY <2>1
  <2>2. ASSUME NEW a \in Emails, mailed' = mailed \union {[key |-> r, email |-> a]}
        PROVE  /\ mailed' \subseteq [key : Ids, email : Emails]
               /\ \A m \in mailed' : m \in mailed \/ m.key = r
    BY <2>2
  <2>. QED BY <2>1, <2>2 DEF Saves
<1>6. TypeOK'
  BY <1>1, <1>3, <1>4, <1>5 DEF IInv, TypeOK, Saves
<1>7. \A x \in Requests : pc[x] = "done" => pc'[x] = "done"
  BY <1>3
<1>8. ASSUME NEW p \in Requests PROVE Knows(p, pc[p], req[p], seen[p])'
  <2>1. CASE p = r
    BY <1>3, <2>1 DEF Knows, KnowsUser, KnowsForm, KnowsKey, Asking, FormOps
  <2>2. CASE p # r
    <3>. /\ Knows(p, pc[p], req[p], seen[p])
         /\ pc'[p] = pc[p] /\ req'[p] = req[p] /\ seen'[p] = seen[p]
      BY <1>3, <2>2, Types
    <3>1. KnowsUser(pc[p], req[p], seen[p])'
      BY <1>1 DEF Knows, KnowsUser
    <3>2. KnowsKey(pc[p], req[p], seen[p])'
      <4>1. ASSUME pc[p] \in {"check", "insert"}, req[p].op = "activate"
            PROVE  req[p].of \in mixed \/ Addresses(seen[p].key)' = {req[p].typed.email}
        <5>1. seen[p].key \in Ids
          BY <4>1 DEF Knows, KnowsKey
        <5>2. CASE Addresses(seen[p].key) = {req[p].typed.email}
          <6>1. PICK k \in Ids, a \in {req[p].typed.email} : k = seen[p].key /\ Addresses(k) = {a}
            BY <5>1, <5>2
          <6>2. Addresses(k)' = {a}
            BY <6>1, AddressesKept
          <6>. QED BY <6>1, <6>2 DEF Addresses
        <5>. QED BY <4>1, <5>2 DEF Knows, KnowsKey
      <4>. QED BY <1>1, <4>1 DEF Knows, KnowsKey
    <3>3. req[p].op \in FormOps /\ req[p].of \in Requests \ {p} => req[p].of # r
      BY <1>1 DEF Knows, KnowsForm
    <3>4. ASSUME pc[p] = "save form", req[p].of # p, NEW x \in DOMAIN NoForm, seen[p][x] # Nothing
          PROVE  form'[req[p].of][x] # Nothing
      <4>1. req[p].of \in Ids /\ req[p].op \in FormOps /\ form[req[p].of][x] # Nothing
        BY <3>4 DEF Knows, KnowsForm
      <4>2. CASE req[p].of = f
        BY <1>4, <2>2, <3>3, <3>4, <4>1, <4>2
      <4>3. CASE req[p].of # f
        BY <1>4, <4>1, <4>3
      <4>. QED BY <4>2, <4>3
    <3>5. ASSUME pc[p] = "save form", req[p].op = "register", req[p].of \in forms' \ mixed
          PROVE  seen[p] = form'[req[p].of]
      <4>1. req[p].of # f
        BY <2>2, <3>5 DEF Fills
      <4>2. req[p].of \in forms \ mixed /\ req[p].of \in Ids
        BY <1>1, <3>5, <4>1 DEF IInv, TypeOK
      <4>. QED BY <1>4, <3>5, <4>1, <4>2 DEF Knows, KnowsForm
    <3>6. KnowsForm(p, pc[p], req[p], seen[p])'
      BY <1>1, <1>7, <3>4, <3>5 DEF Knows, KnowsForm
    <3>. QED BY <3>1, <3>2, <3>6 DEF Knows
  <2>. QED BY <2>1, <2>2
<1>9. Apart'
  <2>1. ASSUME NEW p \in Requests, NEW o \in Requests, p # o, NEW g \in Ids, Fills(p, g)', Fills(o, g)'
        PROVE  g \in mixed'
    BY <1>1, <1>3, <2>1 DEF IInv, Apart, Fills
  <2>2. ASSUME NEW p \in Requests, NEW o \in Requests, p # o, NEW i \in Ids, Links(p, i)', Links(o, i)'
        PROVE  i \in crossed'
    BY <1>1, <1>3, <2>2 DEF IInv, Apart, Links
  <2>. QED BY <2>1, <2>2 DEF Apart
<1>10. Stored'
  <2>1. (\A i \in Ids : form[i].key # Nothing => \A x \in DOMAIN NoForm : form[i][x] # Nothing)'
    BY <1>4 DEF IInv, Stored, NoForm
  <2>2. ASSUME NEW g \in (forms \ mixed)', form'[g].key # Nothing
        PROVE  (Addresses(form[g].key) = {form[g].email})'
    <3>1. CASE g = f
      BY <1>1, <1>4, <2>2, <3>1
    <3>2. CASE g # f
      <4>1. g \in forms \ mixed /\ g \in Ids /\ form'[g] = form[g] /\ form[g].key \in Ids
        BY <1>1, <1>4, <2>2, <3>2, Types DEF IInv, TypeOK, Form
      <4>2. PICK k \in Ids, a \in {form[g].email} : k = form[g].key /\ Addresses(k) = {a}
        BY <2>2, <4>1 DEF IInv, Stored
      <4>3. Addresses(k)' = {a}
        BY <4>2, AddressesKept
      <4>. QED BY <4>1, <4>2, <4>3 DEF Addresses
    <3>. QED BY <3>1, <3>2
  <2>3. (\A g \in forms \intersect Requests : pc[g] = "done")'
    <3>1. f \in forms \/ f = r
      BY DEF Saves
    <3>. QED BY <1>1, <1>3, <3>1 DEF IInv, Stored
  <2>4. (\A m \in mailed : m.key \in Requests => pc[m.key] = "done")'
    BY <1>3, <1>5 DEF IInv, Stored
  <2>. QED BY <2>1, <2>2, <2>3, <2>4 DEF Stored
<1>11. OneLinkPerUser'
  BY <1>1 DEF IInv, OneLinkPerUser
<1>. QED BY <1>6, <1>8, <1>9, <1>10, <1>11 DEF IInv

LEMMA SaveFormStep == ASSUME IInv, NEW r \in Requests, SaveForm(r) PROVE IInv'
<1>. pc[r] = "save form" /\ End(r) /\ UNCHANGED <<users, user, changes, links, mixed, crossed, served>>
  BY DEF SaveForm
<1>. PICK q \in Request, d \in User \union Form :
        q = req[r] /\ d = seen[r] /\ Knows(r, "save form", q, d)
  BY Goes
<1>. DEFINE f == q.of
<1>0. d \in Form /\ q.op \in FormOps /\ f \in Ids /\ form[f] \in Form /\ q.typed \in Identities
  BY Types DEF Knows, KnowsForm, Request
<1>1. CASE UNCHANGED <<forms, form, expired, mailed>>
  <2>1. UNCHANGED <<collections, history>>
    BY <1>1 DEF collections, history
  <2>. QED BY <2>1, Still, Ends
<1>2. CASE q.op = "renew" /\ f = r
  <2>1. d = NoForm
    BY <1>2 DEF Knows, KnowsForm
  <2>2. Saves(r, f, NoForm)
    BY <1>2, <2>1 DEF SaveForm, Saves, IInv, TypeOK
  <2>3. NoForm.key = Nothing
    BY DEF NoForm
  <2>4. \A p \in Requests \ {r} : ~Fills(p, r)
    BY Types DEF Knows, KnowsForm, FormOps, Fills
  <2>. QED BY <1>0, <1>2, <2>2, <2>3, <2>4, Types, FormSaved
<1>3. CASE q.op = "renew" /\ f \in forms /\ f # r
  <2>1. Written(form[f], d, d) = form[f]
    BY <1>0 DEF Written, Form
  <2>2. form' = form /\ forms' = forms /\ expired' \subseteq Ids /\ mailed' = mailed
    <3>1. q.op # "register"
      BY <1>3
    <3>2. /\ forms' = forms \union {f} /\ form' = [form EXCEPT ![f] = Written(form[f], d, d)]
          /\ expired' = expired \ {f} /\ mailed' = mailed
      BY <1>3, <3>1 DEF SaveForm
    <3>. QED BY <1>0, <1>3, <2>1, <3>2 DEF IInv, TypeOK
  <2>3. Mild
    BY <2>2 DEF Mild, IInv, TypeOK
  <2>. QED BY <2>3, Ends
<1>4. CASE q.op = "register" /\ f \in forms
  <2>1. PICK n \in Form : /\ n = Filled(r) /\ n.key = r
                          /\ n.email \in Emails /\ \A x \in DOMAIN NoForm : n[x] # Nothing
    <3>1. r \in Ids
      BY Types
    <3>2. PICK a \in Names, b \in Emails : a = q.typed.name /\ b = q.typed.email
      BY <1>0 DEF Identities
    <3>3. PICK n : n = [name |-> a, email |-> b, password |-> r, key |-> r]
      OBVIOUS
    <3>4. n.name = a /\ n.email = b /\ n.password = r /\ n.key = r
      BY <3>3
    <3>5. n \in Form
      BY <3>1, <3>3 DEF Form
    <3>6. \A x \in DOMAIN NoForm : n[x] # Nothing
      BY <3>1, <3>4, Distinct DEF NoForm
    <3>7. n = Filled(r)
      BY <3>2, <3>3 DEF Filled
    <3>. HIDE DEF f
    <3>. QED BY <3>4, <3>5, <3>6, <3>7
  <2>2. f # r
    BY <1>4 DEF Knows, KnowsForm
  <2>3. PICK e \in Form : e = Written(form[f], d, n)
    BY <1>0, WrittenForm
  <2>4. \A x \in DOMAIN NoForm : e[x] = IF n[x] # d[x] THEN n[x] ELSE form[f][x]
    BY <1>0, <2>3 DEF Written, Form, NoForm
  <2>5. \A x \in DOMAIN NoForm : d[x] # Nothing => form[f][x] # Nothing
    BY <2>2 DEF Knows, KnowsForm
  <2>6. \A x \in DOMAIN NoForm : e[x] # Nothing
    BY <2>1, <2>4, <2>5
  <2>7. /\ forms' = forms \union {f} /\ form' = [form EXCEPT ![f] = e]
        /\ expired' = expired \ {f} /\ mailed' = mailed \union {[key |-> r, email |-> n.email]}
    BY <1>4, <2>1, <2>2, <2>3 DEF SaveForm
  <2>8. Saves(r, f, e)
    BY <1>4, <2>1, <2>7 DEF Saves, IInv, TypeOK
  <2>9. f \notin mixed => e.key = r /\ e.email = n.email
    <3>1. f \notin mixed => d = form[f]
      BY <1>4 DEF Knows, KnowsForm
    <3>. QED BY <2>1, <2>4, <3>1 DEF NoForm
  <2>10. \A m \in mailed : m.key # r
    BY DEF IInv, Stored
  <2>11. Addresses(r)' = {n.email}
    <3>1. PICK m : m = [key |-> r, email |-> n.email]
      OBVIOUS
    <3>2. m.key = r /\ m.email = n.email
      BY <3>1
    <3>3. {x \in mailed' : x.key = r} = {m}
      BY <2>7, <2>10, <3>1, <3>2
    <3>. QED BY <3>2, <3>3 DEF Addresses
  <2>12. \A p \in Requests \ {r} : Fills(p, f) => f \in mixed
    BY <1>0, <1>4 DEF IInv, Apart, Fills
  <2>13. f \notin mixed => Addresses(e.key)' = {e.email}
    BY <2>9, <2>11
  <2>. QED BY <1>0, <2>2, <2>3, <2>6, <2>8, <2>12, <2>13, FormSaved
<1>. QED BY <1>0, <1>1, <1>2, <1>3, <1>4 DEF SaveForm, FormOps, Knows, KnowsForm

-----------------------------------------------------------------------------
(* Time and the crons.                                                     *)
LEMMA MildWithoutRequests ==
    ASSUME IInv, Mild, UNCHANGED <<pc, req, seen, mixed, crossed>>
    PROVE  IInv'
<1>1. TypeOK'
  BY DEF IInv, TypeOK, Mild
<1>2. \A p \in Requests : Knows(p, pc[p], req[p], seen[p])'
  BY MildKeepsKnowledge
<1>3. Apart'
  BY DEF IInv, Apart, Fills, Links
<1>. QED BY <1>1, <1>2, <1>3, MildKeepsDocuments DEF IInv

LEMMA ExpireStep == ASSUME IInv, Expire PROVE IInv'
<1>1. Mild
  BY DEF Expire, Mild, IInv, TypeOK, history, Change, Link, Ids
<1>. QED BY <1>1, MildWithoutRequests DEF Expire, history

LEMMA CronStep == ASSUME IInv, Cron PROVE IInv'
<1>1. Mild
  BY DEF Cron, Mild, IInv, TypeOK, history
<1>. QED BY <1>1, MildWithoutRequests DEF Cron, history

LEMMA Initially == Init => IInv
<1>. SUFFICES ASSUME Init PROVE IInv
  OBVIOUS
<1>. PICK d \in {NoForm} \union {FilledForm(t) : t \in Typed} :
        /\ form = [i \in Ids |-> IF i = Before THEN d ELSE NoForm]
        /\ d # NoForm => forms = {Before}
  BY DEF Init
<1>. Before \in Ids /\ Nothing \notin Ids \union Names \union Emails /\ Before \notin Requests
  BY Distinct DEF Ids
<1>. First \in Identities /\ First.name \in Names /\ First.email \in Emails /\ Typed \subseteq Identities
  BY Inputs DEF Identities
<1>1. NoUser \in User /\ NoForm \in Form /\ Asking("start") \in Request
  BY DEF NoUser, User, NoForm, Form, Asking, Request, Operations
<1>2. /\ d \in Form
      /\ d # NoForm => /\ d.key = Before /\ d.email \in Emails
                       /\ \A x \in DOMAIN NoForm : d[x] # Nothing
  <2>1. ASSUME NEW t \in Typed
        PROVE  /\ FilledForm(t) \in Form /\ FilledForm(t).key = Before /\ FilledForm(t).email \in Emails
               /\ \A x \in DOMAIN NoForm : FilledForm(t)[x] # Nothing
    <3>1. t.name \in Names /\ t.email \in Emails
      BY DEF Identities
    <3>. QED BY <3>1 DEF FilledForm, Form, NoForm
  <2>. QED BY <1>1, <2>1
<1>3. /\ mailed = {[key |-> form[f].key, email |-> form[f].email] : f \in {i \in Ids : form[i] # NoForm}}
      /\ \A i \in Ids : form[i] = IF i = Before THEN d ELSE NoForm
      /\ forms \subseteq {Before} /\ users \subseteq {Before}
  BY DEF Init
<1>4. d # NoForm => mailed = {[key |-> Before, email |-> d.email]}
  BY <1>2, <1>3
<1>5. d = NoForm => mailed = {}
  BY <1>3
<1>6. TypeOK
  <2>1. mailed \subseteq [key : Ids, email : Emails]
    BY <1>2, <1>4, <1>5
  <2>2. "uncalled" \in Steps
    BY DEF Steps
  <2>3. forms \subseteq Ids /\ users \subseteq Ids /\ form \in [Ids -> Form]
    BY <1>1, <1>2, <1>3
  <2>. QED BY <1>1, <2>1, <2>2, <2>3 DEF Init, TypeOK
<1>7. ASSUME NEW r \in Requests PROVE Knows(r, pc[r], req[r], seen[r])
  <2>1. pc[r] = "uncalled" /\ req[r] = Asking("start")
    BY DEF Init
  <2>. QED BY <2>1 DEF Knows, KnowsUser, KnowsForm, KnowsKey, Asking, FormOps
<1>8. Apart
  BY DEF Init, Apart, Fills, Links
<1>9. Stored
  <2>1. NoForm.key = Nothing
    BY DEF NoForm
  <2>2. \A i \in Ids : form[i].key # Nothing => \A x \in DOMAIN NoForm : form[i][x] # Nothing
    BY <1>2, <1>3, <2>1
  <2>3. \A f \in forms \ mixed : form[f].key # Nothing => Addresses(form[f].key) = {form[f].email}
    <3>1. CASE d = NoForm
      BY <1>3, <2>1, <3>1
    <3>2. CASE d # NoForm
      <4>1. Addresses(Before) = {d.email}
        <5>1. PICK m : m = [key |-> Before, email |-> d.email]
          OBVIOUS
        <5>2. m.key = Before /\ m.email = d.email /\ mailed = {m}
          BY <1>4, <3>2, <5>1
        <5>3. {x \in mailed : x.key = Before} = {m}
          BY <5>2
        <5>. QED BY <5>2, <5>3 DEF Addresses
      <4>. QED BY <1>2, <1>3, <3>2, <4>1
    <3>. QED BY <3>1, <3>2
  <2>4. forms \intersect Requests = {} /\ \A m \in mailed : m.key \notin Requests
    <3>1. forms \intersect Requests = {}
      BY <1>3
    <3>2. CASE d = NoForm
      BY <1>5, <3>1, <3>2
    <3>3. CASE d # NoForm
      <4>1. [key |-> Before, email |-> d.email].key = Before
        OBVIOUS
      <4>. QED BY <1>4, <3>1, <3>3, <4>1
    <3>. QED BY <3>2, <3>3
  <2>. QED BY <2>2, <2>3, <2>4 DEF Stored
<1>10. OneLinkPerUser
  BY DEF Init, OneLinkPerUser
<1>. QED BY <1>6, <1>7, <1>8, <1>9, <1>10 DEF IInv

LEMMA Stutter == ASSUME IInv, UNCHANGED vars PROVE IInv'
<1>1. Mild
  BY Still DEF vars
<1>. QED BY <1>1, MildWithoutRequests DEF vars, history

(* The invariant the theorems below rest on.                               *)
THEOREM Inductive == Spec => []IInv
<1>1. ASSUME IInv, [Next]_vars PROVE IInv'
  <2>1. ASSUME NEW r \in Requests, Step(r) PROVE IInv'
    BY <1>1, <2>1, ArriveStep, CountStep, CheckUsersStep, InsertStep, DeleteStep, CheckFormsStep,
       LoadFormStep, SaveFormStep, FindKeyStep, DropFormStep, CheckOthersStep, SaveChangeStep,
       FindChangeStep, LoadUserStep, SaveUserStep, FindLoginStep, DeleteLinksStep, SaveLinkStep,
       FindLinkStep, DropLinkStep, DieStep DEF Step
  <2>. QED BY <1>1, <2>1, ExpireStep, CronStep, Stutter DEF Next
<1>. QED BY <1>1, Initially, PTL DEF Spec

-----------------------------------------------------------------------------
(* The documents, the requests and what they have loaded keep their shape: *)
(* no link is ever saved for a login nobody has.                           *)
THEOREM TypeCorrect == Spec => []TypeOK
<1>1. IInv => TypeOK
  BY DEF IInv
<1>. QED BY <1>1, Inductive, PTL

(* A user has one link to choose a new password, unless it was asked for   *)
(* twice at the same time (PasswordResetService.insertNewRequest).         *)
THEOREM OneLink == Spec => []OneLinkPerUser
<1>1. IInv => OneLinkPerUser
  BY DEF IInv
<1>. QED BY <1>1, Inductive, PTL

(* A key activates only the address it was sent to (enableUser), unless    *)
(* two requests filled in that registration at the same time.              *)
THEOREM KeysProveAddresses == Spec => KeyProvesAddress
<1>. DEFINE Proved ==
        \A r \in Requests : Activates(r) =>
           \/ {m.email : m \in {x \in mailed : x.key = seen[r].key}} = {user'[r].email}
           \/ req[r].of \in mixed
<1>1. ASSUME IInv, [Next]_vars PROVE Proved
  <2>1. SUFFICES ASSUME NEW r \in Requests, Activates(r), req[r].of \notin mixed
                 PROVE  Addresses(seen[r].key) = {user'[r].email}
    BY DEF Addresses
  <2>. pc[r] = "insert" /\ req[r].op = "activate" /\ r \in users' /\ r \notin users
    BY <2>1 DEF Activates
  <2>2. Addresses(seen[r].key) = {req[r].typed.email}
    BY <1>1, <2>1, Types DEF Knows, KnowsKey
  <2>3. Insert(r)
    <3>1. ASSUME NEW q \in Requests, Step(q), ~Insert(q) PROVE users' \subseteq users
      BY <3>1 DEF Step, Arrive, Count, CheckUsers, Delete, CheckForms, LoadForm, SaveForm,
         FindKey, DropForm, CheckOthers, SaveChange, FindChange, LoadUser, SaveUser, FindLogin,
         DeleteLinks, SaveLink, FindLink, DropLink, Die, collections
    <3>2. ASSUME NEW q \in Requests, Insert(q) PROVE users' \subseteq users \union {q}
      BY <3>2 DEF Insert
    <3>3. Expire \/ Cron \/ UNCHANGED vars => users' \subseteq users
      BY DEF Expire, Cron, vars, collections
    <3>. QED BY <1>1, <3>1, <3>2, <3>3 DEF Next
  <2>4. user'[r].email = req[r].typed.email
    <3>1. user' = [user EXCEPT ![r] = [name |-> req[r].typed.name, email |-> req[r].typed.email,
                                       password |-> seen[r].password]]
      BY <2>3 DEF Insert
    <3>2. user \in [Ids -> User] /\ r \in Ids
      BY <1>1 DEF IInv, TypeOK, Ids
    <3>. QED BY <3>1, <3>2
  <2>. QED BY <2>2, <2>4
<1>. QED BY <1>1, Inductive, PTL DEF Spec, KeyProvesAddress

(* What every step but those that remove a registration or a link leaves.  *)
LEMMA Remains ==
    ASSUME NEW r \in Requests, Step(r)
    PROVE  /\ forms \subseteq forms' \/ DropForm(r)
           /\ links \subseteq links' \/ DeleteLinks(r) \/ DropLink(r)
BY DEF Step, Arrive, Count, CheckUsers, Insert, Delete, CheckForms, LoadForm, SaveForm, FindKey,
       DropForm, CheckOthers, SaveChange, FindChange, LoadUser, SaveUser, FindLogin, DeleteLinks,
       SaveLink, FindLink, DropLink, Die, collections

(* A registration goes when it has become a user or has expired, a link    *)
(* when it was used, has expired or is replaced (the deletions of          *)
(* enableUser, approve and insertNewRequest, and the crons).               *)
LEMMA NothingIsLost == ASSUME IInv, [Next]_vars PROVE KeepsRequests
<1>. DEFINE Kept ==
        /\ \A f \in forms \ forms' : f \in served \union expired
        /\ \A l \in links \ links' :
              \/ l.id \in served \union expired
              \/ \E r \in Requests : pc[r] = "delete links" /\ req[r].of = l.user
<1>1. Kept
  <2>1. CASE \E r \in Requests : Step(r)
    <3>. PICK r \in Requests : Step(r)
      BY <2>1
    <3>. Knows(r, pc[r], req[r], seen[r])
      BY Types
    <3>1. \A f \in forms \ forms' : f \in served \union expired
      <4>1. CASE DropForm(r)
        BY <4>1 DEF DropForm, Knows, KnowsKey
      <4>. QED BY <4>1, Remains
    <3>2. ASSUME NEW l \in links, l \notin links'
          PROVE  \/ l.id \in served \union expired
                 \/ pc[r] = "delete links" /\ req[r].of = l.user
      <4>1. CASE DropLink(r)
        BY <3>2, <4>1 DEF DropLink, Knows, KnowsUser
      <4>2. CASE DeleteLinks(r)
        BY <3>2, <4>2 DEF DeleteLinks, Superseded
      <4>. QED BY <3>2, <4>1, <4>2, Remains
    <3>. QED BY <3>1, <3>2
  <2>2. CASE Expire \/ UNCHANGED vars
    BY <2>2 DEF Expire, vars, collections
  <2>3. CASE Cron
    BY <2>3 DEF Cron
  <2>. QED BY <2>1, <2>2, <2>3 DEF Next
<1>. QED BY <1>1 DEF KeepsRequests

(* Only the save of a user changes what is stored of a user that exists,   *)
(* or of any other while some request is about to save.                    *)
LEMMA Untouched ==
    ASSUME NEW r \in Requests, Step(r), pc[r] = "save", ~SaveUser(r)
    PROVE  UNCHANGED user
BY DEF Step, Arrive, Count, CheckUsers, Insert, Delete, CheckForms, LoadForm, SaveForm, FindKey,
       DropForm, CheckOthers, SaveChange, FindChange, LoadUser, FindLogin, DeleteLinks,
       SaveLink, FindLink, DropLink, Die, collections

LEMMA OthersWait ==
    ASSUME IInv, NEW r \in Requests, NEW q \in Requests, q # r, Step(q)
    PROVE  pc'[r] = pc[r]
BY DEF IInv, TypeOK, Step, Arrive, Count, CheckUsers, Insert, Delete, CheckForms, LoadForm,
       SaveForm, FindKey, DropForm, CheckOthers, SaveChange, FindChange, LoadUser, SaveUser,
       FindLogin, DeleteLinks, SaveLink, FindLink, DropLink, Die, End, Goto, Go

(* A save writes the fields its operation is about, and no other one that  *)
(* was loaded (UserMapper and Document.save).                              *)
LEMMA WrittenFields ==
    ASSUME IInv, NEW r \in Requests, SaveUser(r)
    PROVE  LET i == req[r].of IN
           /\ req[r].op # "edit" => user'[i].name = user[i].name
           /\ req[r].op \in {"password", "reset"} => user'[i].email = user[i].email
           /\ req[r].op = "approve change" => user'[i].password = user[i].password
<1>. PICK q \in Request, d \in User \union Form :
        q = req[r] /\ d = seen[r] /\ Knows(r, "save", q, d)
  BY Types DEF SaveUser
<1>1. d \in User /\ q.of \in Ids /\ q.op \in UserOps /\ user[q.of] \in User
  BY Types DEF Knows, KnowsUser
<1>2. PICK e : e = Changed(r)
  OBVIOUS
<1>3. q.op = "approve change" => e = [d EXCEPT !.email = q.typed.email]
  BY <1>2 DEF Changed
<1>4. q.op \in {"password", "reset"} => e = [d EXCEPT !.password = r]
  BY <1>2 DEF Changed
<1>5. UNCHANGED user \/ user'[q.of] = Written(user[q.of], d, e)
  BY <1>1, <1>2 DEF SaveUser, IInv, TypeOK
<1>6. /\ q.op # "edit" => e.name = d.name
      /\ q.op \in {"password", "reset"} => e.email = d.email
      /\ q.op = "approve change" => e.password = d.password
  BY <1>1, <1>3, <1>4 DEF User, UserOps
<1>. HIDE <1>2
<1>. QED BY <1>1, <1>5, <1>6 DEF Written, User

(* Operations on different parts of an account do not undo each other.     *)
LEMMA FieldsStayFresh == ASSUME IInv, [Next]_vars PROVE KeepsFields
<1>. DEFINE Fresh ==
        \A r \in Requests : pc[r] = "save" /\ pc'[r] # "save" =>
          LET i == req[r].of IN
          /\ req[r].op # "edit" => user'[i].name = user[i].name
          /\ req[r].op \in {"password", "reset"} => user'[i].email = user[i].email
          /\ req[r].op = "approve change" => user'[i].password = user[i].password
<1>1. Fresh
  <2>. SUFFICES ASSUME NEW r \in Requests, pc[r] = "save", pc'[r] # "save"
                PROVE  LET i == req[r].of IN
                       /\ req[r].op # "edit" => user'[i].name = user[i].name
                       /\ req[r].op \in {"password", "reset"} => user'[i].email = user[i].email
                       /\ req[r].op = "approve change" => user'[i].password = user[i].password
    OBVIOUS
  <2>1. UNCHANGED user \/ SaveUser(r)
    <3>1. Expire \/ Cron \/ UNCHANGED vars => UNCHANGED user
      BY DEF Expire, Cron, vars, collections
    <3>. QED BY <3>1, Untouched, OthersWait DEF Next
  <2>. QED BY <2>1, WrittenFields
<1>. QED BY <1>1 DEF KeepsFields

(* Neither a failure nor another operation takes back what was asked of an *)
(* account, for any number of requests and users.                          *)
THEOREM LostOrUndone == Spec => NothingLostOrUndone
BY NothingIsLost, FieldsStayFresh, Inductive, PTL DEF Spec, NothingLostOrUndone
=============================================================================
