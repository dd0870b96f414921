----------------------------- MODULE UserRights -----------------------------
(* What decides whether and as what a user is let in: the roles of a user,  *)
(* whether the account is active and not suspended, and what other services *)
(* are told of it (UserService, with the controllers of administrators and  *)
(* of the bus).  One user; names, addresses and passwords are in Accounts.  *)
(* The service runs as several processes, each with a cache of its own.     *)
(*                                                                          *)
(* A request loads the document, changes it and saves what differs from     *)
(* what it loaded: a role is pushed on whatever is there by then; roles set *)
(* as a whole are refused if the array has changed meanwhile.               *)
EXTENDS Naturals

CONSTANTS
    Calls,        \* the requests
    Processes,    \* of the service, UBS_MAIN_PROCESS_COUNT of them
    Roles,
    FirstUsers,   \* the documents to begin with
    Missing,      \* no document; the answer null
    Absent        \* not in the cache

VARIABLES
    doc,          \* the user: how often each role is listed, whether active, whether
                  \* suspended, and the version of the arrays
    cached,       \* the answer of 'user-by-id' in the cache of each process, or Absent
    pc, kind,     \* of each request: its next step, and what it wants
    found,        \* what it has read
    excused       \* processes whose cached answer was read before a removal that has
                  \* ended there since, or that was another's

rightsVars == <<doc, cached, pc, kind, found, excused>>

Once(roles) == [r \in Roles |-> IF r \in roles THEN 1 ELSE 0]
Held(u) == {r \in Roles : u.roles[r] > 0}

Wants ==
    {[op |-> "insert", roles |-> {r}] : r \in Roles}
    \union {[op |-> "edit", roles |-> rs, active |-> a, suspended |-> s] :
               rs \in SUBSET Roles, a \in BOOLEAN, s \in BOOLEAN}
    \union {[op |-> o, at |-> p] : o \in {"delete", "ask"}, p \in Processes}
    \union {[op |-> "general"]}

RightsInit ==
    /\ doc \in FirstUsers
    /\ cached = [p \in Processes |-> Absent]
    /\ pc = [c \in Calls |-> "idle"] /\ kind \in [Calls -> Wants]
    /\ found = [c \in Calls |-> Missing]
    /\ excused = {}

Goto(c, step) == pc' = [pc EXCEPT ![c] = step]

-----------------------------------------------------------------------------
(* findUserAuthBackend tells nothing of a user who is not let in.           *)
findUserAuthBackend ==
    IF doc # Missing /\ doc.active /\ ~doc.suspended THEN [roles |-> Held(doc)] ELSE Missing

Reading(p) == {d \in Calls : kind[d] = [op |-> "ask", at |-> p] /\ pc[d] \in {"find", "put"}}

(* A request arrives.  'user-by-id' is answered from the cache, null too,   *)
(* or by the read that is under way, or by one of its own.                  *)
Arrive(c) ==
    /\ pc[c] = "idle"
    /\ IF kind[c].op # "ask" THEN Goto(c, "load")
       ELSE IF cached[kind[c].at] # Absent \/ Reading(kind[c].at) # {}
       THEN Goto(c, "done") ELSE Goto(c, "find")
    /\ UNCHANGED <<doc, cached, kind, found, excused>>

FindForCache(c) ==
    /\ pc[c] = "find"
    /\ found' = [found EXCEPT ![c] = findUserAuthBackend]
    /\ Goto(c, "put")
    /\ UNCHANGED <<doc, cached, kind, excused>>

(* The user is gone, and p has forgotten what it was about to forget.       *)
RemovalEnded(p) == doc = Missing /\ \A c \in Calls : ~(pc[c] = "invalidate" /\ kind[c].at = p)

PutInCache(c) ==
    LET p == kind[c].at IN
    /\ pc[c] = "put"
    /\ cached' = [cached EXCEPT ![p] = found[c]]
    /\ excused' = IF RemovalEnded(p) /\ found[c] # Missing THEN excused \union {p} ELSE excused \ {p}
    /\ Goto(c, "done")
    /\ UNCHANGED <<doc, kind, found>>

(* A second after it was last asked for.                                    *)
Expire(p) ==
    /\ cached[p] # Absent /\ cached' = [cached EXCEPT ![p] = Absent]
    /\ excused' = excused \ {p}
    /\ UNCHANGED <<doc, pc, kind, found>>

-----------------------------------------------------------------------------
(* findById; without a document the request fails, but for the removal.     *)
Load(c) ==
    /\ pc[c] = "load"
    /\ found' = [found EXCEPT ![c] = doc]
    /\ Goto(c, CASE kind[c].op = "delete" -> IF doc = Missing THEN "invalidate" ELSE "delete"
                 [] kind[c].op # "delete" /\ doc = Missing -> "done"
                 [] kind[c].op = "insert" /\ doc # Missing ->
                        IF kind[c].roles \subseteq Held(doc) THEN "done" ELSE "save"
                 [] OTHER -> "save")
    /\ UNCHANGED <<doc, cached, kind, excused>>

(* insertRole: $push, and a new version.                                    *)
insertRole(c) ==
    [doc EXCEPT !.roles = [r \in Roles |-> @[r] + (IF r \in kind[c].roles THEN 1 ELSE 0)],
                !.version = @ + 1]

(* userFullFromUser puts everything typed into the document that was loaded.*)
userFullFromUser_All(c) ==       \* bug: every field is written, also an unchanged one
    [doc EXCEPT !.active = kind[c].active, !.suspended = kind[c].suspended,
                !.roles = Once(kind[c].roles), !.version = @ + 1]

userFullFromUser(c) ==
    LET newRoles == found[c].roles # Once(kind[c].roles) IN
    [doc EXCEPT !.active = IF kind[c].active # found[c].active THEN kind[c].active ELSE @,
                !.suspended = IF kind[c].suspended # found[c].suspended THEN kind[c].suspended ELSE @,
                !.roles = IF newRoles THEN Once(kind[c].roles) ELSE @,
                !.version = IF newRoles THEN @ + 1 ELSE @]

(* What a user changes of their own is none of this.                        *)
userFromGeneralInfo(c) == doc

(* Refused, if the document is gone, or if the array was to be set and has  *)
(* changed since it was read.                                               *)
Refused(c) ==
    \/ doc = Missing
    \/ /\ kind[c].op = "edit" /\ found[c].roles # Once(kind[c].roles)
       /\ doc.version # found[c].version

Save(c) ==
    /\ pc[c] = "save"
    /\ doc' = IF Refused(c) THEN doc
              ELSE CASE kind[c].op = "insert" -> insertRole(c)
                     [] kind[c].op = "edit" -> userFullFromUser(c)
                     [] kind[c].op = "general" -> userFromGeneralInfo(c)
    /\ Goto(c, "done")
    /\ UNCHANGED <<cached, kind, found, excused>>

(* The caches of the other processes keep what they have.                   *)
Elsewhere(c) == {p \in Processes : p # kind[c].at /\ cached[p] \notin {Absent, Missing}}

deleteOne(c) ==
    /\ pc[c] = "delete"
    /\ doc' = Missing
    /\ excused' = excused \union Elsewhere(c)
    /\ Goto(c, "invalidate")
    /\ UNCHANGED <<cached, kind, found>>

(* deleteUser of the controller, which invalidates what 'user-by-id' found  *)
(* in this process.                                                         *)
invalidate_OtherPrefix(c) ==     \* bug: under `userms`, where nothing is cached
    /\ pc[c] = "invalidate"
    /\ Goto(c, "done")
    /\ UNCHANGED <<doc, cached, kind, found, excused>>

invalidate(c) ==
    /\ pc[c] = "invalidate"
    /\ cached' = [cached EXCEPT ![kind[c].at] = Absent]
    /\ excused' = excused \ {kind[c].at}
    /\ Goto(c, "done")
    /\ UNCHANGED <<doc, kind, found>>

RightsNext ==
    \/ \E c \in Calls : \/ Arrive(c) \/ FindForCache(c) \/ PutInCache(c)
                        \/ Load(c) \/ Save(c) \/ deleteOne(c) \/ invalidate(c)
    \/ \E p \in Processes : Expire(p)

-----------------------------------------------------------------------------
(* A request takes away only roles it has read: the role that another gives *)
(* between its load and its save stays.  Nor does it lift a suspension or   *)
(* impose one, or let in or shut out, over another it has not seen; and an  *)
(* edit of the one leaves the other as it is.                               *)
RightsStay ==
    (doc # Missing /\ doc' # Missing) =>
        /\ \A r \in Held(doc) \ Held(doc') :
              \E c \in Calls : pc[c] = "save" /\ pc'[c] = "done" /\ r \in Held(found[c])
        /\ \A f \in {"active", "suspended"} : doc[f] # doc'[f] =>
              \E c \in Calls : pc[c] = "save" /\ pc'[c] = "done" /\ found[c][f] = doc[f]

(* When a user was removed, the process that did so no longer tells other   *)
(* services that the user may come in, unless a read that began before      *)
(* outlasted the removal; and of the other processes only those that had an *)
(* answer in their cache when it happened, or such a read, still do.        *)
RemovedIsForgotten ==
    \A p \in Processes \ excused : RemovalEnded(p) => cached[p] \in {Absent, Missing}
=============================================================================
