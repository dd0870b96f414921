----------------------------- MODULE FileService -----------------------------
(***************************************************************************)
(* libs/files-webservice: one file of one category, the requests that      *)
(* upload, tag, proxy and remove it, the reads that scale it, and the      *)
(* queue that saves what a read has added to it.                           *)
(*                                                                         *)
(* A save writes the fields that differ from what its request had loaded.  *)
(* An array that is set anew must have the version that was loaded, and    *)
(* increments it; an array that is pushed to only increments it; a save    *)
(* without either goes by the id of the document.  The bytes of a file are *)
(* the request that brought them.  Uploads, tags and removals are of any   *)
(* process; the cache and the queue are those of one.                      *)
(***************************************************************************)
EXTENDS Integers

CONSTANTS
    Calls,       \* requests that change the file
    Before,      \* the request that brought the file there is at first
    FirstDocs,   \* the documents there may be at first
    Widths,      \* rounded widths that the file is asked for in, 0 for none
    Small,       \* requests that bring an image no wider than any of these
    Missing,     \* no document
    Same,        \* useSame: the file itself serves a width
    None         \* no cached value, no load, no save

Files == Calls \union {Before}

VARIABLES
    doc,         \* the document of the file
    cached,      \* the widths whose key the cache has an entry for
    load,        \* the document that the load of each width has found
    saving,      \* the save of lastFetch that the queue has, with what it was made from
    pc, kind, keep,    \* of each request; keep is volatile = false
    found,       \* the document it has found
    answer,
    wish,        \* history: what the last request that was saved asked for
    outdated,    \* history: requests that were overtaken by the save of another
    blurred,     \* history: the last of those saved was among them
    unguarded,   \* history: an upload over no scaled images met a scaling
    excused      \* history: requests whose file may be missing for a known reason

requests == <<pc, kind, keep, found, answer>>
tagging == <<wish, outdated, blurred>>
fileVars == <<doc, cached, load, saving, requests, tagging, unguarded, excused>>

Scaled == [width : Nat, of : Files \union {Same}]
Doc == [id : Files, file : Files, scaled : SUBSET Scaled, version : Nat, volatile : BOOLEAN]
Kinds == {"upload", "proxy", "tag", "remove"}

(* add: a scaled image the save brings, as a $push or by setting the array. *)
Save == [from : Doc, add : SUBSET Scaled]

TypeOK ==
    /\ doc \in Doc \union {Missing}
    /\ cached \subseteq Widths
    /\ load \in [Widths -> Doc \union {Missing, None}]
    /\ saving \in Save \union {None}
    /\ pc \in [Calls -> {"find", "fetch", "save", "delete", "invalidate", "done"}]
    /\ kind \in [Calls -> Kinds] /\ keep \in [Calls -> BOOLEAN]
    /\ found \in [Calls -> Doc \union {Missing}]
    /\ answer \in [Calls -> {"none", "ok", "error"}]
    /\ wish \in BOOLEAN /\ blurred \in BOOLEAN /\ unguarded \in BOOLEAN
    /\ outdated \subseteq Calls /\ excused \subseteq Calls

Init ==
    /\ doc \in FirstDocs \union {Missing}
    /\ cached = {}
    /\ load = [w \in Widths |-> None]
    /\ saving = None
    /\ kind \in [Calls -> Kinds]
    /\ pc = [c \in Calls |-> IF kind[c] = "remove" THEN "delete" ELSE "find"]
    /\ keep \in [Calls -> BOOLEAN] /\ \A c \in Calls : kind[c] = "proxy" => keep[c]
    /\ found = [c \in Calls |-> Missing]
    /\ answer = [c \in Calls |-> "none"]
    /\ wish = (doc # Missing /\ doc.volatile) /\ outdated = {} /\ blurred = FALSE
    /\ unguarded = FALSE /\ excused = {}

Goto(c, step) == pc' = [pc EXCEPT ![c] = step]
Reply(c, a) == /\ Goto(c, "done") /\ answer' = [answer EXCEPT ![c] = a]
               /\ found' = [found EXCEPT ![c] = Missing]

-----------------------------------------------------------------------------
(* findByName(category, name, width): a load of its own for each width.    *)
Find(w) ==
    /\ w \notin cached /\ load[w] = None
    /\ load' = [load EXCEPT ![w] = doc]
    /\ UNCHANGED <<doc, cached, saving, requests, tagging, unguarded, excused>>

OfWidth(d, w) == {s \in d.scaled : s.width = w}

(* createAndCacheScaledImage                                               *)
NewScale(d, w) == [width |-> w, of |-> IF d.file \in Small THEN Same ELSE d.file]

(* determineBin, and the save for the queue unless one is pending.         *)
Queue(s) == saving' = IF saving = None THEN s ELSE saving

Serve(w) ==
    LET d == load[w] IN
    /\ d # None
    /\ IF d = Missing THEN UNCHANGED saving
       ELSE Queue([from |-> d,
                   add |-> IF w = 0 \/ OfWidth(d, w) # {} THEN {} ELSE {NewScale(d, w)}])
    /\ load' = [load EXCEPT ![w] = None]
    /\ cached' = cached \union {w}
    /\ UNCHANGED <<doc, requests, tagging, unguarded, excused>>

(* The livetime of an entry is over.                                       *)
Expire(w) ==
    /\ w \in cached /\ cached' = cached \ {w}
    /\ UNCHANGED <<doc, load, saving, requests, tagging, unguarded, excused>>

Setting(s) == \E x \in s.add : x.of # Same

Matches(s) ==
    /\ doc # Missing /\ doc.id = s.from.id
    /\ Setting(s) => doc.version = s.from.version

(* The task of the queue: file.save(), whose failure is logged.            *)
SaveLastFetch ==
    /\ saving # None /\ saving' = None
    /\ IF Matches(saving) /\ saving.add # {}
       THEN doc' = [doc EXCEPT !.version = @ + 1,
                       !.scaled = (IF Setting(saving) THEN saving.from.scaled ELSE @) \union saving.add]
       ELSE UNCHANGED doc
    /\ UNCHANGED <<cached, load, requests, tagging, unguarded, excused>>

SaveFails ==
    /\ saving # None /\ saving' = None
    /\ UNCHANGED <<doc, cached, load, requests, tagging, unguarded, excused>>

-----------------------------------------------------------------------------
Read(c) == found' = [found EXCEPT ![c] = doc] /\ outdated' = outdated \ {c}

(* The requests, past the answer of the service of the category.           *)
FindDoc(c) ==
    /\ pc[c] = "find"
    /\ \/ /\ kind[c] = "upload" \/ (kind[c] = "tag" /\ doc # Missing)
          /\ Read(c) /\ Goto(c, "save") /\ UNCHANGED answer
       \/ /\ kind[c] = "proxy" /\ doc = Missing
          /\ Goto(c, "fetch") /\ UNCHANGED <<found, answer, outdated>>
       \/ /\ kind[c] = (IF doc = Missing THEN "tag" ELSE "proxy")
          /\ Reply(c, "ok") /\ UNCHANGED outdated
    /\ UNCHANGED <<doc, cached, load, saving, kind, keep, wish, blurred, unguarded, excused>>

Fetch_Swallowed(c) ==           \* bug: a failed download is answered like one that came
    /\ pc[c] = "fetch"
    /\ \/ Reply(c, "ok") /\ UNCHANGED outdated
       \/ Read(c) /\ Goto(c, "save") /\ UNCHANGED answer
    /\ UNCHANGED <<doc, cached, load, saving, kind, keep, wish, blurred, unguarded, excused>>

(* proxyExternalImage: the download, which takes up to ten seconds, and    *)
(* the checks of what came; then uploadFile looks for the document again.  *)
Fetch(c) ==
    /\ pc[c] = "fetch"
    /\ \/ Reply(c, "error") /\ UNCHANGED outdated
       \/ Read(c) /\ Goto(c, "save") /\ UNCHANGED answer
    /\ UNCHANGED <<doc, cached, load, saving, kind, keep, wish, blurred, unguarded, excused>>

setVolatility_OrTrue(c) == TRUE    \* bug: `volatile || true`

setVolatility(c) == ~keep[c]

(* Only a field that differs from what was loaded is written.              *)
Written(old, new, now) == IF old = new THEN now ELSE new

(* What a save is known to have done, for the properties.                  *)
Noted(c) ==
    /\ wish' = ~keep[c]
    /\ outdated' = outdated \union ({d \in Calls : pc[d] = "save"} \ {c})
    /\ blurred' = (c \in outdated)

Scaling == saving # None \/ \E w \in Widths : load[w] # None

(* The index on name and category, the id and, for the array, the version. *)
Accepted(c) ==
    IF found[c] = Missing THEN doc = Missing
    ELSE /\ doc # Missing /\ doc.id = found[c].id
         /\ (kind[c] # "tag" /\ found[c].scaled # {}) => doc.version = found[c].version

Insert(c) ==
    /\ doc' = [id |-> c, file |-> c, scaled |-> {}, version |-> 0, volatile |-> setVolatility(c)]
    /\ Noted(c)
    /\ unguarded' = FALSE

Update(c) ==
    LET old == found[c] IN
    /\ IF kind[c] = "tag"
       THEN doc' = [doc EXCEPT !.volatile = Written(old.volatile, setVolatility(c), @)]
            /\ UNCHANGED unguarded
       ELSE /\ doc' = [doc EXCEPT !.file = c, !.volatile = Written(old.volatile, setVolatility(c), @),
                          !.scaled = IF old.scaled # {} THEN {} ELSE @,
                          !.version = IF old.scaled # {} THEN @ + 1 ELSE @]
            /\ unguarded' = (old.scaled = {} /\ (unguarded \/ Scaling \/ doc.scaled # {}))
    /\ Noted(c)

(* uploadFile and updateVolatilities from their save on.  An error, of the *)
(* unique index and of the version too, is only logged: the answer is that *)
(* of a success.                                                           *)
SaveDoc(c) ==
    /\ pc[c] = "save" /\ Accepted(c)
    /\ IF found[c] = Missing THEN Insert(c) ELSE Update(c)
    /\ IF kind[c] = "tag" THEN Reply(c, "ok") ELSE Goto(c, "invalidate") /\ UNCHANGED <<found, answer>>
    /\ UNCHANGED <<cached, load, saving, kind, keep, excused>>

SaveRefused(c) ==
    /\ pc[c] = "save" /\ ~Accepted(c)
    /\ Reply(c, "ok")
    /\ UNCHANGED <<doc, cached, load, saving, kind, keep, tagging, unguarded, excused>>

(* The database cannot be reached: swallowed likewise.                     *)
SaveLost(c) ==
    /\ pc[c] = "save" /\ Reply(c, "ok")
    /\ excused' = excused \union {c}
    /\ UNCHANGED <<doc, cached, load, saving, kind, keep, tagging, unguarded>>

(* Whoever was answered before may miss the file from now on.              *)
Gone == doc' = Missing /\ excused' = excused \union {c \in Calls : pc[c] # "find"}

Delete(c) ==
    /\ pc[c] = "delete" /\ Goto(c, "invalidate")
    /\ IF doc = Missing THEN UNCHANGED <<doc, excused>> ELSE Gone
    /\ UNCHANGED <<cached, load, saving, kind, keep, found, answer, tagging, unguarded>>

Invalidate(c) ==
    /\ pc[c] = "invalidate" /\ Reply(c, "ok")
    /\ cached' = {}
    /\ UNCHANGED <<doc, load, saving, kind, keep, tagging, unguarded, excused>>

(* Volatile files whose time is over; the cache keeps them.                *)
HandleCron ==
    /\ doc # Missing /\ doc.volatile
    /\ Gone
    /\ UNCHANGED <<cached, load, saving, requests, tagging, unguarded>>

Next ==
    \/ \E w \in Widths : Find(w) \/ Serve(w) \/ Expire(w)
    \/ SaveLastFetch \/ SaveFails \/ HandleCron
    \/ \E c \in Calls : \/ FindDoc(c) \/ Fetch(c) \/ SaveDoc(c) \/ SaveRefused(c)
                        \/ SaveLost(c) \/ Delete(c) \/ Invalidate(c)

Spec == Init /\ [][Next]_fileVars

-----------------------------------------------------------------------------
(* A scaled image that is stored was made from the file it is stored with, *)
(* although the save of it may come long after uploads of other files: the *)
(* version keeps it out, except over an upload that found no scaled image  *)
(* to remove, which lasts until an upload finds one.                       *)
ScaledOfStored ==
    (doc # Missing /\ ~unguarded) => \A s \in doc.scaled : s.of \in {doc.file, Same}

(* The cron takes no file that the last request to it asked to keep,       *)
(* unless that request had read the file before another changed it: then   *)
(* the save leaves out a volatility it believes to be there already.       *)
KeptAsAsked == (doc # Missing /\ ~blurred) => (doc.volatile => wish)

(* Who is answered with the name of a proxied image finds it stored, also  *)
(* when another request has stored it first and refused the save of this   *)
(* one; unless the database failed or the file was removed since.          *)
ProxiedIsStored ==
    \A c \in Calls \ excused :
        (kind[c] = "proxy" /\ answer[c] = "ok") => doc # Missing
=============================================================================
