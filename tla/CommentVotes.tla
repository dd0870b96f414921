---------------------------- MODULE CommentVotes ----------------------------
(***************************************************************************)
(* libs/social-webservice: one comment and the requests that vote on it,   *)
(* answer it, edit it and delete it.  Each loads the comment, changes what *)
(* it has loaded and saves: the save writes the fields that differ, sets   *)
(* an array that a splice has changed if the version is still the loaded   *)
(* one, pushes to an array whatever the version is, and increments the     *)
(* version with either.  Nobody waits for the save of a vote or an edit.   *)
(***************************************************************************)
EXTENDS Integers, FiniteSets

CONSTANTS
    Calls,       \* requests
    Users,
    Poster,      \* the user who wrote the comment
    Missing      \* no comment

VARIABLES
    comment,     \* the document, Missing when it is deleted
    pc, kind, user,
    found,       \* what each request has loaded
    overlapped   \* history: a vote was added to a version later than it had read

votesVars == <<comment, pc, kind, user, found, overlapped>>

Lists == [Users -> Nat]      \* a list of user ids: how often it has each
Comment == [upvoteUserIds : Lists, downvoteUserIds : Lists, votesLength : Int,
            childCommentsCount : Nat, editCount : Nat, text : Calls \union {Poster}, version : Nat]
Kinds == {"UP", "DOWN", "answer", "edit", "delete", "clear"}
Votes == {"UP", "DOWN"}

VotesTypeOK ==
    /\ comment \in Comment \union {Missing}
    /\ pc \in [Calls -> {"find", "save", "delete", "done"}]
    /\ kind \in [Calls -> Kinds] /\ user \in [Calls -> Users]
    /\ found \in [Calls -> Comment \union {Missing}]
    /\ overlapped \in BOOLEAN

NoOne == [u \in Users |-> 0]

VotesInit ==
    /\ comment = [upvoteUserIds |-> NoOne, downvoteUserIds |-> NoOne, votesLength |-> 0,
                  childCommentsCount |-> 0, editCount |-> 0, text |-> Poster, version |-> 0]
    /\ pc = [c \in Calls |-> "find"]
    /\ kind \in [Calls -> Kinds] /\ user \in [Calls -> Users]
    /\ found = [c \in Calls |-> Missing]
    /\ overlapped = FALSE

-----------------------------------------------------------------------------
Goto(c, step) == pc' = [pc EXCEPT ![c] = step]
Done(c) == Goto(c, "done") /\ found' = [found EXCEPT ![c] = Missing]

(* checkCanEdit, checkCanDelete: the poster; to delete also who the        *)
(* service of the ownerships, asked over the bus, says owns the entity.    *)
isCommentPoster(c) == user[c] = Poster

(* findById in voteComment, editComment, deleteComment and, for the parent *)
(* of a new comment, insertComment.                                        *)
Find(c) ==
    /\ pc[c] = "find" /\ kind[c] # "clear"
    /\ \/ /\ comment # Missing /\ (kind[c] = "edit" => isCommentPoster(c))
          /\ Goto(c, IF kind[c] = "delete" THEN "delete" ELSE "save")
          /\ found' = [found EXCEPT ![c] = comment]
       \/ /\ comment = Missing \/ (kind[c] \in {"edit", "delete"} /\ ~isCommentPoster(c))
          /\ Done(c)
    /\ UNCHANGED <<comment, kind, user, overlapped>>

Has(list, u) == list[u] > 0
Push(list, u) == [list EXCEPT ![u] = @ + 1]
Splice(list, u) == [list EXCEPT ![u] = @ - 1]
One(b) == IF b THEN 1 ELSE 0

(* votesLength, from what the vote has loaded.                             *)
Tally_Half(c) ==                \* bug: a vote that changes sides counts once
    LET old == found[c] u == user[c] IN
    old.votesLength + One(kind[c] = "UP") - One(kind[c] = "DOWN")
                    - 2 * One(kind[c] = "UP" /\ Has(old.upvoteUserIds, u))
                    + 2 * One(kind[c] = "DOWN" /\ Has(old.downvoteUserIds, u))

Tally(c) ==
    LET up == Has(found[c].upvoteUserIds, user[c])
        down == Has(found[c].downvoteUserIds, user[c])
    IN  found[c].votesLength - One(up) + One(down)
            + One(kind[c] = "UP" /\ ~up) - One(kind[c] = "DOWN" /\ ~down)

(* One list after the vote: set without the voter, pushed to, or as it is. *)
Changed(old, now, u, wanted) ==
    IF Has(old, u) THEN Splice(old, u) ELSE IF wanted THEN Push(now, u) ELSE now

Splices(c) == Has(found[c].upvoteUserIds, user[c]) \/ Has(found[c].downvoteUserIds, user[c])

Written(old, new, now) == IF old = new THEN now ELSE new

Vote(c) ==
    comment' = [comment EXCEPT
        !.upvoteUserIds = Changed(found[c].upvoteUserIds, @, user[c], kind[c] = "UP"),
        !.downvoteUserIds = Changed(found[c].downvoteUserIds, @, user[c], kind[c] = "DOWN"),
        !.votesLength = Written(found[c].votesLength, Tally(c), @),
        !.version = @ + 1]

Matches_Id(c) == comment # Missing    \* bug: the save goes by the id alone

(* The document is still there and, for an array that is set, as loaded.   *)
Matches(c) ==
    /\ comment # Missing
    /\ (kind[c] \in Votes /\ Splices(c)) => comment.version = found[c].version

(* voteComment, and of insertComment the count of the parent.  A save that *)
(* is refused is an error that nobody handles; the answer may be out.      *)
Save(c) ==
    /\ pc[c] = "save" /\ Matches(c)
    /\ CASE kind[c] \in Votes -> Vote(c)
         [] kind[c] = "answer" -> comment' = [comment EXCEPT !.childCommentsCount = found[c].childCommentsCount + 1]
         [] kind[c] = "edit" -> comment' = [comment EXCEPT !.text = c, !.editCount = found[c].editCount + 1]
    /\ overlapped' = (overlapped \/ (kind[c] \in Votes /\ comment.version # found[c].version))
    /\ Done(c)
    /\ UNCHANGED <<kind, user>>

SaveRefused(c) ==
    /\ pc[c] = "save" /\ ~Matches(c)
    /\ Done(c)
    /\ UNCHANGED <<comment, kind, user, overlapped>>

(* deleteComment from its deleteOne on; the counts of the parent and of    *)
(* the meta stay.                                                          *)
Delete(c) ==
    /\ pc[c] = "delete"
    /\ comment' = Missing /\ Done(c)
    /\ UNCHANGED <<kind, user, overlapped>>

(* clearUserCommentsAll of the user who wrote it, by a moderator.          *)
Clear(c) ==
    /\ pc[c] = "find" /\ kind[c] = "clear"
    /\ comment' = (IF user[c] = Poster THEN Missing ELSE comment) /\ Done(c)
    /\ UNCHANGED <<kind, user, overlapped>>

VotesNext == \E c \in Calls : Find(c) \/ Save(c) \/ SaveRefused(c) \/ Delete(c) \/ Clear(c)

VotesSpec == VotesInit /\ [][VotesNext]_votesVars

-----------------------------------------------------------------------------
(* No vote of a user is added or taken away but by a vote of that user:    *)
(* a list that is written back whole does not undo what others have pushed *)
(* since it was read.                                                      *)
OthersVotesStay ==
    \A u \in Users :
        LET of(d) == <<d.upvoteUserIds[u], d.downvoteUserIds[u]>> IN
        (comment # Missing /\ comment' # Missing /\ of(comment) # of(comment'))
            => \E c \in Calls : user[c] = u /\ kind[c] \in Votes
                                /\ pc[c] = "save" /\ pc'[c] = "done"
OthersVotesKept == [][OthersVotesStay]_votesVars

(* As long as no vote is pushed past another, votesLength, which is read,  *)
(* changed and set, is the number of up votes without the down votes, and  *)
(* nobody has voted twice or both ways.  (Past another it is not.)         *)
TallyFollowsVotes ==
    (comment # Missing /\ ~overlapped) =>
        LET ups == comment.upvoteUserIds downs == comment.downvoteUserIds IN
        /\ \A u \in Users : ups[u] + downs[u] <= 1
        /\ comment.votesLength = Cardinality({u \in Users : Has(ups, u)})
                                 - Cardinality({u \in Users : Has(downs, u)})
=============================================================================
