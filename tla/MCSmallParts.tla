---------------------------- MODULE MCSmallParts ----------------------------
(* The seven parts with four tasks, three requests to create a group, two   *)
(* messages to a chat; two handlers and three sockets: one that ends before *)
(* its greeting, one that ends after it, and one to listen again on; and    *)
(* two lines of a log: one to wait for a pause, and one during the pause or *)
(* the read.                                                                *)
EXTENDS SmallParts, TLC

CONSTANTS t1, t2, s1, s2

(* Two messages, to one session or to two.                                  *)
TwoWays == {[c \in {t1, t2} |-> s1], t1 :> s1 @@ t2 :> s2}

(* A message is answered, if nothing failed or overlapped: see RealtimeChat.*)
(* The two messages can be exchanged, with their sessions, so that what is  *)
(* true of the first is true of both.                                       *)
MessagesAreAnswered == part = "chat" => Chat!IsAnswered(t1)

=============================================================================
