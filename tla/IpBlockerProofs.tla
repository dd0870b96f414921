--------------------------- MODULE IpBlockerProofs ---------------------------
(***************************************************************************)
(* What holds of the bans of an address for any number of calls and        *)
(* restarts.  The points that a call has read were earned by bans saved    *)
(* before it read them.  And as long as no calls overlap, one worker at    *)
(* most is under way, and where it stands tells what is still missing      *)
(* between the record and the firewall.                                    *)
(***************************************************************************)
EXTENDS IpBlocker, FiniteSetTheorems, TLAPS

(* The points in the record, and those a call computes with, were earned;  *)
(* a call that is yet to save its ban has none of them.                    *)
Earned ==
    /\ doc.point <= Cardinality(banned)
    /\ \A w \in Workers : seen[w].point <= Cardinality(banned)
    /\ \A w \in Workers : pc[w] \in {"uncalled", "find", "upsert"} => w \notin banned

OneAtATime == ~overlapped => \A v, w \in Working : v = w

(* Whom the record and the firewall wait for.                              *)
Repairs(w) ==
    /\ pc[w] = "find" => w = Startup \/ (doc.active => rules > 0)
    /\ pc[w] = "save" => seen[w] = [doc EXCEPT !.release = seen[w].release]
    /\ pc[w] = "iptables -D" => ~doc.active

InStep == (~overlapped /\ ~failed) =>
    /\ Working = {} => (doc.active => rules > 0)
    /\ \A w \in Working : Repairs(w)

Kinds ==
    /\ \A w \in Workers : pc[w] = "list" => w = Startup
    /\ \A w \in Workers : (pc[w] = "save" /\ kind[w] = "innocence") => seen[w].point > 0
    /\ ~doc.exists => ~doc.active
    /\ pc[Startup] # "uncalled" /\ kind[Startup] = "sync"

IInv == TypeOK /\ Earned /\ OneAtATime /\ InStep /\ Kinds

-----------------------------------------------------------------------------
LEMMA BannedIsFinite ==
    ASSUME TypeOK
    PROVE  IsFiniteSet(banned) /\ Cardinality(banned) \in Nat
<1>1. IsFiniteSet(banned)
  BY Bounds, FS_Subset DEF TypeOK
<1> QED BY <1>1, FS_CardinalityType

LEMMA Starting == Init => IInv
<1> SUFFICES ASSUME Init PROVE IInv
  OBVIOUS
<1>1. TypeOK
  <2>1. NoDoc \in Doc
    BY DEF NoDoc, Doc, Releases
  <2>2. 0 \in 0 .. MaxRestarts /\ 0 \in Nat
    BY Bounds
  <2>3. /\ kind \in [Workers -> {"none", "offence", "innocence", "ban", "unban", "sync"}]
        /\ pc \in [Workers -> Steps]
    BY DEF Init, Steps
  <2> QED BY <2>1, <2>2, <2>3 DEF Init, TypeOK
<1>2. Earned
  <2>1. Cardinality(banned) = 0
    BY FS_EmptySet DEF Init
  <2> QED BY <2>1 DEF Init, Earned, NoDoc
<1>3. Working = {Startup}
  BY DEF Init, Working, InFlight, Steps, Workers
<1>4. OneAtATime /\ InStep /\ Kinds
  BY <1>3, Bounds DEF Init, OneAtATime, InStep, Repairs, Kinds, NoDoc, Workers
<1> QED BY <1>1, <1>2, <1>4 DEF IInv

(* A worker goes from one step under way to another, or ends.              *)
LEMMA WorkingAfter ==
    ASSUME TypeOK, NEW w \in Workers, NEW s \in Steps, Goto(w, s)
    PROVE  Working' = IF s \in InFlight THEN Working \union {w} ELSE Working \ {w}
BY DEF TypeOK, Goto, Working

(* A worker that is under way alone stays alone.                           *)
LEMMA Alone ==
    ASSUME TypeOK, OneAtATime, NEW w \in Working, NEW s \in Steps, Goto(w, s),
           overlapped' = overlapped
    PROVE  /\ OneAtATime'
           /\ ~overlapped => Working' = IF s \in InFlight THEN {w} ELSE {}
<1>1. w \in Workers
  BY DEF Working
<1>2. Working' = IF s \in InFlight THEN Working \union {w} ELSE Working \ {w}
  BY <1>1, WorkingAfter
<1> QED BY <1>2 DEF OneAtATime

(* A step that reads nothing and starts nobody.                            *)
LEMMA KindsKept ==
    ASSUME TypeOK, Kinds, NEW w \in Workers, NEW s, pc' = [pc EXCEPT ![w] = s],
           s \notin {"list", "uncalled", "save"}, kind' = kind, seen' = seen,
           ~doc'.exists => ~doc'.active
    PROVE  Kinds'
<1>1. \A v \in Workers : pc'[v] = IF v = w THEN s ELSE pc[v]
  BY DEF TypeOK
<1>2. Startup \in Workers
  BY DEF Workers
<1> QED BY <1>1, <1>2 DEF Kinds

-----------------------------------------------------------------------------
LEMMA ArriveStep == ASSUME IInv, NEW c \in Calls, Arrive(c) PROVE IInv'
<1> USE DEF IInv
<1>0. c \in Workers /\ c # Startup
  BY Bounds DEF Workers
<1>1. TypeOK'
  BY <1>0 DEF Arrive, TypeOK, Goto, Steps
<1>2. Earned'
  BY <1>0 DEF Arrive, Earned, Goto, TypeOK
<1>3. Kinds'
  BY <1>0 DEF Arrive, Kinds, Goto, TypeOK
<1>4. Working' = Working \union {c}
  <2>1. Goto(c, "find") /\ "find" \in Steps /\ "find" \in InFlight
    BY DEF Arrive, Steps, InFlight
  <2> QED BY <1>0, <2>1, WorkingAfter
<1>5. OneAtATime'
  BY <1>4 DEF OneAtATime, Arrive
<1>6. InStep'
  <2> SUFFICES ASSUME ~overlapped', ~failed' PROVE Repairs(c)' /\ Working' = {c}
    BY <1>4 DEF InStep
  <2>1. Working = {} /\ ~overlapped /\ ~failed
    BY DEF Arrive
  <2>2. pc'[c] = "find" /\ doc' = doc /\ rules' = rules
    BY <1>0 DEF Arrive, Goto, TypeOK
  <2> QED BY <1>4, <2>1, <2>2 DEF InStep, Repairs
<1> QED BY <1>1, <1>2, <1>3, <1>5, <1>6

LEMMA FindStep == ASSUME IInv, NEW w \in Workers, Find(w) PROVE IInv'
<1> USE DEF IInv
<1> DEFINE s == IF kind[w] \in {"offence", "ban"} THEN "upsert"
                ELSE IF Releasable(w, doc) THEN "save"
                ELSE IF w = Startup THEN "iptables -D"
                ELSE "done"
<1>0. /\ pc[w] = "find" /\ w \in Working /\ Goto(w, s) /\ s \in Steps
      /\ pc' = [pc EXCEPT ![w] = s] /\ seen' = [seen EXCEPT ![w] = doc]
      /\ UNCHANGED <<doc, rules, kind, restarts, banned, overlapped, failed>>
  BY DEF Find, Working, InFlight, Steps, Goto
<1>s. s \in {"upsert", "save", "iptables -D", "done"}
  OBVIOUS
<1>1. TypeOK'
  BY <1>0 DEF TypeOK
<1>2. Earned'
  <2> HIDE DEF s
  <2> QED BY <1>0 DEF Earned, TypeOK
<1>3. Kinds'
  <2> HIDE DEF s
  <2>1. s # "list" /\ s # "uncalled"
    BY <1>s
  <2>2. (s = "save" /\ kind[w] = "innocence") => doc.point > 0
    BY DEF s, Releasable
  <2>3. /\ \A v \in Workers : pc'[v] = IF v = w THEN s ELSE pc[v]
        /\ \A v \in Workers : seen'[v] = IF v = w THEN doc ELSE seen[v]
    BY <1>0 DEF TypeOK
  <2>4. Startup \in Workers
    BY DEF Workers
  <2> QED BY <1>0, <2>1, <2>2, <2>3, <2>4 DEF Kinds
<1>4. OneAtATime' /\ (~overlapped => Working' = IF s \in InFlight THEN {w} ELSE {})
  <2> HIDE DEF s
  <2> QED BY <1>0, Alone
<1>5. InStep'
  <2> SUFFICES ASSUME ~overlapped, ~failed
               PROVE  /\ Working' = {} => (doc.active => rules > 0)
                      /\ Working' = {w} => Repairs(w)'
    <3> HIDE DEF s
    <3> QED BY <1>0, <1>4 DEF InStep
  <2>1. pc'[w] = s /\ seen'[w] = doc
    BY <1>0 DEF TypeOK
  <2>2. w = Startup \/ (doc.active => rules > 0)
    BY <1>0 DEF InStep, Repairs
  <2>3. s = "done" => w # Startup
    OBVIOUS
  <2>4. s = "iptables -D" => ~doc.active
    <3>1. s = "iptables -D" => w = Startup /\ ~Releasable(w, doc)
      OBVIOUS
    <3> QED BY <3>1 DEF Releasable, Kinds
  <2>5. Repairs(w)'
    <3>1. seen'[w] = [doc' EXCEPT !.release = seen'[w].release]
      BY <1>0, <2>1 DEF TypeOK, Doc
    <3>2. pc'[w] # "find"
      BY <1>s, <2>1
    <3> HIDE DEF s
    <3> QED BY <1>0, <2>1, <2>4, <3>1, <3>2 DEF Repairs
  <2>6. Working' = {} => s = "done"
    BY <1>4, <1>s DEF InFlight, Steps
  <2> HIDE DEF s
  <2> QED BY <2>2, <2>3, <2>5, <2>6
<1> QED BY <1>1, <1>2, <1>3, <1>4, <1>5

LEMMA UpsertStep == ASSUME IInv, NEW c \in Calls, Upsert(c) PROVE IInv'
<1>i. TypeOK /\ Earned /\ OneAtATime /\ InStep /\ Kinds
  BY DEF IInv
<1> DEFINE new == [exists |-> TRUE, point |-> seen[c].point + 1, active |-> TRUE, release |-> "ahead"]
<1>0. /\ pc[c] = "upsert" /\ c \in Working /\ c \in Workers /\ Goto(c, "iptables -I")
      /\ pc' = [pc EXCEPT ![c] = "iptables -I"] /\ doc' = new /\ banned' = banned \union {c}
      /\ UNCHANGED <<rules, kind, seen, restarts, overlapped, failed>>
  BY DEF Upsert, Working, InFlight, Steps, Goto, Workers
<1>n. /\ new \in Doc /\ new.point = seen[c].point + 1 /\ new.exists
  <2>1. seen[c] \in Doc
    BY <1>i, <1>0 DEF TypeOK
  <2>2. seen[c].point + 1 \in Nat
    BY <2>1 DEF Doc
  <2> QED BY <2>2 DEF Doc, Releases
<1> HIDE DEF new
<1>1. TypeOK'
  BY <1>i, <1>0, <1>n DEF TypeOK, Steps
<1>2. Earned'
  <2>1. c \notin banned
    BY <1>i, <1>0 DEF Earned
  <2>2. Cardinality(banned') = Cardinality(banned) + 1 /\ Cardinality(banned) \in Nat
    BY <1>i, <1>0, <2>1, BannedIsFinite, FS_AddElement
  <2>3. /\ \A w \in Workers : seen[w].point \in Nat /\ seen[w].point <= Cardinality(banned)
        /\ \A w \in Workers : pc[w] \in {"uncalled", "find", "upsert"} => w \notin banned
    BY <1>i DEF TypeOK, Doc, Earned
  <2>4. doc'.point = seen[c].point + 1 /\ c \in Workers
    BY <1>i, <1>0, <1>n
  <2>5. doc'.point <= Cardinality(banned')
    BY <2>2, <2>3, <2>4
  <2>6. \A w \in Workers : seen[w].point <= Cardinality(banned')
    BY <2>2, <2>3
  <2>7. \A w \in Workers : pc'[w] = IF w = c THEN "iptables -I" ELSE pc[w]
    BY <1>i, <1>0 DEF TypeOK
  <2>8. \A w \in Workers : pc'[w] \in {"uncalled", "find", "upsert"} => w # c /\ w \notin banned
    BY <2>3, <2>7
  <2>9. seen' = seen /\ banned' = banned \union {c}
    BY <1>i, <1>0
  <2> QED BY <2>5, <2>6, <2>8, <2>9 DEF Earned
<1>3. Kinds'
  BY <1>i, <1>0, <1>n, KindsKept
<1>4. OneAtATime' /\ (~overlapped => Working' = {c})
  <2>1. "iptables -I" \in InFlight /\ "iptables -I" \in Steps
    BY DEF InFlight, Steps
  <2> QED BY <1>i, <1>0, <2>1, Alone
<1>5. InStep'
  <2> SUFFICES ASSUME ~overlapped' PROVE Working' = {c} /\ Repairs(c)'
    BY DEF InStep
  <2>1. pc'[c] = "iptables -I"
    BY <1>i, <1>0 DEF TypeOK
  <2>2. Working' = {c}
    BY <1>0, <1>4
  <2> QED BY <2>1, <2>2 DEF Repairs
<1> QED BY <1>1, <1>2, <1>3, <1>4, <1>5 DEF IInv

LEMMA SaveStep == ASSUME IInv, NEW w \in Workers, Save(w) PROVE IInv'
<1> USE DEF IInv
<1> DEFINE p == IF kind[w] = "innocence" THEN seen[w].point - 1 ELSE doc.point
<1>0. /\ pc[w] = "save" /\ w \in Working /\ Goto(w, "iptables -D")
      /\ pc' = [pc EXCEPT ![w] = "iptables -D"]
      /\ UNCHANGED <<rules, kind, seen, restarts, banned, overlapped, failed>>
  BY DEF Save, Working, InFlight, Steps, Goto
<1>d. doc' = [exists |-> doc.exists, point |-> p, active |-> doc.active /\ ~seen[w].active,
              release |-> "past"]
  BY DEF Save, TypeOK, Doc
<1>p. p \in Nat /\ p <= Cardinality(banned)
  <2>1. doc.point \in Nat /\ seen[w].point \in Nat /\ Cardinality(banned) \in Nat
    BY BannedIsFinite DEF TypeOK, Doc
  <2>2. kind[w] = "innocence" => seen[w].point > 0
    BY <1>0 DEF Kinds
  <2> QED BY <2>1, <2>2 DEF Earned
<1>1. TypeOK'
  <2> HIDE DEF p
  <2>1. doc' \in Doc
    BY <1>d, <1>p DEF TypeOK, Doc, Releases
  <2> QED BY <1>0, <2>1 DEF TypeOK, Steps
<1>2. Earned'
  <2> HIDE DEF p
  <2> QED BY <1>0, <1>d, <1>p DEF Earned, TypeOK
<1>3. Kinds'
  <2> HIDE DEF p
  <2>1. doc'.exists = doc.exists /\ (~doc.active => ~doc'.active)
    BY <1>d
  <2>2. ~doc'.exists => ~doc'.active
    BY <2>1 DEF Kinds
  <2> QED BY <1>0, <2>2, KindsKept
<1>4. OneAtATime' /\ (~overlapped => Working' = {w})
  <2>1. "iptables -D" \in InFlight /\ "iptables -D" \in Steps
    BY DEF InFlight, Steps
  <2> QED BY <1>0, <2>1, Alone
<1>5. InStep'
  <2> HIDE DEF p
  <2>1. pc'[w] = "iptables -D"
    BY <1>0 DEF TypeOK
  <2>2. (~overlapped /\ ~failed) => ~doc'.active
    <3>1. (~overlapped /\ ~failed) => seen[w] = [doc EXCEPT !.release = seen[w].release]
      BY <1>0 DEF InStep, Repairs
    <3>2. (~overlapped /\ ~failed) => seen[w].active = doc.active
      BY <3>1 DEF TypeOK, Doc
    <3> QED BY <1>d, <3>2
  <2> SUFFICES ASSUME ~overlapped', ~failed' PROVE Working' = {w} /\ Repairs(w)'
    BY DEF InStep
  <2>3. Working' = {w} /\ ~doc'.active
    BY <1>0, <1>4, <2>2
  <2> QED BY <2>1, <2>3 DEF Repairs
<1> QED BY <1>1, <1>2, <1>3, <1>4, <1>5

LEMMA IptablesStep == ASSUME IInv, NEW w \in Workers, Iptables(w) PROVE IInv'
<1> USE DEF IInv
<1>0. /\ pc[w] \in {"iptables -I", "iptables -D"} /\ w \in Working /\ Goto(w, "done")
      /\ pc' = [pc EXCEPT ![w] = "done"]
      /\ UNCHANGED <<doc, kind, seen, restarts, banned, overlapped>>
  BY DEF Iptables, Working, InFlight, Steps, Goto
<1>r. /\ rules' \in Nat /\ failed' \in BOOLEAN
      /\ pc[w] = "iptables -I" => rules' > 0 \/ failed'
  <2>1. rules \in Nat /\ failed \in BOOLEAN
    BY DEF TypeOK
  <2>2. \/ /\ rules' = IF pc[w] = "iptables -I" THEN rules + 1
                        ELSE IF rules > 0 THEN rules - 1 ELSE 0
           /\ failed' = failed
        \/ rules' = rules /\ failed' = TRUE
    BY Zenon DEF Iptables
  <2>3. rules + 1 \in Nat /\ rules + 1 > 0 /\ (rules > 0 => rules - 1 \in Nat)
    BY <2>1
  <2>4. rules' \in Nat /\ failed' \in BOOLEAN
    <3>1. failed' \in BOOLEAN
      BY <2>1, <2>2, Zenon
    <3>2. rules' = rules + 1 \/ rules' = 0 \/ (rules > 0 /\ rules' = rules - 1) \/ rules' = rules
      BY <2>2, Zenon
    <3> QED BY <2>1, <2>3, <3>1, <3>2
  <2>5. pc[w] = "iptables -I" => rules' = rules + 1 \/ failed'
    BY <2>2
  <2> QED BY <2>3, <2>4, <2>5
<1>1. TypeOK'
  <2>1. rules' \in Nat /\ failed' \in BOOLEAN
    BY <1>r
  <2> QED BY <1>0, <2>1 DEF TypeOK, Steps
<1>2. Earned'
  BY <1>0 DEF Earned, TypeOK
<1>3. Kinds'
  BY <1>0, KindsKept DEF Kinds
<1>4. OneAtATime' /\ (~overlapped => Working' = {})
  <2>1. "done" \notin InFlight /\ "done" \in Steps
    BY DEF InFlight, Steps
  <2> QED BY <1>0, <2>1, Alone
<1>5. InStep'
  <2> SUFFICES ASSUME ~overlapped', ~failed' PROVE doc.active => rules' > 0
    BY <1>0, <1>4 DEF InStep
  <2>1. ~failed
    BY <1>0 DEF Iptables
  <2>2. pc[w] = "iptables -D" => ~doc.active
    BY <1>0, <2>1 DEF InStep, Repairs
  <2>3. pc[w] = "iptables -I" => rules' > 0
    BY <1>r
  <2> QED BY <1>0, <2>2, <2>3
<1> QED BY <1>1, <1>2, <1>3, <1>4, <1>5

LEMMA ListStep == ASSUME IInv, List PROVE IInv'
<1> USE DEF IInv
<1> DEFINE s == IF ~doc.active THEN "done"
                ELSE IF doc.release = "past at start" THEN "find"
                ELSE "iptables -I"
<1>0. /\ Startup \in Working /\ Goto(Startup, s) /\ pc' = [pc EXCEPT ![Startup] = s]
      /\ UNCHANGED <<doc, rules, kind, seen, restarts, banned, overlapped, failed>>
  BY DEF List, Working, InFlight, Steps, Goto, Workers
<1>s. s \in {"done", "find", "iptables -I"} /\ s \in Steps /\ (s = "done" => ~doc.active)
  BY DEF Steps
<1> HIDE DEF s
<1>1. TypeOK'
  BY <1>0, <1>s DEF TypeOK
<1>2. Earned'
  <2>1. Startup \notin banned
    BY Bounds DEF TypeOK
  <2> QED BY <1>0, <2>1 DEF Earned, TypeOK
<1>3. Kinds'
  BY <1>0, <1>s, KindsKept DEF Kinds, Working
<1>4. OneAtATime' /\ (~overlapped => Working' = IF s \in InFlight THEN {Startup} ELSE {})
  BY <1>0, <1>s, Alone
<1>5. InStep'
  <2>1. pc'[Startup] = s
    BY <1>0 DEF TypeOK, Working
  <2>2. s \in InFlight <=> s # "done"
    BY <1>s DEF InFlight
  <2> QED BY <1>0, <1>s, <1>4, <2>1, <2>2 DEF InStep, Repairs
<1> QED BY <1>1, <1>2, <1>3, <1>4, <1>5

LEMMA RestartStep == ASSUME IInv, Restart PROVE IInv'
<1> USE DEF IInv
<1>d. /\ doc'.exists = doc.exists /\ doc'.active = doc.active /\ doc'.point = doc.point
      /\ doc' \in Doc
  BY DEF Restart, TypeOK, Doc, Releases
<1>0. /\ \A w \in Workers : pc'[w] = IF w = Startup THEN "list"
                                     ELSE IF pc[w] = "uncalled" THEN "uncalled" ELSE "done"
      /\ UNCHANGED <<kind, seen, banned>> /\ ~overlapped' /\ ~failed'
  BY DEF Restart
<1>1. TypeOK'
  <2>1. pc' \in [Workers -> Steps]
    BY DEF Restart, Steps
  <2>2. restarts' \in 0 .. MaxRestarts
    <3>1. restarts' = restarts + 1 /\ restarts < MaxRestarts
      BY Zenon DEF Restart
    <3>2. restarts \in 0 .. MaxRestarts
      BY DEF TypeOK
    <3> QED BY <3>1, <3>2, Bounds
  <2>3. rules' \in Nat
    <3>1. rules' \in {rules, 0}
      BY Zenon DEF Restart
    <3> QED BY <3>1 DEF TypeOK
  <2>4. seen' = seen /\ kind' = kind /\ banned' = banned /\ overlapped' \in BOOLEAN /\ failed' \in BOOLEAN
    BY DEF Restart
  <2> QED BY <1>d, <2>1, <2>2, <2>3, <2>4 DEF TypeOK
<1>2. Earned'
  <2>1. Startup \notin banned
    BY Bounds DEF TypeOK
  <2> QED BY <1>d, <1>0, <2>1 DEF Earned
<1>w. Startup \in Workers
  BY DEF Workers
<1>3. Kinds'
  <2>1. ~doc'.exists => ~doc'.active
    BY <1>d DEF Kinds
  <2>2. \A w \in Workers : pc'[w] = "save" => FALSE
    BY <1>0
  <2>3. /\ \A w \in Workers : pc'[w] = "list" => w = Startup
        /\ pc'[Startup] # "uncalled" /\ kind'[Startup] = "sync"
    BY <1>0, <1>w DEF Kinds
  <2> QED BY <2>1, <2>2, <2>3 DEF Kinds
<1>4. Working' = {Startup}
  BY <1>0, <1>w DEF Working, InFlight, Steps
<1>5. OneAtATime' /\ InStep'
  BY <1>0, <1>4, <1>w DEF OneAtATime, InStep, Repairs
<1> QED BY <1>1, <1>2, <1>3, <1>5

LEMMA ExpireStep == ASSUME IInv, Expire PROVE IInv'
<1> USE DEF IInv
<1>0. /\ doc' = [doc EXCEPT !.release = "past"] /\ doc' \in Doc
      /\ UNCHANGED <<rules, kind, pc, seen, restarts, banned, overlapped, failed>>
  BY DEF Expire, TypeOK, Doc, Releases
<1>1. doc'.exists = doc.exists /\ doc'.active = doc.active /\ doc'.point = doc.point
  BY <1>0 DEF TypeOK, Doc
<1>2. TypeOK' /\ Earned' /\ OneAtATime' /\ Kinds'
  <2>1. TypeOK'
    BY <1>0 DEF TypeOK
  <2>2. Earned' /\ OneAtATime' /\ Kinds'
    BY <1>0, <1>1 DEF Earned, OneAtATime, Kinds, Working
  <2> QED BY <2>1, <2>2
<1>3. \A w \in Workers : seen[w] = [doc EXCEPT !.release = seen[w].release]
                          => seen[w] = [doc' EXCEPT !.release = seen[w].release]
  BY <1>0 DEF TypeOK, Doc
<1>4. InStep'
  <2>1. Working' = Working
    BY <1>0 DEF Working
  <2>2. \A w \in Working : Repairs(w) => Repairs(w)'
    BY <1>0, <1>1, <1>3 DEF Repairs, Working
  <2> QED BY <1>0, <1>1, <2>1, <2>2 DEF InStep
<1> QED BY <1>2, <1>4

-----------------------------------------------------------------------------
LEMMA Inductive == Spec => []IInv
<1>1. IInv /\ [Next]_vars => IInv'
  <2> SUFFICES ASSUME IInv, [Next]_vars PROVE IInv'
    OBVIOUS
  <2>1. ASSUME Next PROVE IInv'
    BY <2>1, ArriveStep, FindStep, UpsertStep, SaveStep, IptablesStep, ListStep, RestartStep,
       ExpireStep DEF Next
  <2>2. CASE UNCHANGED vars
    <3>1. Working' = Working /\ \A w \in Working : Repairs(w)' <=> Repairs(w)
      BY <2>2 DEF vars, Working, Repairs
    <3>2. TypeOK' /\ Earned' /\ Kinds'
      BY <2>2 DEF vars, IInv, TypeOK, Earned, Kinds
    <3> QED BY <2>2, <3>1, <3>2 DEF vars, IInv, OneAtATime, InStep
  <2> QED BY <2>1, <2>2
<1> QED BY Starting, <1>1, PTL DEF Spec

(* The variables stay in their types.                                      *)
THEOREM TypeCorrect == Spec => []TypeOK
<1>1. IInv => TypeOK
  BY DEF IInv
<1> QED BY Inductive, <1>1, PTL

(* The points of an address were earned by bans, however calls overlap and *)
(* wherever the process dies.                                              *)
THEOREM PenaltiesAreEarned == Spec => []PointsAreEarned
<1>1. IInv => PointsAreEarned
  BY DEF IInv, Earned, PointsAreEarned
<1> QED BY Inductive, <1>1, PTL

(* At rest, unless calls have overlapped or a command has failed since the *)
(* last start, an active ban is in force.                                  *)
THEOREM BansAreRestored == Spec => []StartupRestores
<1>1. IInv => StartupRestores
  BY DEF IInv, InStep, StartupRestores
<1> QED BY Inductive, <1>1, PTL
=============================================================================
