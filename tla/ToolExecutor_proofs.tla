------------------------ MODULE ToolExecutor_proofs ------------------------
(* Proofs about ToolExecutor, for every list of servers, every set of tools  *)
(* they advertise and every number of calls.                                 *)
EXTENDS ToolExecutor, TLAPS

-----------------------------------------------------------------------------
(* The inductive invariant.  Its parts speak of the record of one operation  *)
(* and of one server entry, so that a step is judged by the one it changes.  *)

Held == {"closing", "terminating", "awaiting", "done"}

(* Where an operation of connect may be, *)
InConnect(r) ==
    \/ r.at \in {"starting", "initializing", "discovering"} /\ r.then = "none"
    \/ r.at \in Held /\ r.then = "disconnect"
    \/ r.at = "done" /\ r.then = "connect"

(* one of a call to a server, *)
InCall(r) ==
    \/ InConnect(r)
    \/ r.at \in {"sending", "waiting"} /\ r.then = "none"
    \/ r.at \in Held /\ r.then = "reconnect"

(* and one of a built-in tool. *)
InBuiltin(r) ==
    r.at \in {"running", "reading", "terminating", "awaiting", "done"} /\ r.then = "none"

(* An operation is where the control of the executor says it is.             *)
Fits(o, r) ==
    /\ r.at = "none" => r.then = "none"
    /\ r.at \in {"running", "terminating"} => r.group # 0
    /\ r.at # "none" =>
          /\ pc \notin {"idle", "failed", "closed"}
          /\ pc = "new" => o = Order[next] /\ InConnect(r)
          /\ (pc = "call" /\ o # Builtin) => o \in managed /\ InCall(r)
          /\ (pc = "call" /\ o = Builtin) => InBuiltin(r)
          /\ pc = "closing" => o # Builtin /\ r.at \in Held /\ r.then = "close"

(* Outside Close there is only one. *)
OpsInv ==
    /\ \A o \in Owners : Fits(o, op[o])
    /\ pc # "closing" =>
          \A o, p \in Owners : (op[o].at # "none" /\ op[p].at # "none") => o = p

ConnectedWell(r) == r.at = "done" /\ r.then = "connect" /\ ~r.err
Verified(e) == e.session /\ e.verified = e.frozen

(* A server entry holds a command only where nothing forgets it: of a server *)
(* that is managed, or that New is connecting.  The session of a managed     *)
(* server is verified or known to be stale.                                  *)
EntryOK(s, e, r) ==
    /\ e.command # 0 =>
          /\ pc \in {"new", "idle", "call"}
          /\ s \in managed \/ (pc = "new" /\ s = Order[next])
          /\ \/ r.at \in {"none", "initializing", "discovering", "sending", "waiting"}
             \/ ConnectedWell(r)
    /\ (/\ pc \in {"new", "idle", "call"} /\ s \in managed
        /\ r.at \in {"none", "sending", "waiting"}) => e.stale \/ Verified(e)
    /\ (r.at = "sending" \/ ConnectedWell(r)) => Verified(e) /\ ~e.stale
    /\ r.at = "discovering" => e.session
    /\ r.then = "reconnect" => e.stale

EntriesInv ==
    /\ pc = "new" => \A s \in managed : \E i \in 1..(next - 1) : s = Order[i]
    /\ \A s \in Servers : EntryOK(s, server[s], op[s])

(* A call that was given to a tool is under way there, and was given once.   *)
SentInv ==
    /\ \A c \in 1..MaxCalls : c > made => sent[c] = 0 /\ answer[c] = "none"
    /\ pc = "call" =>
          /\ made # 0 /\ answer[made] = "none" /\ sent[made] \in {0, 1}
          /\ sent[made] = 1 => \/ op[Builtin].at # "none"
                               \/ \E s \in Servers : op[s].at = "waiting"
          /\ op[Builtin].at # "none" => sent[made] = 1

Inv == TypeOK /\ OpsInv /\ EntriesInv /\ SentInv /\ NothingIsLeftBehind

-----------------------------------------------------------------------------
(* Servers and the pseudo-server of the built-in tools are the owners.       *)
LEMMA OwnerFacts ==
    /\ \A s \in Servers : s \in Owners /\ s # Builtin
    /\ Builtin \in Owners
    /\ \A o \in Owners : o = Builtin \/ o \in Servers
    /\ \A i \in 1..Len(Order) : Order[i] \in Servers
    /\ \A i, j \in 1..Len(Order) : Order[i] = Order[j] => i = j
    /\ Len(Order) \in Nat /\ MaxCalls \in Nat
BY ToolExecutorAssumption DEF Owners, Servers

(* The groups that an owner's entry or operation will see to.                *)
HeldBy(o) ==
    {g \in DOMAIN procs :
        \/ o \in Servers /\ server[o].command = g
        \/ op[o].group = g /\ op[o].at \in {"running", "closing", "terminating"}}

(* NothingIsLeftBehind, said of owners. *)
LEMMA HeldGroups ==
    NothingIsLeftBehind <=>
        \A g \in DOMAIN procs :
            LiveGroup(g) => pc \notin {"failed", "closed"} /\ \E o \in Owners : g \in HeldBy(o)
BY OwnerFacts DEF NothingIsLeftBehind, HeldBy

-----------------------------------------------------------------------------
(* Steps that move one operation, and with it perhaps its server's entry.    *)

Moves(o, r, e) ==
    /\ op' = [op EXCEPT ![o] = r]
    /\ server' = IF o \in Servers THEN [server EXCEPT ![o] = e] ELSE server
    /\ UNCHANGED control

(* The moved operation was the one under way, or nothing was.                *)
MayMove(o) == op[o].at # "none" \/ \A p \in Owners : op[p].at = "none"

(* If what was moved is in order, all operations and entries are.            *)
LEMMA MoveKeepsOrder ==
    ASSUME Inv, NEW o \in Owners, NEW r \in OpType, NEW e \in ServerType,
           Moves(o, r, e), MayMove(o), Fits(o, r), o \in Servers => EntryOK(o, e, r)
    PROVE  OpsInv' /\ EntriesInv'
<1> USE OwnerFacts DEF Inv, TypeOK, Moves, control
<1>1. /\ op'[o] = r
      /\ \A p \in Owners : p # o => op'[p] = op[p]
  OBVIOUS
<1>2. \A s \in Servers : server'[s] = IF s = o THEN e ELSE server[s]
  OBVIOUS
<1>3. \A p \in Owners : Fits(p, op[p])'
  <2>1. \A p \in Owners : Fits(p, op'[p])
    BY <1>1 DEF OpsInv
  <2> QED
    BY <2>1 DEF Fits
<1>4. ASSUME pc # "closing", NEW p \in Owners, NEW q \in Owners,
             op'[p].at # "none", op'[q].at # "none"
      PROVE  p = q
  BY <1>1, <1>4 DEF OpsInv, MayMove
<1>5. \A s \in Servers : EntryOK(s, server'[s], op'[s])
  BY <1>1, <1>2 DEF EntriesInv
<1>6. \A s \in Servers : EntryOK(s, server[s], op[s])'
  BY <1>5 DEF EntryOK
<1> QED
  BY <1>3, <1>4, <1>6 DEF OpsInv, EntriesInv

(* Nothing is left behind when what lives afterwards is held by the moved    *)
(* owner, or lived before and was held by another.                           *)
LEMMA MoveKeepsHeld ==
    ASSUME Inv, NEW o \in Owners, NEW r \in OpType, NEW e \in ServerType,
           Moves(o, r, e), procs' \in Seq(GroupType), Len(procs') >= Len(procs),
           pc \notin {"failed", "closed"},
           \A g \in DOMAIN procs' :
               LiveGroup(g)' => \/ g \in HeldBy(o)'
                                \/ g \in DOMAIN procs /\ LiveGroup(g) /\ g \notin HeldBy(o)
    PROVE  NothingIsLeftBehind'
<1> USE OwnerFacts DEF Inv, TypeOK, Moves, control
<1> SUFFICES ASSUME NEW g \in DOMAIN procs', LiveGroup(g)', g \notin HeldBy(o)'
             PROVE  \E p \in Owners : g \in HeldBy(p)'
  BY DEF NothingIsLeftBehind, HeldBy
<1>1. g \in DOMAIN procs /\ LiveGroup(g) /\ g \notin HeldBy(o)
  OBVIOUS
<1>2. PICK p \in Owners : g \in HeldBy(p)
  BY <1>1, HeldGroups
<1>3. p # o /\ op'[p] = op[p] /\ (p \in Servers => server'[p] = server[p])
  BY <1>1, <1>2
<1>4. g \in HeldBy(p)'
  BY <1>2, <1>3 DEF HeldBy
<1> QED
  BY <1>4

(* The types of what was moved are the types of all.                         *)
LEMMA MoveKeepsTypes ==
    ASSUME Inv, NEW o \in Owners, NEW r \in OpType, NEW e \in ServerType,
           Moves(o, r, e), procs' \in Seq(GroupType), Len(procs') >= Len(procs),
           r.group <= Len(procs'), o \in Servers => e.command <= Len(procs'),
           ctx' \in {"live", "ended"}, fresh' \in {"live", "ended"},
           made' = made, sent' \in [1..MaxCalls -> Nat], answer' = answer
    PROVE  TypeOK'
<1> USE OwnerFacts DEF Inv, TypeOK, Moves, control
<1>1. op' \in [Owners -> OpType] /\ server' \in [Servers -> ServerType]
  OBVIOUS
<1>2. \A p \in Owners : op'[p].group <= Len(procs')
  BY DEF OpType
<1>3. \A s \in Servers : server'[s].command <= Len(procs')
  BY DEF ServerType
<1> QED
  BY <1>1, <1>2, <1>3

(* What was given to a tool is still there unless the server that had it is  *)
(* moved.                                                                    *)
LEMMA MoveKeepsSent ==
    ASSUME Inv, NEW o \in Owners, NEW r \in OpType, NEW e \in ServerType,
           Moves(o, r, e), UNCHANGED calling,
           \/ o \in Servers /\ op[o].at # "waiting"
           \/ o = Builtin /\ op[o].at # "none" /\ r.at # "none"
    PROVE  SentInv'
<1> USE OwnerFacts DEF Inv, TypeOK, Moves, control, calling
<1>1. /\ op'[o] = r
      /\ \A p \in Owners : p # o => op'[p] = op[p]
  OBVIOUS
<1> QED
  BY <1>1 DEF SentInv

(* The three together. *)
LEMMA MoveKeeps ==
    ASSUME Inv, NEW o \in Owners, NEW r \in OpType, NEW e \in ServerType,
           Moves(o, r, e), MayMove(o), r.at # "none",
           Fits(o, r), o \in Servers => EntryOK(o, e, r),
           procs' \in Seq(GroupType), Len(procs') >= Len(procs),
           r.group <= Len(procs'), o \in Servers => e.command <= Len(procs'),
           UNCHANGED <<ctx, fresh, made, answer>>, sent' \in [1..MaxCalls -> Nat],
           \A g \in DOMAIN procs' :
               LiveGroup(g)' => \/ g \in HeldBy(o)'
                                \/ g \in DOMAIN procs /\ LiveGroup(g) /\ g \notin HeldBy(o)
    PROVE  TypeOK' /\ OpsInv' /\ EntriesInv' /\ NothingIsLeftBehind'
<1>1. OpsInv' /\ EntriesInv'
  BY MoveKeepsOrder
<1>2. NothingIsLeftBehind'
  BY MoveKeepsHeld DEF Fits
<1>3. TypeOK'
  BY MoveKeepsTypes DEF Inv, TypeOK
<1> QED
  BY <1>1, <1>2, <1>3

(* And all of the invariant, when no call is given away or answered. *)
LEMMA MoveStep ==
    ASSUME Inv, NEW o \in Owners, NEW r \in OpType, NEW e \in ServerType,
           Moves(o, r, e), MayMove(o), r.at # "none",
           Fits(o, r), o \in Servers => EntryOK(o, e, r),
           procs' \in Seq(GroupType), Len(procs') >= Len(procs),
           r.group <= Len(procs'), o \in Servers => e.command <= Len(procs'),
           UNCHANGED <<ctx, fresh, calling>>,
           \/ o \in Servers /\ op[o].at # "waiting"
           \/ o = Builtin /\ op[o].at # "none",
           \A g \in DOMAIN procs' :
               LiveGroup(g)' => \/ g \in HeldBy(o)'
                                \/ g \in DOMAIN procs /\ LiveGroup(g) /\ g \notin HeldBy(o)
    PROVE  Inv'
<1>1. UNCHANGED <<made, answer>> /\ sent' \in [1..MaxCalls -> Nat]
  BY DEF Inv, TypeOK, calling
<1>2. TypeOK' /\ OpsInv' /\ EntriesInv' /\ NothingIsLeftBehind'
  BY <1>1, MoveKeeps
<1>3. SentInv'
  BY MoveKeepsSent
<1> QED
  BY <1>2, <1>3 DEF Inv

(* An entry to stand in where there is no server. *)
LEMMA NobodyType == Nobody \in ServerType
BY DEF Nobody, ServerType, ToolSets

(* A step that keeps the server entries and the processes.                   *)
LEMMA OpOnlyStep ==
    ASSUME Inv, NEW o \in Owners, NEW r \in OpType,
           op' = [op EXCEPT ![o] = r], UNCHANGED <<ctx, fresh, control, server, procs, calling>>,
           MayMove(o), r.at # "none",
           Fits(o, r), o \in Servers => EntryOK(o, server[o], r),
           r.group \in {0, op[o].group},
           \/ o \in Servers /\ op[o].at # "waiting"
           \/ o = Builtin /\ op[o].at # "none",
           op[o].at \in {"running", "closing", "terminating"} /\ op[o].group # 0 =>
               /\ r.group = op[o].group
               /\ r.at \in {"running", "closing", "terminating"} \/ ~LiveGroup(r.group)
    PROVE  Inv'
<1> USE OwnerFacts
<1>1. PICK e \in ServerType : o \in Servers => e = server[o]
  BY NobodyType DEF Inv, TypeOK
<1>2. Moves(o, r, e)
  BY <1>1 DEF Moves, Inv, TypeOK
<1>3. /\ procs' \in Seq(GroupType) /\ Len(procs') >= Len(procs) /\ Len(procs) \in Nat
      /\ r.group <= Len(procs') /\ (o \in Servers => e.command <= Len(procs'))
  BY <1>1 DEF Inv, TypeOK, OpType
<1>4. op'[o] = r
  BY DEF Inv, TypeOK
<1>5. ASSUME NEW g \in DOMAIN procs', LiveGroup(g)'
      PROVE  g \in HeldBy(o)' \/ (g \in DOMAIN procs /\ LiveGroup(g) /\ g \notin HeldBy(o))
  <2>1. g \in DOMAIN procs /\ LiveGroup(g) /\ g # 0
    BY <1>5, <1>3 DEF LiveGroup
  <2> QED
    BY <2>1, <1>4 DEF HeldBy
<1> QED
  BY <1>1, <1>2, <1>3, <1>5, MoveStep

-----------------------------------------------------------------------------
(* procgroup.Terminate, closeSession and the steps of a call.                *)

(* The types of the pieces. *)
LEMMA Typed ==
    ASSUME Inv
    PROVE  op \in [Owners -> OpType] /\ server \in [Servers -> ServerType]
BY DEF Inv, TypeOK

(* An operation that only goes on keeps its type, command and purpose.       *)
LEMMA GoesOn ==
    ASSUME Inv, NEW o \in Owners, NEW a \in Places, NEW err \in BOOLEAN,
           \/ op' = [op EXCEPT ![o].at = a]
           \/ op' = [op EXCEPT ![o].at = a, ![o].err = err]
    PROVE  /\ op' = [op EXCEPT ![o] = op'[o]] /\ op'[o] \in OpType
           /\ op'[o].at = a /\ op'[o].group = op[o].group /\ op'[o].then = op[o].then
<1>1. op[o] \in OpType /\ op' = [op EXCEPT ![o] = op'[o]]
  BY Typed
<1>2. \/ op'[o] = [op[o] EXCEPT !.at = a]
      \/ op'[o] = [op[o] EXCEPT !.at = a, !.err = err]
  BY Typed
<1>3. ASSUME NEW p \in OpType, NEW q,
             q = [p EXCEPT !.at = a] \/ q = [p EXCEPT !.at = a, !.err = err]
      PROVE  q \in OpType /\ q.at = a /\ q.group = p.group /\ q.then = p.then
  BY <1>3 DEF OpType
<1>4. op'[o] \in OpType /\ op'[o].at = a /\ op'[o].group = op[o].group /\ op'[o].then = op[o].then
  BY <1>1, <1>2, <1>3
<1> QED
  BY <1>1, <1>4

(* Terminate goes on waiting only after SIGKILL, so its group is dead already. *)
LEMMA AwaitStep ==
    ASSUME Inv, NEW o \in Owners, Await(o)
    PROVE  Inv'
<1> USE OwnerFacts
<1>1. /\ op' = [op EXCEPT ![o] = op'[o]] /\ op'[o] \in OpType
      /\ op'[o].at = "done" /\ op'[o].group = op[o].group /\ op'[o].then = op[o].then
  BY GoesOn DEF Await, Places
<1>2. op[o].at = "awaiting"
  BY DEF Await
<1>3. Fits(o, op[o]) /\ (o \in Servers => EntryOK(o, server[o], op[o]))
  BY DEF Inv, OpsInv, EntriesInv
<1>4. Fits(o, op'[o])
  BY <1>1, <1>2, <1>3 DEF Fits, InConnect, InCall, InBuiltin, Held
<1>5. o \in Servers => EntryOK(o, server[o], op'[o])
  BY <1>1, <1>2, <1>3 DEF EntryOK, Fits, ConnectedWell, InConnect, InCall, Held, Inv, TypeOK
<1>6. PICK r \in OpType : r = op'[o]
  BY <1>1
<1> QED
  BY <1>1, <1>2, <1>4, <1>5, <1>6, OpOnlyStep DEF Await, MayMove

(* Every operation and entry is in order. *)
LEMMA InOrder ==
    ASSUME Inv, NEW o \in Owners
    PROVE  Fits(o, op[o]) /\ (o \in Servers => EntryOK(o, server[o], op[o]))
BY DEF Inv, OpsInv, EntriesInv

(* SIGKILL to a group leaves nobody in it, and the other groups alone.       *)
LEMMA KilledGroup ==
    ASSUME Inv, NEW k \in DOMAIN procs, procs' = Killed(k)
    PROVE  /\ procs' \in Seq(GroupType) /\ Len(procs') = Len(procs) /\ Len(procs) \in Nat
           /\ \A g \in DOMAIN procs : LiveGroup(g)' => LiveGroup(g) /\ g # k
<1>1. procs \in Seq(GroupType)
  BY DEF Inv, TypeOK
<1>2. procs[k] \in GroupType
  BY <1>1
<1> DEFINE q == [procs[k] EXCEPT !.leader = IF @ = "alive" THEN "killed" ELSE @,
                                 !.others = @ \cap {"escaped"}]
<1>3. procs' = [procs EXCEPT ![k] = q]
  BY <1>1 DEF Killed
<1>4. q \in GroupType /\ q.leader # "alive" /\ q.others \subseteq {"escaped"}
  BY <1>2 DEF GroupType
<1>5. procs' \in Seq(GroupType) /\ Len(procs') = Len(procs) /\ DOMAIN procs' = DOMAIN procs
  BY <1>1, <1>3, <1>4
<1>6. procs'[k] = q /\ \A g \in DOMAIN procs : g # k => procs'[g] = procs[g]
  BY <1>1, <1>3
<1> HIDE DEF q
<1> QED
  BY <1>1, <1>4, <1>5, <1>6 DEF LiveGroup

(* SIGKILL leaves nobody alive in the group that the operation held. *)
LEMMA KillStep ==
    ASSUME Inv, NEW o \in Owners, Kill(o)
    PROVE  Inv'
<1> USE OwnerFacts
<1>1. PICK a \in {"done", "awaiting"} :
          \/ op' = [op EXCEPT ![o].at = a]
          \/ op' = [op EXCEPT ![o].at = a, ![o].err = TRUE]
  BY DEF Kill
<1>2. /\ op' = [op EXCEPT ![o] = op'[o]] /\ op'[o] \in OpType
      /\ op'[o].at = a /\ op'[o].group = op[o].group /\ op'[o].then = op[o].then
  BY <1>1, GoesOn DEF Places
<1>3. op[o].at = "terminating" /\ Fits(o, op[o]) /\ (o \in Servers => EntryOK(o, server[o], op[o]))
  BY InOrder DEF Kill
<1>4. Fits(o, op'[o])
  BY <1>2, <1>3 DEF Fits, InConnect, InCall, InBuiltin, Held
<1>5. o \in Servers => EntryOK(o, server[o], op'[o]) /\ server[o].command = 0
  BY <1>2, <1>3 DEF EntryOK, Fits, ConnectedWell, InConnect, InCall, Held, Inv, TypeOK
<1>6. PICK r \in OpType : r = op'[o]
  BY <1>2
<1>7. PICK e \in ServerType : o \in Servers => e = server[o]
  BY NobodyType, Typed
<1>8. op[o].group \in DOMAIN procs /\ Len(procs) \in Nat
  BY <1>3, Typed DEF Inv, TypeOK, Fits, OpType
<1>9. /\ procs' \in Seq(GroupType) /\ Len(procs') = Len(procs) /\ DOMAIN procs' = DOMAIN procs
      /\ \A g \in DOMAIN procs : LiveGroup(g)' => LiveGroup(g) /\ g # op[o].group
  BY <1>8, KilledGroup DEF Kill
<1>10. Moves(o, r, e)
  BY <1>2, <1>6, <1>7, Typed DEF Moves, Kill
<1>11. ASSUME NEW g \in DOMAIN procs', LiveGroup(g)'
       PROVE  g \in DOMAIN procs /\ LiveGroup(g) /\ g \notin HeldBy(o)
  BY <1>5, <1>8, <1>9, <1>11 DEF HeldBy
<1>12. r.group <= Len(procs') /\ (o \in Servers => e.command <= Len(procs'))
  BY <1>2, <1>5, <1>6, <1>7, <1>8, <1>9
<1> QED
  BY <1>2, <1>3, <1>4, <1>5, <1>6, <1>7, <1>8, <1>9, <1>10, <1>11, <1>12, MoveStep
     DEF Kill, MayMove, InBuiltin

(* closeSession hands the group on to Terminate, whether the session closed or not. *)
LEMMA SessionEndsStep ==
    ASSUME Inv, NEW s \in Servers, SessionCloses(s) \/ GiveUpClosing(s)
    PROVE  Inv'
<1> USE OwnerFacts
<1>1. PICK err \in BOOLEAN : ThenTerminate(s, err)
  BY DEF SessionCloses, GiveUpClosing
<1>2. PICK a \in Places : a = IF op[s].group = 0 THEN "done" ELSE "terminating"
  BY DEF Places
<1>3. op' = [op EXCEPT ![s].at = a, ![s].err = err]
  BY <1>1, <1>2 DEF ThenTerminate
<1>4. /\ op' = [op EXCEPT ![s] = op'[s]] /\ op'[s] \in OpType
      /\ op'[s].at = a /\ op'[s].group = op[s].group /\ op'[s].then = op[s].then
  BY <1>3, GoesOn
<1>5. op[s].at = "closing" /\ Fits(s, op[s]) /\ EntryOK(s, server[s], op[s])
  BY InOrder DEF SessionCloses, GiveUpClosing
<1>6. Fits(s, op'[s])
  BY <1>2, <1>4, <1>5 DEF Fits, InConnect, InCall, InBuiltin, Held
<1>7. EntryOK(s, server[s], op'[s])
  BY <1>2, <1>4, <1>5 DEF EntryOK, Fits, ConnectedWell, InConnect, InCall, Held, Inv, TypeOK
<1>8. PICK r \in OpType : r = op'[s]
  BY <1>4
<1> QED
  BY <1>2, <1>4, <1>5, <1>6, <1>7, <1>8, OpOnlyStep DEF SessionCloses, GiveUpClosing, MayMove

(* A failed connect has given up its command before it returns. *)
LEMMA DisconnectedStep ==
    ASSUME Inv, NEW s \in Servers, Disconnected(s)
    PROVE  Inv'
<1> USE OwnerFacts
<1>1. PICK r : r = [NoOp EXCEPT !.at = "done", !.then = "connect", !.err = TRUE]
  OBVIOUS
<1>2. r \in OpType /\ r.at = "done" /\ r.then = "connect" /\ r.err /\ r.group = 0
  BY <1>1 DEF NoOp, OpType, Places
<1>3. op' = [op EXCEPT ![s] = r]
  BY <1>1 DEF Disconnected, AfterConnect
<1>4. /\ op[s].at = "done" /\ op[s].then = "disconnect"
      /\ Fits(s, op[s]) /\ EntryOK(s, server[s], op[s])
  BY InOrder DEF Disconnected
<1>5. Fits(s, r)
  BY <1>2, <1>4 DEF Fits, InConnect, InCall, InBuiltin, Held
<1>6. EntryOK(s, server[s], r)
  BY <1>2, <1>4 DEF EntryOK, Fits, ConnectedWell, InConnect, InCall, Held, Inv, TypeOK
<1> QED
  BY <1>2, <1>3, <1>4, <1>5, <1>6, OpOnlyStep DEF Disconnected, MayMove

(* A cancelled shell still holds its group. *)
LEMMA CancelShellStep ==
    ASSUME Inv, CancelShell
    PROVE  Inv'
<1> USE OwnerFacts
<1>0. op[Builtin] \in OpType
  BY Typed
<1>1. PICK r : r = [op[Builtin] EXCEPT !.at = "terminating", !.ctx = "background"]
  OBVIOUS
<1>2. /\ r \in OpType /\ r.at = "terminating" /\ r.group = op[Builtin].group
      /\ r.then = op[Builtin].then
  BY <1>0, <1>1 DEF OpType, Places
<1>3. op' = [op EXCEPT ![Builtin] = r]
  BY <1>1, Typed DEF CancelShell
<1>4. op[Builtin].at = "running" /\ Fits(Builtin, op[Builtin])
  BY InOrder DEF CancelShell
<1>5. Fits(Builtin, r)
  BY <1>2, <1>4 DEF Fits, InBuiltin, InConnect, InCall, Held, Inv, TypeOK
<1> QED
  BY <1>2, <1>3, <1>4, <1>5, OpOnlyStep DEF CancelShell, MayMove

-----------------------------------------------------------------------------
(* connect.                                                                  *)

(* What a step of connect may do to the entry of the server it connects.     *)
LEMMA ConnectStep ==
    ASSUME Inv, NEW s \in Servers, NEW r \in OpType, NEW e \in ServerType,
           op' = [op EXCEPT ![s] = r], server' = [server EXCEPT ![s] = e],
           UNCHANGED <<ctx, fresh, control, procs, calling>>,
           MayMove(s), op[s].at # "waiting", r.at # "none", Fits(s, r), EntryOK(s, e, r),
           r.group <= Len(procs), e.command <= Len(procs),
           op[s].at \notin {"running", "closing", "terminating"},
           server[s].command # 0 =>
               \/ e.command = server[s].command
               \/ r.group = server[s].command /\ r.at \in {"closing", "terminating"}
    PROVE  Inv'
<1> USE OwnerFacts
<1>1. procs' \in Seq(GroupType) /\ Len(procs') >= Len(procs) /\ Len(procs) \in Nat
  BY DEF Inv, TypeOK
<1>2. op'[s] = r /\ server'[s] = e
  BY Typed
<1>3. ASSUME NEW g \in DOMAIN procs', LiveGroup(g)'
      PROVE  g \in HeldBy(s)' \/ (g \in DOMAIN procs /\ LiveGroup(g) /\ g \notin HeldBy(s))
  <2>1. g \in DOMAIN procs /\ LiveGroup(g) /\ g # 0
    BY <1>3, <1>1 DEF LiveGroup
  <2> QED
    BY <2>1, <1>2 DEF HeldBy
<1> QED
  BY <1>1, <1>3, MoveStep DEF Moves

(* The new group is held by the server's entry at once. *)
LEMMA StartStep ==
    ASSUME Inv, NEW s \in Servers, Start(s)
    PROVE  Inv'
<1> USE OwnerFacts
<1>1. op[s].at = "starting" /\ Fits(s, op[s]) /\ EntryOK(s, server[s], op[s])
  BY InOrder DEF Start
<1>2. server[s].command = 0 /\ op[s].then = "none"
  BY <1>1, Typed DEF EntryOK, Fits, ConnectedWell, InConnect, InCall, Held, Inv, TypeOK
<1>3. CASE op' = [op EXCEPT ![s].at = "initializing"]
  <2>1. /\ op' = [op EXCEPT ![s] = op'[s]] /\ op'[s] \in OpType
        /\ op'[s].at = "initializing" /\ op'[s].group = op[s].group /\ op'[s].then = op[s].then
    BY <1>3, GoesOn DEF Places
  <2>2. PICK r \in OpType : r = op'[s]
    BY <2>1
  <2>3. Fits(s, r)
    BY <1>1, <1>2, <2>1, <2>2 DEF Fits, InConnect, InCall, Held, Inv, TypeOK
  <2>4. CASE UNCHANGED <<procs, server>>
    <3>1. EntryOK(s, server[s], r)
      BY <1>1, <1>2, <2>1, <2>2 DEF EntryOK, ConnectedWell
    <3> QED
      BY <1>1, <2>1, <2>2, <2>3, <2>4, <3>1, OpOnlyStep DEF Start, MayMove
  <2>5. CASE /\ procs' = Append(procs, NewGroup)
             /\ server' = [server EXCEPT ![s].command = Len(procs) + 1]
    <3>1. PICK e : e = [server[s] EXCEPT !.command = Len(procs) + 1]
      OBVIOUS
    <3>2. server[s] \in ServerType /\ Len(procs) \in Nat /\ procs \in Seq(GroupType)
      BY Typed DEF Inv, TypeOK
    <3>3. /\ e \in ServerType /\ e.command = Len(procs) + 1 /\ e.session = server[s].session
          /\ e.stale = server[s].stale /\ e.verified = server[s].verified
          /\ e.frozen = server[s].frozen
      BY <3>1, <3>2 DEF ServerType
    <3>4. server' = [server EXCEPT ![s] = e]
      BY <2>5, <3>1, Typed
    <3>5. EntryOK(s, e, r)
      BY <1>1, <1>2, <2>1, <2>2, <3>3 DEF EntryOK, Fits, ConnectedWell, Held, Inv, TypeOK
    <3>6. NewGroup \in GroupType
      BY DEF NewGroup, GroupType
    <3>7. /\ procs' \in Seq(GroupType) /\ Len(procs') = Len(procs) + 1
          /\ \A g \in DOMAIN procs : procs'[g] = procs[g] /\ g \in DOMAIN procs'
          /\ \A g \in DOMAIN procs' : g \in DOMAIN procs \/ g = Len(procs) + 1
      BY <2>5, <3>2, <3>6
    <3>8. op'[s].group <= Len(procs) /\ op'[s].group \in Nat
      BY <2>1, Typed DEF Inv, TypeOK, OpType
    <3>9. server'[s] = e
      BY <3>4, Typed
    <3>10. ASSUME NEW g \in DOMAIN procs', LiveGroup(g)'
           PROVE  g \in HeldBy(s)' \/ (g \in DOMAIN procs /\ LiveGroup(g) /\ g \notin HeldBy(s))
      <4>1. CASE g = Len(procs) + 1
        BY <4>1, <3>3, <3>9, <3>10 DEF HeldBy
      <4>2. CASE g \in DOMAIN procs
        <5>1. LiveGroup(g)
          BY <4>2, <3>7, <3>10 DEF LiveGroup
        <5>2. g \notin HeldBy(s)
          BY <4>2, <1>1, <1>2, <3>2 DEF HeldBy
        <5> QED
          BY <5>1, <5>2, <4>2
      <4> QED
        BY <4>1, <4>2, <3>7
    <3>11. Moves(s, r, e)
      BY <2>1, <2>2, <3>4 DEF Moves, Start
    <3>12. /\ Len(procs') >= Len(procs) /\ r.group <= Len(procs') /\ e.command <= Len(procs')
      BY <3>2, <3>3, <3>7, <3>8, <2>2
    <3> QED
      BY <1>1, <2>1, <2>2, <2>3, <3>3, <3>5, <3>7, <3>10, <3>11, <3>12, MoveStep DEF Start, MayMove
  <2> QED
    BY <1>1, <1>3, <2>4, <2>5 DEF Start, AfterConnect
<1>4. CASE AfterConnect(s, TRUE) /\ UNCHANGED <<procs, server>>
  <2>1. PICK r : r = [NoOp EXCEPT !.at = "done", !.then = "connect", !.err = TRUE]
    OBVIOUS
  <2>2. r \in OpType /\ r.at = "done" /\ r.then = "connect" /\ r.err /\ r.group = 0
    BY <2>1 DEF NoOp, OpType, Places
  <2>3. op' = [op EXCEPT ![s] = r]
    BY <1>4, <2>1 DEF AfterConnect
  <2>4. Fits(s, r)
    BY <1>1, <1>2, <2>2 DEF Fits, InConnect, InCall, Held, Inv, TypeOK
  <2>5. EntryOK(s, server[s], r)
    BY <1>1, <1>2, <2>2 DEF EntryOK, ConnectedWell
  <2> QED
    BY <1>1, <1>4, <2>2, <2>3, <2>4, <2>5, OpOnlyStep DEF Start, MayMove
<1> QED
  BY <1>3, <1>4 DEF Start

(* The session of a group that is held. *)
LEMMA InitializeStep ==
    ASSUME Inv, NEW s \in Servers, Initialize(s)
    PROVE  Inv'
<1> USE OwnerFacts
<1>1. op[s].at = "initializing" /\ Fits(s, op[s]) /\ EntryOK(s, server[s], op[s])
  BY InOrder DEF Initialize
<1>2. /\ op' = [op EXCEPT ![s] = op'[s]] /\ op'[s] \in OpType
      /\ op'[s].at = "discovering" /\ op'[s].group = op[s].group /\ op'[s].then = op[s].then
  BY GoesOn DEF Initialize, Places
<1>3. PICK r \in OpType : r = op'[s]
  BY <1>2
<1>4. PICK e : e = [server[s] EXCEPT !.session = TRUE]
  OBVIOUS
<1>5. server[s] \in ServerType
  BY Typed
<1>6. e \in ServerType /\ e.command = server[s].command /\ e.session /\ e.stale = server[s].stale
  BY <1>4, <1>5 DEF ServerType
<1>7. server' = [server EXCEPT ![s] = e]
  BY <1>4, Typed DEF Initialize
<1>8. Fits(s, r)
  BY <1>1, <1>2, <1>3 DEF Fits, InConnect, InCall, Held, Inv, TypeOK
<1>9. EntryOK(s, e, r)
  BY <1>1, <1>2, <1>3, <1>6 DEF EntryOK, Fits, ConnectedWell, InConnect, InCall, Held, Inv, TypeOK
<1>10. r.group <= Len(procs) /\ e.command <= Len(procs)
  BY <1>2, <1>3, <1>6 DEF Inv, TypeOK
<1> QED
  BY <1>1, <1>2, <1>3, <1>6, <1>7, <1>8, <1>9, <1>10, ConnectStep DEF Initialize, MayMove

(* The command goes from the entry to the operation that ends it. *)
LEMMA InitializeFailsStep ==
    ASSUME Inv, NEW s \in Servers, InitializeFails(s)
    PROVE  Inv'
<1> USE OwnerFacts
<1>1. op[s].at = "initializing" /\ Fits(s, op[s]) /\ EntryOK(s, server[s], op[s])
  BY InOrder DEF InitializeFails
<1>2. PICK r : r = [at |-> IF server[s].command = 0 THEN "done" ELSE "terminating",
                    group |-> server[s].command, ctx |-> "op", then |-> "disconnect",
                    err |-> TRUE]
  OBVIOUS
<1>3. PICK e : e = [server[s] EXCEPT !.command = 0]
  OBVIOUS
<1>4. server[s] \in ServerType
  BY Typed
<1>5. e \in ServerType /\ e.command = 0 /\ e.stale = server[s].stale
  BY <1>3, <1>4 DEF ServerType
<1>6. /\ r \in OpType /\ r.at = (IF server[s].command = 0 THEN "done" ELSE "terminating")
      /\ r.group = server[s].command /\ r.then = "disconnect"
  BY <1>2, <1>4 DEF OpType, Places, ServerType
<1>7. op' = [op EXCEPT ![s] = r] /\ server' = [server EXCEPT ![s] = e]
  BY <1>2, <1>3, Typed DEF InitializeFails
<1>8. Fits(s, r)
  BY <1>1, <1>6 DEF Fits, InConnect, InCall, Held, Inv, TypeOK
<1>9. EntryOK(s, e, r)
  BY <1>1, <1>5, <1>6 DEF EntryOK, ConnectedWell
<1>10. r.group <= Len(procs) /\ e.command <= Len(procs)
  BY <1>5, <1>6 DEF Inv, TypeOK
<1> QED
  BY <1>1, <1>5, <1>6, <1>7, <1>8, <1>9, <1>10, ConnectStep DEF InitializeFails, MayMove

(* What was discovered is verified against what was frozen. *)
LEMMA DiscoverStep ==
    ASSUME Inv, NEW s \in Servers, Discover(s)
    PROVE  Inv'
<1> USE OwnerFacts
<1>1. op[s].at = "discovering" /\ Fits(s, op[s]) /\ EntryOK(s, server[s], op[s])
  BY InOrder DEF Discover
<1>2. PICK tools \in Advertised[s] :
          /\ server[s].frozen = {} \/ server[s].frozen = tools
          /\ server' = [server EXCEPT ![s].frozen = IF @ = {} THEN tools ELSE @,
                                      ![s].stale = FALSE, ![s].verified = tools]
  BY DEF Discover, SameTools
<1>3. PICK e : e = [server[s] EXCEPT !.frozen = IF @ = {} THEN tools ELSE @,
                                     !.stale = FALSE, !.verified = tools]
  OBVIOUS
<1>4. server[s] \in ServerType /\ tools \in ToolSets
  BY Typed DEF ToolSets
<1>5. /\ e \in ServerType /\ e.command = server[s].command /\ ~e.stale
      /\ e.session = server[s].session /\ e.verified = tools /\ e.frozen = tools
  BY <1>2, <1>3, <1>4 DEF ServerType
<1>6. server' = [server EXCEPT ![s] = e]
  BY <1>2, <1>3, Typed
<1>7. PICK r : r = [NoOp EXCEPT !.at = "done", !.then = "connect", !.err = FALSE]
  OBVIOUS
<1>8. r \in OpType /\ r.at = "done" /\ r.then = "connect" /\ ~r.err /\ r.group = 0
  BY <1>7 DEF NoOp, OpType, Places
<1>9. op' = [op EXCEPT ![s] = r]
  BY <1>7 DEF Discover, AfterConnect
<1>10. Fits(s, r)
  BY <1>1, <1>8 DEF Fits, InConnect, InCall, Held, Inv, TypeOK
<1>11. EntryOK(s, e, r)
  BY <1>1, <1>5, <1>8 DEF EntryOK, ConnectedWell, Verified
<1>12. r.group <= Len(procs) /\ e.command <= Len(procs)
  BY <1>5, <1>8 DEF Inv, TypeOK
<1> QED
  BY <1>1, <1>5, <1>6, <1>8, <1>9, <1>10, <1>11, <1>12, ConnectStep DEF Discover, MayMove

(* closeSession takes session and command from the entry; what follows when  *)
(* it is done must suit the state the executor is in.                        *)
LEMMA CloseSessionStep ==
    ASSUME Inv, NEW s \in Servers, NEW then \in {"disconnect", "reconnect"},
           CloseSession(s, "run", then), UNCHANGED <<ctx, fresh, control, procs, calling>>,
           MayMove(s), op[s].at \in {"none", "discovering"},
           then = "reconnect" => server[s].stale,
           pc = "new" => s = Order[next] /\ then = "disconnect",
           pc = "call" => s \in managed,
           pc \in {"new", "call"}
    PROVE  Inv'
<1> USE OwnerFacts
<1>1. PICK r : r = Closing(s, "run", then)
  OBVIOUS
<1>2. PICK e : e = Forgotten(s)
  OBVIOUS
<1>3. server[s] \in ServerType
  BY Typed
<1>4. e \in ServerType /\ e.command = 0 /\ e.stale = server[s].stale
  BY <1>2, <1>3 DEF ServerType, Forgotten
<1>5. /\ r \in OpType /\ r.at \in {"closing", "terminating", "done"}
      /\ r.group = server[s].command /\ r.then = then
      /\ r.group # 0 => r.at # "done"
      /\ r.at = "terminating" => r.group # 0
  BY <1>1, <1>3 DEF OpType, Places, ServerType, Closing
<1>6. op' = [op EXCEPT ![s] = r] /\ server' = [server EXCEPT ![s] = e]
  BY <1>1, <1>2 DEF CloseSession
<1>7. Fits(s, r)
  BY <1>5 DEF Fits, InConnect, InCall, Held
<1>8. EntryOK(s, e, r)
  BY <1>4, <1>5 DEF EntryOK, ConnectedWell
<1>9. r.group <= Len(procs) /\ e.command <= Len(procs)
  BY <1>4, <1>5 DEF Inv, TypeOK
<1> QED
  BY <1>4, <1>5, <1>6, <1>7, <1>8, <1>9, ConnectStep

(* Session and command go from the entry to the operation. *)
LEMMA DiscoverFailsStep ==
    ASSUME Inv, NEW s \in Servers, DiscoverFails(s)
    PROVE  Inv'
<1> USE OwnerFacts
<1>1. op[s].at = "discovering" /\ Fits(s, op[s]) /\ s \in Owners /\ s # Builtin
  BY InOrder DEF DiscoverFails
<1>2. pc \in {"new", "call"} /\ (pc = "new" => s = Order[next]) /\ (pc = "call" => s \in managed)
  BY <1>1 DEF Fits, Held, Inv, TypeOK
<1> QED
  BY <1>1, <1>2, CloseSessionStep DEF DiscoverFails, MayMove

(* A call to a stale session goes through closeSession first. *)
LEMMA RouteStep ==
    ASSUME Inv, NEW s \in Servers, Route(s)
    PROVE  Inv'
<1> USE OwnerFacts
<1>1. /\ pc = "call" /\ s \in managed /\ op[s].at = "none" /\ MayMove(s)
      /\ Fits(s, op[s]) /\ EntryOK(s, server[s], op[s])
  BY InOrder DEF Route, NotRouted, Idle, MayMove
<1>2. CASE server[s].stale
  BY <1>1, <1>2, CloseSessionStep DEF Route
<1>3. CASE ~server[s].stale
  <2>1. /\ op' = [op EXCEPT ![s] = op'[s]] /\ op'[s] \in OpType
        /\ op'[s].at = "sending" /\ op'[s].group = op[s].group /\ op'[s].then = op[s].then
    BY <1>3, GoesOn DEF Route, Places
  <2>2. PICK r \in OpType : r = op'[s]
    BY <2>1
  <2>3. Fits(s, r)
    BY <1>1, <2>1, <2>2 DEF Fits, InCall
  <2>4. EntryOK(s, server[s], r)
    BY <1>1, <1>3, <2>1, <2>2 DEF EntryOK, Fits, ConnectedWell
  <2> QED
    BY <1>1, <1>3, <2>1, <2>2, <2>3, <2>4, OpOnlyStep DEF Route
<1> QED
  BY <1>2, <1>3

-----------------------------------------------------------------------------
(* Calls: a tool is given the call, or an answer ends it.                    *)

(* The request leaves at most once, since nothing else is under way. *)
LEMMA SendStep ==
    ASSUME Inv, NEW s \in Servers, Send(s)
    PROVE  Inv'
<1> USE OwnerFacts
<1>1. op[s].at = "sending" /\ Fits(s, op[s]) /\ EntryOK(s, server[s], op[s])
  BY InOrder DEF Send
<1>2. pc = "call" /\ s \in managed
  BY <1>1 DEF Fits, InConnect, Held, Inv, TypeOK
<1>3. /\ op' = [op EXCEPT ![s] = op'[s]] /\ op'[s] \in OpType
      /\ op'[s].at = "waiting" /\ op'[s].group = op[s].group /\ op'[s].then = op[s].then
  BY GoesOn DEF Send, Places
<1>4. PICK r \in OpType : r = op'[s]
  BY <1>3
<1>5. Fits(s, r)
  BY <1>1, <1>3, <1>4 DEF Fits, InConnect, InCall, Held
<1>6. EntryOK(s, server[s], r)
  BY <1>1, <1>3, <1>4 DEF EntryOK, ConnectedWell
<1>7. /\ made \in 1..MaxCalls /\ sent[made] \in {0, 1} /\ sent \in [1..MaxCalls -> Nat]
      /\ answer[made] = "none"
  BY <1>2 DEF Inv, TypeOK, SentInv
<1>8. sent' \in [1..MaxCalls -> Nat]
  BY <1>7 DEF Send
<1>9. PICK e \in ServerType : e = server[s]
  BY Typed
<1>10. Moves(s, r, e)
  BY <1>3, <1>4, <1>9, Typed DEF Moves, Send
<1>11. /\ procs' \in Seq(GroupType) /\ Len(procs') >= Len(procs)
       /\ r.group <= Len(procs') /\ e.command <= Len(procs')
  BY <1>3, <1>4, <1>9 DEF Send, Inv, TypeOK
<1>12. ASSUME NEW g \in DOMAIN procs', LiveGroup(g)'
       PROVE  g \in HeldBy(s)' \/ (g \in DOMAIN procs /\ LiveGroup(g) /\ g \notin HeldBy(s))
  BY <1>1, <1>12 DEF HeldBy, Send, LiveGroup
<1>17. MayMove(s) /\ UNCHANGED <<ctx, fresh, made, answer>>
  BY <1>1 DEF Send, MayMove
<1>13. TypeOK' /\ OpsInv' /\ EntriesInv' /\ NothingIsLeftBehind'
  BY <1>1, <1>3, <1>4, <1>5, <1>6, <1>8, <1>9, <1>10, <1>11, <1>12, <1>17, MoveKeeps
<1>14. sent[made] = 0 /\ op[Builtin].at = "none"
  BY <1>1, <1>2 DEF Inv, SentInv, OpsInv
<1>15. op'[s].at = "waiting" /\ op'[Builtin] = op[Builtin]
  BY <1>3, Typed
<1>16. SentInv'
  BY <1>2, <1>7, <1>14, <1>15 DEF Send, Inv, TypeOK, SentInv, control
<1> QED
  BY <1>13, <1>16 DEF Inv

(* A built-in tool is given the call. *)
LEMMA BuiltinStarts ==
    ASSUME Inv, NotRouted, NEW r \in OpType, op' = [op EXCEPT ![Builtin] = r],
           InBuiltin(r), sent' = [sent EXCEPT ![made] = @ + 1],
           r.at \in {"running", "terminating"} => r.group # 0,
           procs' \in Seq(GroupType), Len(procs') >= Len(procs), r.group <= Len(procs'),
           \A g \in DOMAIN procs' :
               LiveGroup(g)' => g \in HeldBy(Builtin)' \/ (g \in DOMAIN procs /\ LiveGroup(g)),
           UNCHANGED <<ctx, fresh, control, server, made, name, answer>>
    PROVE  Inv'
<1> USE OwnerFacts
<1>1. pc = "call" /\ \A o \in Owners : op[o].at = "none"
  BY DEF NotRouted, Idle
<1>2. Fits(Builtin, r)
  BY <1>1 DEF Fits, InBuiltin
<1>3. made \in 1..MaxCalls /\ sent[made] = 0 /\ sent \in [1..MaxCalls -> Nat]
      /\ answer[made] = "none"
  BY <1>1 DEF Inv, TypeOK, SentInv
<1>4. sent' \in [1..MaxCalls -> Nat] /\ sent'[made] = 1
  BY <1>3
<1>5. PICK e \in ServerType : e = Nobody
  BY NobodyType
<1>6. Moves(Builtin, r, e)
  BY DEF Moves
<1>7. HeldBy(Builtin) = {}
  BY <1>1 DEF HeldBy
<1>8. TypeOK' /\ OpsInv' /\ EntriesInv' /\ NothingIsLeftBehind'
  BY <1>1, <1>2, <1>4, <1>6, <1>7, MoveKeeps DEF MayMove, InBuiltin
<1>9. op'[Builtin].at # "none"
  BY Typed DEF InBuiltin
<1>10. SentInv'
  BY <1>1, <1>3, <1>4, <1>9 DEF Inv, TypeOK, SentInv, control
<1> QED
  BY <1>8, <1>10 DEF Inv

(* An answer ends the call.  Nothing is left behind if nobody but the server *)
(* entries had a process, and each managed server is usable or stale.        *)
LEMMA AnswerStep ==
    ASSUME Inv, pc = "call", NEW code \in Codes, Answer(code),
           UNCHANGED <<ctx, fresh, after, next, managed, made, sent>>,
           server' \in [Servers -> ServerType],
           \A s \in Servers : server'[s].command = server[s].command,
           \A s \in managed : server'[s].stale \/ Verified(server'[s]),
           procs' \in Seq(GroupType), Len(procs') = Len(procs),
           \A g \in DOMAIN procs : LiveGroup(g)' =>
               LiveGroup(g) /\ \E s \in Servers : server[s].command = g
    PROVE  Inv'
<1> USE OwnerFacts
<1>1. pc' = "idle" /\ \A o \in Owners : op'[o] = NoOp
  BY DEF Answer
<1>2. NoOp \in OpType /\ NoOp.at = "none" /\ NoOp.then = "none" /\ NoOp.group = 0
  BY DEF NoOp, OpType, Places
<1>3. op' \in [Owners -> OpType]
  BY <1>2 DEF Answer
<1>4. TypeOK'
  <2>1. answer' \in [1..MaxCalls -> {"none"} \cup Codes]
    BY DEF Answer, Inv, TypeOK
  <2>2. \A s \in Servers : server'[s].command <= Len(procs')
    BY DEF Inv, TypeOK
  <2>3. \A o \in Owners : op'[o].group <= Len(procs')
    BY <1>1, <1>2 DEF Inv, TypeOK
  <2> QED
    BY <1>1, <1>3, <2>1, <2>2, <2>3 DEF Inv, TypeOK
<1>5. OpsInv'
  BY <1>1, <1>2 DEF OpsInv, Fits
<1>6. ASSUME NEW s \in Servers
      PROVE  EntryOK(s, server[s], op[s])'
  <2>1. server[s].command # 0 => s \in managed
    BY DEF Inv, EntriesInv, EntryOK
  <2>2. op'[s] = NoOp /\ server'[s].command = server[s].command
    BY <1>1
  <2> QED
    BY <1>1, <1>2, <2>1, <2>2 DEF EntryOK, ConnectedWell, Verified
<1>7. EntriesInv'
  BY <1>1, <1>6 DEF EntriesInv
<1>8. SentInv'
  BY <1>1 DEF Answer, Inv, TypeOK, SentInv
<1>9. NothingIsLeftBehind'
  <2> SUFFICES ASSUME NEW g \in DOMAIN procs', LiveGroup(g)'
               PROVE  pc' \notin {"failed", "closed"} /\ \E s \in Servers : server'[s].command = g
    BY DEF NothingIsLeftBehind
  <2>1. g \in DOMAIN procs
    BY DEF Inv, TypeOK
  <2> QED
    BY <1>1, <2>1
<1> QED
  BY <1>4, <1>5, <1>7, <1>8, <1>9 DEF Inv

(* While the operation under way holds no process, the server entries hold   *)
(* all of them.                                                              *)
LEMMA EntriesHoldAll ==
    ASSUME Inv, pc = "call", NEW g \in DOMAIN procs, LiveGroup(g),
           \A o \in Owners : op[o].at \in {"running", "closing", "terminating"} => op[o].group # g
    PROVE  \E s \in Servers : server[s].command = g
BY DEF Inv, NothingIsLeftBehind

(* The other servers are in order whatever becomes of the one in use.        *)
LEMMA OthersUsable ==
    ASSUME Inv, pc = "call", NEW o \in Owners, op[o].at # "none",
           NEW s \in managed, s # o
    PROVE  server[s].stale \/ Verified(server[s])
<1>1. s \in Servers /\ s \in Owners
  BY OwnerFacts DEF Inv, TypeOK
<1>2. op[s].at = "none"
  BY <1>1 DEF Inv, OpsInv
<1> QED
  BY <1>1, <1>2 DEF Inv, EntriesInv, EntryOK

(* Answers that leave entries and processes as they are.                     *)
LEMMA PlainAnswer ==
    ASSUME Inv, pc = "call", NEW code \in Codes, Answer(code),
           UNCHANGED <<ctx, fresh, after, next, managed, server, procs, made, sent>>,
           \A o \in Owners : op[o].at \notin {"running", "closing", "terminating"},
           \A s \in managed : server[s].stale \/ Verified(server[s])
    PROVE  Inv'
<1>1. /\ server' \in [Servers -> ServerType] /\ procs' \in Seq(GroupType) /\ managed \subseteq Servers
      /\ \A s \in Servers : server'[s].command = server[s].command
  BY DEF Inv, TypeOK
<1>2. \A s \in managed : server'[s].stale \/ Verified(server'[s])
  OBVIOUS
<1>3. \A g \in DOMAIN procs : LiveGroup(g)' =>
          LiveGroup(g) /\ \E s \in Servers : server[s].command = g
  BY EntriesHoldAll DEF LiveGroup
<1> QED
  BY <1>1, <1>2, <1>3, AnswerStep

(* When nothing is under way every managed server is usable or stale.        *)
LEMMA AllUsable ==
    ASSUME Inv, pc \in {"new", "idle", "call"}, \A s \in Servers : op[s].at = "none",
           NEW s \in managed
    PROVE  server[s].stale \/ Verified(server[s])
BY DEF Inv, TypeOK, EntriesInv, EntryOK

(* A refusal leaves the servers alone. *)
LEMMA RefuseStep ==
    ASSUME Inv, Refuse
    PROVE  Inv'
<1>1. pc = "call" /\ \A o \in Owners : op[o].at = "none"
  BY DEF Refuse, NotRouted, Idle
<1>2. PICK code \in Codes : Answer(code)
  BY DEF Refuse, Refusal, Codes, Refused
<1>3. \A s \in managed : server[s].stale \/ Verified(server[s])
  BY <1>1, AllUsable, OwnerFacts
<1> QED
  BY <1>1, <1>2, <1>3, PlainAnswer DEF Refuse

(* A close that failed leaves the session stale. *)
LEMMA ReconnectStep ==
    ASSUME Inv, NEW s \in Servers, Reconnect(s)
    PROVE  Inv'
<1> USE OwnerFacts
<1>1. /\ pc = "call" /\ op[s].at = "done" /\ op[s].then = "reconnect"
      /\ Fits(s, op[s]) /\ EntryOK(s, server[s], op[s])
  BY InOrder DEF Reconnect
<1>2. server[s].stale /\ server[s].command = 0 /\ s \in managed
  BY <1>1 DEF EntryOK, ConnectedWell, Fits
<1>3. CASE op[s].err
  <2>1. \A o \in Owners : o # s => op[o].at = "none"
    BY <1>1 DEF Inv, OpsInv
  <2>2. \A u \in managed : server[u].stale \/ Verified(server[u])
    BY <1>1, <1>2, OthersUsable
  <2>3. Answer("mcp_reconnect_failed")
    BY <1>3 DEF Reconnect
  <2>4. PICK code \in Codes : code = "mcp_reconnect_failed"
    BY DEF Codes, Refused
  <2>5. \A o \in Owners : op[o].at \notin {"running", "closing", "terminating"}
    BY <1>1, <2>1
  <2> QED
    BY <1>1, <2>2, <2>3, <2>4, <2>5, PlainAnswer DEF Reconnect
<1>4. CASE ~op[s].err
  <2>1. PICK r : r = [NoOp EXCEPT !.at = "starting"]
    OBVIOUS
  <2>2. r \in OpType /\ r.at = "starting" /\ r.then = "none" /\ r.group = 0
    BY <2>1 DEF NoOp, OpType, Places
  <2>3. op' = [op EXCEPT ![s] = r]
    BY <1>4, <2>1 DEF Reconnect
  <2>4. Fits(s, r)
    BY <1>1, <1>2, <2>2 DEF Fits, InConnect, InCall
  <2>5. EntryOK(s, server[s], r)
    BY <1>2, <2>2 DEF EntryOK, ConnectedWell
  <2>6. UNCHANGED <<ctx, fresh, control, server, procs, calling>>
    BY <1>4 DEF Reconnect, control, calling
  <2> QED
    BY <1>1, <2>2, <2>3, <2>4, <2>5, <2>6, OpOnlyStep DEF MayMove
<1> QED
  BY <1>3, <1>4, Typed DEF OpType

(* A server whose call or reconnect failed is marked stale.                  *)
LEMMA StaleAnswer ==
    ASSUME Inv, pc = "call", NEW code \in Codes, Answer(code), NEW s \in Servers,
           server' = [server EXCEPT ![s].stale = TRUE],
           UNCHANGED <<ctx, fresh, after, next, managed, procs, made, sent>>,
           op[s].at \in {"waiting", "done"}
    PROVE  Inv'
<1> USE OwnerFacts
<1>1. PICK e : e = [server[s] EXCEPT !.stale = TRUE]
  OBVIOUS
<1>2. server[s] \in ServerType
  BY Typed
<1>3. e \in ServerType /\ e.stale /\ e.command = server[s].command
  BY <1>1, <1>2 DEF ServerType
<1>4. server' = [server EXCEPT ![s] = e]
  BY <1>1, Typed
<1>5. /\ server' \in [Servers -> ServerType] /\ server'[s] = e
      /\ \A u \in Servers : u # s => server'[u] = server[u]
  <2> HIDE OwnerFacts
  <2>1. server \in [Servers -> ServerType]
    BY Typed
  <2> QED
    BY <1>3, <1>4, <2>1
<1>6. \A u \in Servers : server'[u].command = server[u].command
  BY <1>3, <1>5
<1>7. \A u \in managed : server'[u].stale \/ Verified(server'[u])
  <2>1. \A u \in managed : u # s => server[u].stale \/ Verified(server[u])
    BY OthersUsable
  <2> QED
    BY <1>3, <1>5, <2>1 DEF Inv, TypeOK
<1>8. \A o \in Owners : op[o].at \notin {"running", "closing", "terminating"}
  BY DEF Inv, OpsInv
<1>9. \A g \in DOMAIN procs : LiveGroup(g)' =>
          LiveGroup(g) /\ \E u \in Servers : server[u].command = g
  BY <1>8, EntriesHoldAll DEF LiveGroup
<1>10. procs' \in Seq(GroupType) /\ Len(procs') = Len(procs)
  BY DEF Inv, TypeOK
<1> QED
  BY <1>5, <1>6, <1>7, <1>9, <1>10, AnswerStep

(* So does a connect that failed; one that succeeded has verified. *)
LEMMA ReconnectedStep ==
    ASSUME Inv, NEW s \in Servers, Reconnected(s)
    PROVE  Inv'
<1> USE OwnerFacts
<1>1. /\ pc = "call" /\ op[s].at = "done" /\ op[s].then = "connect"
      /\ Fits(s, op[s]) /\ EntryOK(s, server[s], op[s])
  BY InOrder DEF Reconnected
<1>2. CASE op[s].err
  <2>1. PICK code \in Codes : code = "mcp_reconnect_failed"
    BY DEF Codes, Refused
  <2> QED
    BY <1>1, <1>2, <2>1, StaleAnswer DEF Reconnected
<1>3. CASE ~op[s].err
  <2>1. PICK r : r = [NoOp EXCEPT !.at = "sending"]
    OBVIOUS
  <2>2. r \in OpType /\ r.at = "sending" /\ r.then = "none" /\ r.group = 0
    BY <2>1 DEF NoOp, OpType, Places
  <2>3. op' = [op EXCEPT ![s] = r]
    BY <1>3, <2>1 DEF Reconnected
  <2>4. Fits(s, r)
    BY <1>1, <2>2 DEF Fits, InConnect, InCall
  <2>5. EntryOK(s, server[s], r)
    BY <1>1, <1>3, <2>2 DEF EntryOK, ConnectedWell
  <2>6. UNCHANGED <<ctx, fresh, control, server, procs, calling>>
    BY <1>3 DEF Reconnected, control, calling
  <2> QED
    BY <1>1, <2>2, <2>3, <2>4, <2>5, <2>6, OpOnlyStep DEF MayMove
<1> QED
  BY <1>2, <1>3

(* An answer leaves the session as it was. *)
LEMMA RespondsStep ==
    ASSUME Inv, NEW s \in Servers, Responds(s)
    PROVE  Inv'
<1> USE OwnerFacts
<1>1. op[s].at = "waiting" /\ Fits(s, op[s]) /\ EntryOK(s, server[s], op[s])
  BY InOrder DEF Responds
<1>2. pc = "call" /\ s \in managed
  BY <1>1 DEF Fits, InConnect, Held, Inv, TypeOK
<1>3. \A u \in managed : server[u].stale \/ Verified(server[u])
  <2>1. server[s].stale \/ Verified(server[s])
    BY <1>1, <1>2 DEF EntryOK
  <2> QED
    BY <1>1, <1>2, <2>1, OthersUsable
<1>4. \A o \in Owners : op[o].at \notin {"running", "closing", "terminating"}
  BY <1>1, <1>2 DEF Inv, OpsInv
<1>5. PICK code \in Codes : Answer(code)
  BY DEF Responds, Codes, CarriedOut
<1> QED
  BY <1>2, <1>3, <1>4, <1>5, PlainAnswer DEF Responds

(* A failed call leaves it stale. *)
LEMMA CallFailsStep ==
    ASSUME Inv, NEW s \in Servers, CallFails(s)
    PROVE  Inv'
<1> USE OwnerFacts
<1>1. op[s].at = "waiting" /\ Fits(s, op[s])
  BY InOrder DEF CallFails
<1>2. pc = "call"
  BY <1>1 DEF Fits, InConnect, Held, Inv, TypeOK
<1>3. PICK code \in Codes : Answer(code)
  BY DEF CallFails, Codes, Unknown
<1> QED
  BY <1>1, <1>2, <1>3, StaleAnswer DEF CallFails

-----------------------------------------------------------------------------
(* The built-in tools.                                                       *)

(* While a built-in is under way all managed servers are usable or stale.    *)
LEMMA BuiltinUnderWay ==
    ASSUME Inv, op[Builtin].at # "none"
    PROVE  /\ pc = "call" /\ InBuiltin(op[Builtin])
           /\ \A s \in Servers : op[s].at = "none"
           /\ \A s \in managed : server[s].stale \/ Verified(server[s])
<1> USE OwnerFacts
<1>1. Fits(Builtin, op[Builtin])
  BY InOrder
<1>2. pc = "call" /\ InBuiltin(op[Builtin])
  BY <1>1 DEF Fits, Inv, TypeOK
<1>3. \A s \in Servers : op[s].at = "none"
  BY <1>2 DEF Inv, OpsInv
<1> QED
  BY <1>2, <1>3, AllUsable

(* What is left of the group when Wait returns is killed. *)
LEMMA ShellEndsStep ==
    ASSUME Inv, ShellEnds
    PROVE  Inv'
<1> USE OwnerFacts
<1>1. /\ op[Builtin].at = "running" /\ pc = "call" /\ Fits(Builtin, op[Builtin])
      /\ \A s \in Servers : op[s].at = "none"
      /\ \A s \in managed : server[s].stale \/ Verified(server[s])
  BY BuiltinUnderWay, InOrder DEF ShellEnds
<1>2. op[Builtin].group \in DOMAIN procs
  BY <1>1, Typed DEF Inv, TypeOK, Fits, OpType
<1>3. /\ procs' \in Seq(GroupType) /\ Len(procs') = Len(procs)
      /\ \A g \in DOMAIN procs : LiveGroup(g)' => LiveGroup(g) /\ g # op[Builtin].group
  BY <1>2, KilledGroup DEF ShellEnds
<1>4. \A g \in DOMAIN procs : LiveGroup(g)' =>
          LiveGroup(g) /\ \E s \in Servers : server[s].command = g
  BY <1>1, <1>3, EntriesHoldAll
<1>5. PICK code \in Codes : Answer(code)
  BY DEF ShellEnds, Codes, CarriedOut, Results, Unknown
<1>6. /\ server' \in [Servers -> ServerType]
      /\ \A s \in Servers : server'[s].command = server[s].command
      /\ \A s \in managed : server'[s].stale \/ Verified(server'[s])
      /\ UNCHANGED <<ctx, fresh, after, next, managed, made, sent>>
  BY <1>1, Typed DEF ShellEnds
<1> QED
  BY <1>1, <1>3, <1>4, <1>5, <1>6, AnswerStep

(* The other answers of a built-in tool. *)
LEMMA BuiltinAnswer ==
    ASSUME Inv, op[Builtin].at \in {"reading", "done"}, NEW code \in Codes, Answer(code),
           UNCHANGED <<ctx, fresh, after, next, managed, server, procs, made, sent>>
    PROVE  Inv'
<1>1. /\ pc = "call" /\ \A s \in Servers : op[s].at = "none"
      /\ \A s \in managed : server[s].stale \/ Verified(server[s])
  BY BuiltinUnderWay
<1>2. \A o \in Owners : op[o].at \notin {"running", "closing", "terminating"}
  BY <1>1, OwnerFacts
<1> QED
  BY <1>1, <1>2, PlainAnswer

(* Terminate has killed it. *)
LEMMA ShellCancelledStep ==
    ASSUME Inv, ShellCancelled
    PROVE  Inv'
<1>1. PICK code \in Codes : Answer(code)
  BY DEF ShellCancelled, Codes, Unknown
<1> QED
  BY <1>1, BuiltinAnswer DEF ShellCancelled

(* The tools that read hold no group. *)
LEMMA ReadEndsStep ==
    ASSUME Inv, KnowledgeReadEnds \/ KubernetesReadEnds
    PROVE  Inv'
<1>1. PICK code \in Codes : Answer(code)
  BY DEF KnowledgeReadEnds, KubernetesReadEnds, Codes, CarriedOut, Results, Unknown
<1> QED
  BY <1>1, BuiltinAnswer DEF KnowledgeReadEnds, KubernetesReadEnds

(* An answer given before any tool has the call. *)
LEMMA EarlyAnswer ==
    ASSUME Inv, NotRouted, NEW code \in Codes, Answer(code),
           UNCHANGED <<ctx, fresh, after, next, managed, server, procs, made, sent>>
    PROVE  Inv'
<1>1. pc = "call" /\ \A o \in Owners : op[o].at = "none"
  BY DEF NotRouted, Idle
<1>2. \A s \in managed : server[s].stale \/ Verified(server[s])
  BY <1>1, AllUsable, OwnerFacts
<1> QED
  BY <1>1, <1>2, PlainAnswer

(* They count as given when they begin. *)
LEMMA BeginReadStep ==
    ASSUME Inv, BeginRead
    PROVE  Inv'
<1> USE OwnerFacts
<1>1. CASE Answer("context") /\ UNCHANGED sent
  <2>1. PICK code \in Codes : code = "context"
    BY DEF Codes, Unknown
  <2> QED
    BY <1>1, <2>1, EarlyAnswer DEF BeginRead
<1>2. CASE /\ op' = [op EXCEPT ![Builtin].at = "reading"]
           /\ sent' = [sent EXCEPT ![made] = @ + 1] /\ UNCHANGED <<pc, answer, name>>
  <2>1. /\ op' = [op EXCEPT ![Builtin] = op'[Builtin]] /\ op'[Builtin] \in OpType
        /\ op'[Builtin].at = "reading" /\ op'[Builtin].group = op[Builtin].group
        /\ op'[Builtin].then = op[Builtin].then
    BY <1>2, GoesOn DEF Places
  <2>2. PICK r \in OpType : r = op'[Builtin]
    BY <2>1
  <2>3. op[Builtin].at = "none" /\ Fits(Builtin, op[Builtin]) /\ NotRouted
    BY InOrder DEF BeginRead, NotRouted, Idle
  <2>4. InBuiltin(r)
    BY <2>1, <2>2, <2>3 DEF InBuiltin, Fits
  <2>5. procs' \in Seq(GroupType) /\ Len(procs') >= Len(procs) /\ r.group <= Len(procs')
    BY <2>1, <2>2 DEF BeginRead, Inv, TypeOK
  <2>6. \A g \in DOMAIN procs' : LiveGroup(g)' => g \in DOMAIN procs /\ LiveGroup(g)
    BY DEF BeginRead, LiveGroup
  <2>7. UNCHANGED <<ctx, fresh, control, server, made, name, answer>>
    BY <1>2 DEF BeginRead, control
  <2> QED
    BY <1>2, <2>1, <2>2, <2>3, <2>4, <2>5, <2>6, <2>7, BuiltinStarts
<1> QED
  BY <1>1, <1>2 DEF BeginRead

(* The shell's group is held by its operation from the start. *)
LEMMA StartShellStep ==
    ASSUME Inv, StartShell
    PROVE  Inv'
<1> USE OwnerFacts
<1>1. CASE Answer("shell_start_failed") /\ UNCHANGED <<procs, sent>>
  <2>1. PICK code \in Codes : code = "shell_start_failed"
    BY DEF Codes, Refused
  <2> QED
    BY <1>1, <2>1, EarlyAnswer DEF StartShell
<1>2. CASE /\ procs' = Append(procs, NewGroup)
           /\ op' = [op EXCEPT ![Builtin] = [NoOp EXCEPT !.at = "running",
                                                         !.group = Len(procs) + 1]]
           /\ sent' = [sent EXCEPT ![made] = @ + 1]
           /\ UNCHANGED <<pc, answer, name>>
  <2>1. procs \in Seq(GroupType) /\ Len(procs) \in Nat
    BY DEF Inv, TypeOK
  <2>2. PICK r : r = [NoOp EXCEPT !.at = "running", !.group = Len(procs) + 1]
    OBVIOUS
  <2>3. r \in OpType /\ r.at = "running" /\ r.then = "none" /\ r.group = Len(procs) + 1
    <3>1. r = [at |-> "running", group |-> Len(procs) + 1, ctx |-> "run", then |-> "none",
               err |-> FALSE]
      BY <2>2 DEF NoOp
    <3>2. Len(procs) + 1 \in Nat
      BY <2>1
    <3> QED
      BY <3>1, <3>2 DEF OpType, Places
  <2>4. NewGroup \in GroupType
    BY DEF NewGroup, GroupType
  <2>5. /\ procs' \in Seq(GroupType) /\ Len(procs') = Len(procs) + 1
        /\ \A g \in DOMAIN procs : procs'[g] = procs[g]
        /\ \A g \in DOMAIN procs' : g \in DOMAIN procs \/ g = Len(procs) + 1
    BY <1>2, <2>1, <2>4
  <2>6. op'[Builtin] = r /\ op' = [op EXCEPT ![Builtin] = r]
    BY <1>2, <2>2, Typed
  <2>7. ASSUME NEW g \in DOMAIN procs', LiveGroup(g)'
        PROVE  g \in HeldBy(Builtin)' \/ (g \in DOMAIN procs /\ LiveGroup(g))
    <3>1. CASE g \in DOMAIN procs
      BY <2>5, <2>7, <3>1 DEF LiveGroup
    <3>2. CASE g = Len(procs) + 1
      BY <2>3, <2>6, <2>7, <3>2 DEF HeldBy
    <3> QED
      BY <2>5, <3>1, <3>2
  <2>8. /\ InBuiltin(r) /\ r.group # 0 /\ r.group <= Len(procs') /\ Len(procs') >= Len(procs)
    BY <2>1, <2>3, <2>5 DEF InBuiltin
  <2>9. UNCHANGED <<ctx, fresh, control, server, made, name, answer>> /\ NotRouted
    BY <1>2 DEF StartShell, control
  <2> QED
    BY <1>2, <2>3, <2>5, <2>6, <2>7, <2>8, <2>9, BuiltinStarts
<1> QED
  BY <1>1, <1>2 DEF StartShell

-----------------------------------------------------------------------------
(* New and Close.                                                            *)

(* The idle operation. *)
LEMMA NoOpFacts ==
    NoOp \in OpType /\ NoOp.at = "none" /\ NoOp.then = "none" /\ NoOp.group = 0
BY DEF NoOp, OpType, Places

(* The record of an operation that closes a server side by side with others. *)
LEMMA ClosingFacts ==
    ASSUME Inv, NEW s \in Servers
    PROVE  LET r == Closing(s, "fresh", "close")
           IN  /\ r \in OpType /\ r.at \in {"closing", "terminating", "done"}
               /\ r.then = "close" /\ r.group = server[s].command
               /\ r.group # 0 => r.at # "done"
               /\ r.at = "terminating" => r.group # 0
<1>1. server[s] \in ServerType
  BY Typed
<1> QED
  BY <1>1 DEF Closing, OpType, Places, ServerType

(* An entry without its session and command. *)
LEMMA ForgottenFacts ==
    ASSUME Inv, NEW s \in Servers
    PROVE  Forgotten(s) \in ServerType /\ Forgotten(s).command = 0
<1>1. server[s] \in ServerType
  BY Typed
<1> QED
  BY <1>1 DEF Forgotten, ServerType

(* Close takes over every process there is: no operation has one, and no     *)
(* server that is not closed.                                                *)
LEMMA CloseAllStep ==
    ASSUME Inv, NEW members \in SUBSET Servers, NEW then \in {"failed", "closed"},
           CloseAll(members, then), managed' \in SUBSET Servers,
           next' \in 1..(Len(Order) + 1), pc \in {"new", "idle"},
           UNCHANGED <<ctx, procs, calling>>,
           \A s \in Servers : server[s].command # 0 => s \in members,
           \A o \in Owners : op[o].at \notin {"running", "closing", "terminating"}
    PROVE  Inv'
<1> USE OwnerFacts
<1>1. /\ pc' = "closing" /\ after' = then /\ fresh' = "live"
      /\ \A o \in Owners : op'[o] = IF o \in members THEN Closing(o, "fresh", "close") ELSE NoOp
      /\ \A s \in Servers : server'[s] = IF s \in members THEN Forgotten(s) ELSE server[s]
  BY DEF CloseAll
<1>2. op' \in [Owners -> OpType]
  BY ClosingFacts, NoOpFacts DEF CloseAll
<1>3. server' \in [Servers -> ServerType]
  BY ForgottenFacts, Typed DEF CloseAll
<1>4. \A s \in Servers : server'[s].command = 0
  BY <1>1, ForgottenFacts
<1>5. \A o \in Owners :
          /\ op'[o].at \in {"none", "closing", "terminating", "done"}
          /\ op'[o].at # "none" => o \in Servers /\ op'[o].then = "close"
          /\ op'[o].at = "none" => op'[o].then = "none"
          /\ op'[o].at = "terminating" => op'[o].group # 0
          /\ op'[o].then \in {"none", "close"}
  BY <1>1, ClosingFacts, NoOpFacts
<1>6. \A o \in Owners : op'[o].group <= Len(procs)
  <2>1. Len(procs) \in Nat /\ \A s \in Servers : server[s].command <= Len(procs)
    BY DEF Inv, TypeOK
  <2>2. \A o \in Owners : op'[o].group = 0 \/ (o \in Servers /\ op'[o].group = server[o].command)
    BY <1>1, ClosingFacts, NoOpFacts
  <2> QED
    BY <2>1, <2>2
<1>7. TypeOK'
  <2>1. \A s \in Servers : server'[s].command <= Len(procs')
    BY <1>4 DEF Inv, TypeOK
  <2> QED
    BY <1>1, <1>2, <1>3, <1>6, <2>1 DEF Inv, TypeOK, calling
<1>8. OpsInv'
  <2>1. \A o \in Owners : Fits(o, op[o])'
    BY <1>1, <1>5 DEF Fits, Held
  <2> QED
    BY <1>1, <2>1 DEF OpsInv
<1>9. EntriesInv'
  <2>1. \A s \in Servers : EntryOK(s, server[s], op[s])'
    BY <1>1, <1>4, <1>5 DEF EntryOK, ConnectedWell
  <2> QED
    BY <1>1, <2>1 DEF EntriesInv
<1>10. SentInv'
  BY <1>1 DEF Inv, SentInv, calling
<1>11. NothingIsLeftBehind'
  <2> SUFFICES ASSUME NEW g \in DOMAIN procs', LiveGroup(g)'
               PROVE  /\ pc' \notin {"failed", "closed"}
                      /\ \E o \in Owners : op'[o].group = g /\ op'[o].at \in {"closing", "terminating"}
    BY DEF NothingIsLeftBehind
  <2>1. g \in DOMAIN procs /\ LiveGroup(g) /\ g # 0
    BY DEF LiveGroup, Inv, TypeOK
  <2>2. PICK s \in Servers : server[s].command = g
    BY <2>1 DEF Inv, NothingIsLeftBehind
  <2>3. s \in members /\ s \in Owners
    BY <2>1, <2>2
  <2>4. op'[s].group = g /\ op'[s].at \in {"closing", "terminating"}
    BY <1>1, <2>1, <2>2, <2>3, ClosingFacts
  <2> QED
    BY <1>1, <2>3, <2>4
<1> QED
  BY <1>7, <1>8, <1>9, <1>10, <1>11 DEF Inv

(* Close hands every managed server's command to an operation. *)
LEMMA CloseStep ==
    ASSUME Inv, Close
    PROVE  Inv'
<1> USE OwnerFacts
<1>1. pc = "idle" /\ \A o \in Owners : op[o].at = "none"
  BY DEF Close, Inv, OpsInv, Fits
<1>2. \A s \in Servers : server[s].command # 0 => s \in managed
  BY <1>1 DEF Inv, EntriesInv, EntryOK
<1>3. managed \in SUBSET Servers /\ managed' \in SUBSET Servers /\ next' \in 1..(Len(Order) + 1)
  BY DEF Close, Inv, TypeOK
<1>4. PICK then \in {"failed", "closed"} : then = "closed"
  OBVIOUS
<1>5. CloseAll(managed, then)
  BY <1>4 DEF Close
<1>6. PICK members \in SUBSET Servers : members = managed
  BY <1>3
<1> QED
  BY <1>1, <1>2, <1>3, <1>5, <1>6, CloseAllStep DEF Close

(* When all of them are done, no group has anybody left. *)
LEMMA CloseEndsStep ==
    ASSUME Inv, CloseEnds
    PROVE  Inv'
<1> USE OwnerFacts
<1>1. /\ pc = "closing" /\ pc' \in {"failed", "closed"}
      /\ \A o \in Owners : op[o].at \in {"none", "done"} /\ op'[o] = NoOp
  BY DEF CloseEnds, Inv, TypeOK
<1>2. \A s \in Servers : server[s].command = 0
  BY <1>1 DEF Inv, EntriesInv, EntryOK
<1>3. \A g \in DOMAIN procs : ~LiveGroup(g)
  <2> SUFFICES ASSUME NEW g \in DOMAIN procs, LiveGroup(g)
               PROVE  FALSE
    OBVIOUS
  <2>1. g # 0
    BY DEF Inv, TypeOK
  <2> QED
    BY <1>1, <1>2, <2>1 DEF Inv, NothingIsLeftBehind
<1>4. op' \in [Owners -> OpType]
  BY NoOpFacts DEF CloseEnds
<1>5. TypeOK'
  BY <1>1, <1>4, NoOpFacts DEF CloseEnds, Inv, TypeOK, calling
<1>6. OpsInv'
  BY <1>1, NoOpFacts DEF OpsInv, Fits
<1>7. EntriesInv'
  <2>1. \A s \in Servers : EntryOK(s, server[s], op[s])'
    BY <1>1, <1>2, NoOpFacts DEF CloseEnds, EntryOK, ConnectedWell
  <2> QED
    BY <1>1, <2>1 DEF EntriesInv
<1>8. SentInv'
  BY <1>1 DEF CloseEnds, Inv, SentInv, calling
<1>9. NothingIsLeftBehind'
  BY <1>3 DEF CloseEnds, NothingIsLeftBehind, LiveGroup
<1> QED
  BY <1>5, <1>6, <1>7, <1>8, <1>9 DEF Inv

(* New goes on to the next server, finishes, or closes the ones it has. *)
LEMMA ConnectedStep ==
    ASSUME Inv, Connected
    PROVE  Inv'
<1> USE OwnerFacts
<1> DEFINE s == Order[next]
           last == next = Len(Order)
<1>1. /\ pc = "new" /\ next \in 1..Len(Order) /\ s \in Servers
      /\ op[s].at = "done" /\ op[s].then = "connect"
  BY DEF Connected, Inv, TypeOK
<1>2. managed' = IF op[s].err THEN managed ELSE managed \cup {s}
  BY DEF Connected
<1>3. managed \subseteq Servers /\ managed' \subseteq Servers
  BY <1>1, <1>2 DEF Inv, TypeOK
<1>4. \A o \in Owners : o # s => op[o].at = "none"
  BY <1>1 DEF Inv, OpsInv
<1>5. \A u \in Servers : server[u].command # 0 => u \in managed'
  <2> SUFFICES ASSUME NEW u \in Servers, server[u].command # 0
               PROVE  u \in managed'
    OBVIOUS
  <2>1. EntryOK(u, server[u], op[u])
    BY DEF Inv, EntriesInv
  <2> QED
    BY <1>1, <1>2, <2>1 DEF EntryOK, ConnectedWell
<1>6. CASE CloseAll(managed', "failed") /\ UNCHANGED next
  <2>1. PICK members \in SUBSET Servers : members = managed'
    BY <1>3
  <2>2. PICK then \in {"failed", "closed"} : then = "failed"
    OBVIOUS
  <2>3. CloseAll(members, then)
    BY <1>6, <2>1, <2>2
  <2>4. \A o \in Owners : op[o].at \notin {"running", "closing", "terminating"}
    BY <1>1, <1>4
  <2>5. UNCHANGED <<ctx, procs, calling>> /\ next' \in 1..(Len(Order) + 1)
    BY <1>1, <1>6 DEF Connected
  <2> QED
    BY <1>1, <1>3, <1>5, <2>1, <2>3, <2>4, <2>5, CloseAllStep
<1>7. CASE /\ next' = next + 1 /\ ~op[s].err
           /\ pc' = IF last THEN "idle" ELSE "new"
           /\ op' = [o \in Owners |-> IF ~last /\ o = Order[next + 1]
                                      THEN [NoOp EXCEPT !.at = "starting"] ELSE NoOp]
           /\ UNCHANGED <<server, after, fresh>>
  <2> DEFINE r == [NoOp EXCEPT !.at = "starting"]
  <2>1. r \in OpType /\ r.at = "starting" /\ r.then = "none" /\ r.group = 0
    BY DEF NoOp, OpType, Places
  <2> HIDE DEF r
  <2>2. \A o \in Owners : op'[o] = IF ~last /\ o = Order[next + 1] THEN r ELSE NoOp
    BY <1>7 DEF r
  <2>3. op' \in [Owners -> OpType]
    BY <1>7, <2>1, NoOpFacts DEF r
  <2>4. managed' = managed \cup {s}
    BY <1>2, <1>7
  <2>5. UNCHANGED <<ctx, fresh, after, server, procs, calling>>
    BY <1>7 DEF Connected
  <2>6. next' \in 1..(Len(Order) + 1) /\ (pc' = "new" => next' <= Len(Order) /\ ~last)
    BY <1>1, <1>7
  <2>7. \A o \in Owners : op'[o].group <= Len(procs)
    BY <2>1, <2>2, NoOpFacts DEF Inv, TypeOK
  <2>8. TypeOK'
    BY <1>3, <1>7, <2>3, <2>5, <2>6, <2>7 DEF Inv, TypeOK, calling
  <2>9. OpsInv'
    <3>1. \A o \in Owners : Fits(o, op[o])'
      BY <1>7, <2>1, <2>2, <2>6, NoOpFacts DEF Fits, InConnect
    <3>2. \A o, p \in Owners : (op'[o].at # "none" /\ op'[p].at # "none") => o = p
      BY <2>2, NoOpFacts
    <3> QED
      BY <3>1, <3>2 DEF OpsInv
  <2>10. pc' = "new" => \A u \in managed' : \E i \in 1..(next' - 1) : u = Order[i]
    BY <1>1, <1>7, <2>4 DEF Inv, EntriesInv
  <2>11. ASSUME NEW u \in Servers
         PROVE  EntryOK(u, server[u], op[u])'
    <3>1. EntryOK(u, server[u], op[u])
      BY DEF Inv, EntriesInv
    <3>2. u \in managed' => server[u].stale \/ Verified(server[u])
      BY <1>1, <1>4, <1>7, <2>4, <3>1 DEF EntryOK, ConnectedWell
    <3>3. CASE op'[u] = NoOp
      BY <1>5, <1>7, <2>5, <3>2, <3>3, NoOpFacts DEF EntryOK, ConnectedWell, Verified
    <3>4. CASE op'[u] # NoOp
      <4>1. ~last /\ u = Order[next + 1] /\ op'[u] = r /\ next + 1 <= Len(Order) /\ pc' = "new"
        BY <1>1, <1>7, <2>2, <3>4
      <4>2. u \notin managed'
        <5>1. ASSUME u \in managed'
              PROVE  FALSE
          <6>1. PICK i \in 1..next : u = Order[i]
            BY <1>1, <1>7, <2>10, <4>1, <5>1
          <6>2. i \in 1..Len(Order) /\ next + 1 \in 1..Len(Order) /\ Order[i] = Order[next + 1]
            BY <1>1, <4>1, <6>1
          <6>3. i = next + 1
            BY <6>2, OwnerFacts
          <6> QED
            BY <1>1, <6>1, <6>3
        <5> QED
          BY <5>1
      <4>3. server[u].command = 0
        BY <1>5, <4>2
      <4> QED
        BY <2>1, <2>5, <4>1, <4>2, <4>3 DEF EntryOK, ConnectedWell
    <3> QED
      BY <3>3, <3>4
  <2>12. SentInv'
    BY <1>7, <2>5 DEF Inv, SentInv, calling
  <2>13. NothingIsLeftBehind'
    <3> SUFFICES ASSUME NEW g \in DOMAIN procs', LiveGroup(g)'
                 PROVE  /\ pc' \notin {"failed", "closed"}
                        /\ \E u \in Servers : server'[u].command = g
      BY DEF NothingIsLeftBehind
    <3>1. g \in DOMAIN procs /\ LiveGroup(g)
      BY <2>5 DEF LiveGroup
    <3>2. \A o \in Owners : op[o].at \notin {"running", "closing", "terminating"}
      BY <1>1, <1>4
    <3>3. \E u \in Servers : server[u].command = g
      BY <3>1, <3>2 DEF Inv, NothingIsLeftBehind
    <3> QED
      BY <1>7, <2>5, <3>3
  <2> QED
    BY <2>8, <2>9, <2>10, <2>11, <2>12, <2>13 DEF Inv, EntriesInv
<1> QED
  BY <1>6, <1>7 DEF Connected

(* A call starts with nothing given. *)
LEMMA CallStep ==
    ASSUME Inv, Call
    PROVE  Inv'
<1> USE OwnerFacts
<1>1. /\ pc = "idle" /\ pc' = "call" /\ made' = made + 1 /\ made \in 0..(MaxCalls - 1)
      /\ UNCHANGED <<ctx, fresh, after, next, managed, server, op, procs, sent, answer>>
  BY DEF Call, Inv, TypeOK
<1>2. \A o \in Owners : op[o].at = "none" /\ op[o].then = "none"
  BY <1>1 DEF Inv, OpsInv, Fits
<1>3. TypeOK'
  BY <1>1 DEF Inv, TypeOK
<1>4. OpsInv'
  BY <1>1, <1>2 DEF OpsInv, Fits
<1>5. EntriesInv'
  <2>1. \A s \in Servers : EntryOK(s, server[s], op[s])'
    BY <1>1, <1>2 DEF Inv, EntriesInv, EntryOK, ConnectedWell
  <2> QED
    BY <1>1, <2>1 DEF EntriesInv
<1>6. SentInv'
  BY <1>1, <1>2 DEF Inv, TypeOK, SentInv
<1>7. NothingIsLeftBehind'
  BY <1>1, <1>2 DEF Inv, NothingIsLeftBehind, LiveGroup
<1> QED
  BY <1>3, <1>4, <1>5, <1>6, <1>7 DEF Inv

-----------------------------------------------------------------------------
(* Processes and contexts.                                                   *)

(* A process group changes beside the runtime, but nobody comes to life.     *)
LEMMA GroupStep ==
    ASSUME Inv, NEW k \in DOMAIN procs, NEW q \in GroupType, procs' = [procs EXCEPT ![k] = q],
           (q.leader = "alive" \/ q.others \cap {"silent", "holding"} # {}) => LiveGroup(k),
           UNCHANGED <<ctx, fresh, control, server, op, calling>>
    PROVE  Inv'
<1>1. procs \in Seq(GroupType)
  BY DEF Inv, TypeOK
<1>2. /\ procs' \in Seq(GroupType) /\ Len(procs') = Len(procs) /\ DOMAIN procs' = DOMAIN procs
      /\ procs'[k] = q /\ \A g \in DOMAIN procs : g # k => procs'[g] = procs[g]
  BY <1>1
<1>3. \A g \in DOMAIN procs : LiveGroup(g)' => LiveGroup(g)
  BY <1>2 DEF LiveGroup
<1>4. TypeOK'
  BY <1>2 DEF Inv, TypeOK, control, calling
<1>5. OpsInv'
  BY DEF Inv, OpsInv, Fits, control
<1>6. EntriesInv'
  BY DEF Inv, EntriesInv, EntryOK, control
<1>7. SentInv'
  BY DEF Inv, SentInv, control, calling
<1>8. NothingIsLeftBehind'
  BY <1>2, <1>3 DEF Inv, NothingIsLeftBehind, control
<1> QED
  BY <1>4, <1>5, <1>6, <1>7, <1>8 DEF Inv

(* A process forks only while its leader lives. *)
LEMMA ForkStep ==
    ASSUME Inv, Fork
    PROVE  Inv'
<1>1. PICK g \in DOMAIN procs, k \in Kinds :
          procs[g].leader = "alive" /\ procs' = [procs EXCEPT ![g].others = {k}]
  BY DEF Fork
<1>2. procs \in Seq(GroupType) /\ procs[g] \in GroupType
  BY DEF Inv, TypeOK
<1>3. PICK q : q = [procs[g] EXCEPT !.others = {k}]
  OBVIOUS
<1>4. q \in GroupType
  BY <1>2, <1>3 DEF GroupType
<1>5. procs' = [procs EXCEPT ![g] = q]
  BY <1>1, <1>2, <1>3
<1>6. LiveGroup(g)
  BY <1>1 DEF LiveGroup
<1> QED
  BY <1>4, <1>5, <1>6, GroupStep DEF Fork

(* A death adds nobody. *)
LEMMA LeaderDiesStep ==
    ASSUME Inv, NEW g \in 1..Len(procs), LeaderDies(g)
    PROVE  Inv'
<1>1. procs \in Seq(GroupType) /\ procs[g] \in GroupType /\ g \in DOMAIN procs
  BY DEF Inv, TypeOK
<1>2. PICK q : q = [procs[g] EXCEPT !.leader = "dead"]
  OBVIOUS
<1>3. q \in GroupType /\ q.leader = "dead" /\ q.others = procs[g].others
  BY <1>1, <1>2 DEF GroupType
<1>4. procs' = [procs EXCEPT ![g] = q]
  BY <1>1, <1>2 DEF LeaderDies
<1>5. q.others \cap {"silent", "holding"} # {} => LiveGroup(g)
  BY <1>3 DEF LiveGroup
<1> QED
  BY <1>1, <1>3, <1>4, <1>5, GroupStep DEF LeaderDies

(* The contexts are no part of the order. *)
LEMMA ContextStep ==
    ASSUME Inv, ctx' \in {"live", "ended"}, fresh' \in {"live", "ended"},
           UNCHANGED <<control, server, op, procs, calling>>
    PROVE  Inv'
<1> USE DEF Inv, control, calling
<1>1. TypeOK'
  BY DEF TypeOK
<1>2. OpsInv'
  BY DEF OpsInv, Fits
<1>3. EntriesInv'
  BY DEF EntriesInv, EntryOK
<1>4. SentInv'
  BY DEF SentInv
<1>5. NothingIsLeftBehind'
  BY DEF NothingIsLeftBehind, LiveGroup
<1> QED
  BY <1>1, <1>2, <1>3, <1>4, <1>5

-----------------------------------------------------------------------------
(* The theorems.                                                             *)

(* The executor starts in order, *)
LEMMA InvInit == Init => Inv
<1> SUFFICES ASSUME Init
             PROVE  Inv
  OBVIOUS
<1> USE OwnerFacts
<1>1. Order \in Seq(Servers) /\ (Order # <<>> => 1 <= Len(Order))
  BY ToolExecutorAssumption
<1>2. NoOp \in OpType /\ NoOp.at = "none" /\ NoOp.then = "none" /\ NoOp.group = 0
  BY NoOpFacts
<1> DEFINE r == [NoOp EXCEPT !.at = "starting"]
<1>3. r \in OpType /\ r.at = "starting" /\ r.then = "none" /\ r.group = 0
  BY DEF NoOp, OpType, Places
<1> HIDE DEF r
<1>4. \A o \in Owners : op[o] = IF Order # <<>> /\ o = Order[1] THEN r ELSE NoOp
  BY DEF Init, r
<1>5. op \in [Owners -> OpType]
  BY <1>2, <1>3 DEF Init, r
<1>6. \A s \in Servers : server[s] = Nobody
  BY DEF Init
<1>7. server \in [Servers -> ServerType]
  BY NobodyType DEF Init
<1>8. Nobody.command = 0 /\ ~Nobody.session /\ ~Nobody.stale
  BY DEF Nobody
<1>9. procs = <<>> /\ Len(procs) = 0 /\ DOMAIN procs = {} /\ procs \in Seq(GroupType)
  BY DEF Init
<1>10. TypeOK
  <2>1. \A s \in Servers : server[s].command <= Len(procs)
    BY <1>6, <1>8, <1>9
  <2>2. \A o \in Owners : op[o].group <= Len(procs)
    BY <1>2, <1>3, <1>4, <1>9
  <2>3. next \in 1..(Len(Order) + 1) /\ (pc = "new" => next <= Len(Order))
    BY <1>1 DEF Init
  <2>4. sent \in [1..MaxCalls -> Nat] /\ answer \in [1..MaxCalls -> {"none"} \cup Codes]
    BY DEF Init
  <2>5. ctx = "live" /\ fresh = "live" /\ pc \in {"idle", "new"} /\ after = "failed" /\ managed = {} /\ made = 0
    BY DEF Init
  <2> QED
    BY <1>5, <1>7, <1>9, <2>1, <2>2, <2>3, <2>4, <2>5 DEF TypeOK
<1>11. OpsInv
  <2>1. \A o \in Owners : Fits(o, op[o])
    BY <1>2, <1>3, <1>4 DEF Init, Fits, InConnect
  <2>2. \A o, p \in Owners : (op[o].at # "none" /\ op[p].at # "none") => o = p
    BY <1>2, <1>4
  <2> QED
    BY <2>1, <2>2 DEF OpsInv
<1>12. EntriesInv
  <2>1. \A s \in Servers : EntryOK(s, server[s], op[s])
    BY <1>2, <1>3, <1>4, <1>6, <1>8 DEF Init, EntryOK, ConnectedWell
  <2> QED
    BY <2>1 DEF Init, EntriesInv
<1>13. SentInv
  BY DEF Init, SentInv
<1>14. NothingIsLeftBehind
  BY <1>9 DEF NothingIsLeftBehind
<1> QED
  BY <1>10, <1>11, <1>12, <1>13, <1>14 DEF Inv

(* every step keeps it so, *)
LEMMA InvNext == Inv /\ [Next]_vars => Inv'
<1> SUFFICES ASSUME Inv, [Next]_vars
             PROVE  Inv'
  OBVIOUS
<1>1. ASSUME NEW o \in Owners, Own(o)
      PROVE  Inv'
  <2>1. CASE Kill(o) \/ Await(o)
    BY <2>1, KillStep, AwaitStep
  <2>2. CASE o \in Servers /\ (GiveUpClosing(o) \/ Start(o) \/ Disconnected(o))
    BY <2>2, SessionEndsStep, StartStep, DisconnectedStep
  <2>3. CASE o \in Servers /\ (Route(o) \/ Reconnect(o) \/ Reconnected(o) \/ Send(o))
    BY <2>3, RouteStep, ReconnectStep, ReconnectedStep, SendStep
  <2> QED
    BY <1>1, <2>1, <2>2, <2>3 DEF Own
<1>2. CASE Thread
  BY <1>2, ConnectedStep, CloseEndsStep, RefuseStep, BeginReadStep, StartShellStep,
     CancelShellStep, ShellCancelledStep DEF Thread
<1>3. CASE Call \/ Close
  BY <1>3, CallStep, CloseStep
<1>4. ASSUME NEW s \in Servers, Peer(s) \/ SessionCloses(s)
      PROVE  Inv'
  BY <1>4, InitializeStep, InitializeFailsStep, DiscoverStep, DiscoverFailsStep, RespondsStep,
     CallFailsStep, SessionEndsStep DEF Peer
<1>5. CASE ShellEnds \/ KnowledgeReadEnds \/ KubernetesReadEnds
  BY <1>5, ShellEndsStep, ReadEndsStep
<1>6. CASE Fork \/ \E g \in 1..Len(procs) : LeaderDies(g)
  BY <1>6, ForkStep, LeaderDiesStep
<1>7. CASE EndContext \/ EndFresh
  BY <1>7, ContextStep DEF EndContext, EndFresh, Inv, TypeOK
<1>8. CASE UNCHANGED vars
  BY <1>8, ContextStep DEF vars, Inv, TypeOK, control, calling
<1> QED
  BY <1>1, <1>2, <1>3, <1>4, <1>5, <1>6, <1>7, <1>8 DEF Next

(* and it is so always. *)
LEMMA Invariance == Spec => []Inv
BY InvInit, InvNext, PTL DEF Spec

(* The variables keep their types: the servers' entries, the operation of    *)
(* every server and of the built-ins, the processes and the calls.           *)
THEOREM TypeCorrect == Spec => []TypeOK
<1>1. Inv => TypeOK
  BY DEF Inv
<1> QED
  BY Invariance, <1>1, PTL

(* No process group with somebody left in it is ever forgotten, whichever    *)
(* step of connect, closeSession, Close or the shell tool fails and whichever *)
(* context ends, and New and Close return without one.                       *)
THEOREM NothingLeftBehind == Spec => []NothingIsLeftBehind
<1>1. Inv => NothingIsLeftBehind
  BY DEF Inv
<1> QED
  BY Invariance, <1>1, PTL

(* A call goes out only on a session that offers the tools frozen at the     *)
(* start, however often the server was reconnected.                          *)
THEOREM SessionsVerified == Spec => []CallsUseVerifiedSessions
<1>1. Inv => CallsUseVerifiedSessions
  <2> SUFFICES ASSUME Inv
               PROVE  CallsUseVerifiedSessions
    OBVIOUS
  <2>1. ASSUME NEW s \in Servers, op[s].at = "sending"
        PROVE  server[s].session /\ ~server[s].stale /\ server[s].verified = server[s].frozen
    BY <2>1 DEF Inv, EntriesInv, EntryOK, Verified
  <2>2. ASSUME pc = "idle", NEW s \in managed
        PROVE  server[s].session \/ server[s].stale
    <3>1. \A u \in Servers : op[u].at = "none"
      BY <2>2, OwnerFacts DEF Inv, OpsInv, Fits
    <3> QED
      BY <2>2, <3>1, AllUsable DEF Verified
  <2> QED
    BY <2>1, <2>2 DEF CallsUseVerifiedSessions
<1> QED
  BY Invariance, <1>1, PTL

-----------------------------------------------------------------------------
(* The executor carries out its promise to the engine. *)

Worked == IF pc = "call" THEN made ELSE 0

(* Whether the call under way has been given to a tool, told from where the  *)
(* operation is.                                                             *)
LEMMA GivenOrNot ==
    ASSUME Inv, pc = "call"
    PROVE  /\ made \in 1..MaxCalls /\ made # 0 /\ sent[made] \in {0, 1}
           /\ op[Builtin].at # "none" => sent[made] = 1
           /\ \A s \in Servers : op[s].at \notin {"none", "waiting"} => sent[made] = 0
           /\ NotRouted => sent[made] = 0
<1> USE OwnerFacts
<1>1. made \in 1..MaxCalls /\ made # 0 /\ sent[made] \in {0, 1}
  BY DEF Inv, TypeOK, SentInv
<1>2. op[Builtin].at # "none" => sent[made] = 1
  BY DEF Inv, SentInv
<1>3. \A o, p \in Owners : (op[o].at # "none" /\ op[p].at # "none") => o = p
  BY DEF Inv, OpsInv
<1>4. sent[made] = 1 => op[Builtin].at # "none" \/ \E s \in Servers : op[s].at = "waiting"
  BY DEF Inv, SentInv
<1>5. \A s \in Servers : op[s].at \notin {"none", "waiting"} => sent[made] = 0
  BY <1>1, <1>3, <1>4
<1>6. NotRouted => sent[made] = 0
  BY <1>1, <1>4 DEF NotRouted, Idle
<1> QED
  BY <1>1, <1>2, <1>5, <1>6

(* A call to a server is under way only while the engine waits for it.       *)
LEMMA OnlyInCall ==
    ASSUME Inv, NEW s \in Servers, op[s].at \in {"sending", "waiting"}
    PROVE  pc = "call"
<1>1. Fits(s, op[s])
  BY OwnerFacts DEF Inv, OpsInv
<1> QED
  BY <1>1 DEF Fits, InConnect, Held, Inv, TypeOK

(* An answer that is true to what was given is one of the promise. *)
LEMMA AnswerMaps ==
    ASSUME Inv, pc = "call", NEW a \in Codes, Answer(a), UNCHANGED <<made, sent>>,
           a \in CarriedOut => sent[made] = 1, a \in Refused => sent[made] = 0
    PROVE  Promise!Next
<1>1. Worked = made /\ Worked' = 0 /\ made # 0
  BY GivenOrNot DEF Worked, Answer
<1>2. answer' = [answer EXCEPT ![made] = a]
  BY DEF Answer
<1>3. Promise!Answer(a)
  BY <1>1, <1>2 DEF Promise!Answer, Worked
<1> QED
  BY <1>3 DEF Promise!Next, Codes

(* So is giving out a call that was not given. *)
LEMMA SendMaps ==
    ASSUME Inv, pc = "call", pc' = "call", sent[made] = 0,
           sent' = [sent EXCEPT ![made] = @ + 1], UNCHANGED <<made, answer>>
    PROVE  Promise!Next
<1>1. Worked = made /\ Worked' = made /\ made # 0
  BY GivenOrNot DEF Worked
<1>2. sent' = [sent EXCEPT ![made] = 1]
  OBVIOUS
<1>3. Promise!Send
  BY <1>1, <1>2 DEF Promise!Send, Worked
<1> QED
  BY <1>3 DEF Promise!Next

(* The promise does not see the rest. *)
LEMMA OthersStutter ==
    ASSUME pc' = "call" <=> pc = "call", UNCHANGED <<made, sent, answer>>
    PROVE  UNCHANGED Promise!vars
BY DEF Promise!vars

(* The engine asks for a call that was not made before. *)
LEMMA CallMaps ==
    ASSUME Inv, Call
    PROVE  Promise!Next
<1>1. made + 1 \in 1..MaxCalls /\ made + 1 > made /\ made + 1 # 0
  BY OwnerFacts DEF Inv, TypeOK, Call
<1>2. answer[made + 1] = "none"
  BY <1>1 DEF Inv, SentInv
<1>3. pc = "idle" /\ pc' = "call" /\ made' = made + 1 /\ UNCHANGED <<sent, answer>>
  BY DEF Call
<1>4. Promise!Ask(made + 1)
  BY <1>2, <1>3 DEF Promise!Ask
<1> QED
  BY <1>1, <1>4 DEF Promise!Next

(* What the calls to servers do. *)
LEMMA ServerCallMaps ==
    ASSUME Inv, NEW s \in Servers,
           Reconnect(s) \/ Reconnected(s) \/ Send(s) \/ Responds(s) \/ CallFails(s)
    PROVE  Promise!Next \/ UNCHANGED Promise!vars
<1>1. CASE Reconnect(s) \/ Reconnected(s)
  <2>1. pc = "call" /\ sent[made] = 0 /\ UNCHANGED <<made, sent>>
    BY <1>1, GivenOrNot DEF Reconnect, Reconnected
  <2>2. CASE Answer("mcp_reconnect_failed")
    <3>1. "mcp_reconnect_failed" \in Codes /\ "mcp_reconnect_failed" \notin CarriedOut
      BY DEF Codes, CarriedOut, Refused, Results
    <3> QED
      BY <2>1, <2>2, <3>1, AnswerMaps
  <2>3. CASE UNCHANGED <<pc, answer>>
    BY <2>1, <2>3, OthersStutter
  <2> QED
    BY <1>1, <2>2, <2>3 DEF Reconnect, Reconnected
<1>2. CASE Send(s)
  <2>1. pc = "call" /\ pc' = "call" /\ UNCHANGED <<made, answer>> /\ sent[made] = 0
    BY <1>2, OnlyInCall, GivenOrNot DEF Send, control
  <2>2. sent' = sent \/ sent' = [sent EXCEPT ![made] = @ + 1]
    BY <1>2 DEF Send
  <2> QED
    BY <2>1, <2>2, SendMaps, OthersStutter
<1>3. CASE Responds(s)
  <2>1. PICK code \in Results : Answer(code)
    BY <1>3 DEF Responds
  <2>2. pc = "call" /\ sent[made] = 1 /\ UNCHANGED <<made, sent>>
    BY <1>3, OnlyInCall, GivenOrNot DEF Responds
  <2>3. code \in Codes /\ code \notin Refused
    BY DEF Codes, CarriedOut, Refused, Results
  <2> QED
    BY <2>1, <2>2, <2>3, AnswerMaps
<1>4. CASE CallFails(s)
  <2>1. PICK code \in {"context", "mcp_timeout", "mcp_transport_error", "mcp_protocol_error"} :
            Answer(code)
    BY <1>4 DEF CallFails
  <2>2. pc = "call" /\ UNCHANGED <<made, sent>>
    BY <1>4, OnlyInCall DEF CallFails
  <2>3. code \in Codes /\ code \notin Refused /\ code \notin CarriedOut
    BY DEF Codes, CarriedOut, Refused, Unknown, Results
  <2> QED
    BY <2>1, <2>2, <2>3, AnswerMaps
<1> QED
  BY <1>1, <1>2, <1>3, <1>4

(* What the refusals and the built-in tools do. *)
LEMMA RegistryMaps ==
    ASSUME Inv, Refuse \/ BeginRead \/ StartShell \/ ShellCancelled \/ ShellEnds
                \/ KnowledgeReadEnds \/ KubernetesReadEnds
    PROVE  Promise!Next
<1>1. CASE Refuse
  <2>1. pc = "call" /\ sent[made] = 0 /\ Answer(Refusal) /\ UNCHANGED <<made, sent>>
    BY <1>1, GivenOrNot DEF Refuse, NotRouted
  <2>2. Refusal \in Codes /\ Refusal \notin CarriedOut
    BY DEF Refusal, Codes, CarriedOut, Refused, Results
  <2> QED
    BY <2>1, <2>2, AnswerMaps
<1>2. CASE BeginRead
  <2>1. pc = "call" /\ sent[made] = 0 /\ UNCHANGED made
    BY <1>2, GivenOrNot DEF BeginRead, NotRouted
  <2>2. CASE Answer("context") /\ UNCHANGED sent
    <3>1. "context" \in Codes /\ "context" \notin CarriedOut
      BY DEF Codes, CarriedOut, Unknown, Results
    <3> QED
      BY <2>1, <2>2, <3>1, AnswerMaps
  <2>3. CASE sent' = [sent EXCEPT ![made] = @ + 1] /\ UNCHANGED <<pc, answer>>
    BY <2>1, <2>3, SendMaps
  <2> QED
    BY <1>2, <2>2, <2>3 DEF BeginRead
<1>3. CASE StartShell
  <2>1. pc = "call" /\ sent[made] = 0 /\ UNCHANGED made
    BY <1>3, GivenOrNot DEF StartShell, NotRouted
  <2>2. CASE Answer("shell_start_failed") /\ UNCHANGED sent
    <3>1. "shell_start_failed" \in Codes /\ "shell_start_failed" \notin CarriedOut
      BY DEF Codes, CarriedOut, Refused, Results
    <3> QED
      BY <2>1, <2>2, <3>1, AnswerMaps
  <2>3. CASE sent' = [sent EXCEPT ![made] = @ + 1] /\ UNCHANGED <<pc, answer>>
    BY <2>1, <2>3, SendMaps
  <2> QED
    BY <1>3, <2>2, <2>3 DEF StartShell
<1>4. CASE ShellCancelled \/ ShellEnds \/ KnowledgeReadEnds \/ KubernetesReadEnds
  <2>1. op[Builtin].at # "none" /\ UNCHANGED <<made, sent>>
    BY <1>4 DEF ShellCancelled, ShellEnds, KnowledgeReadEnds, KubernetesReadEnds
  <2>2. pc = "call" /\ sent[made] = 1
    BY <2>1, BuiltinUnderWay, GivenOrNot
  <2>3. PICK code \in {"ok", "shell_exit_nonzero", "shell_wait_failed", "context",
                       "knowledge_failed", "kubernetes_failed"} : Answer(code)
    BY <1>4 DEF ShellCancelled, ShellEnds, KnowledgeReadEnds, KubernetesReadEnds
  <2>4. code \in Codes /\ code \notin Refused
    BY DEF Codes, CarriedOut, Refused, Unknown, Results
  <2> QED
    BY <2>1, <2>2, <2>3, <2>4, AnswerMaps
<1> QED
  BY <1>1, <1>2, <1>3, <1>4

(* Everything else is hidden from the engine. *)
LEMMA HiddenSteps ==
    ASSUME Inv, [Next]_vars, ~Call,
           ~(Refuse \/ BeginRead \/ StartShell \/ ShellCancelled \/ ShellEnds
             \/ KnowledgeReadEnds \/ KubernetesReadEnds),
           \A s \in Servers :
               ~(Reconnect(s) \/ Reconnected(s) \/ Send(s) \/ Responds(s) \/ CallFails(s))
    PROVE  UNCHANGED Promise!vars
<1> USE DEF control, calling
<1>1. ASSUME NEW o \in Owners, Own(o)
      PROVE  UNCHANGED <<pc, made, sent, answer>>
  BY <1>1 DEF Own, Kill, Await, GiveUpClosing, Start, Disconnected, Route
<1>2. ASSUME NEW s \in Servers, Peer(s) \/ SessionCloses(s)
      PROVE  UNCHANGED <<pc, made, sent, answer>>
  BY <1>2 DEF Peer, SessionCloses, Initialize, InitializeFails, Discover, DiscoverFails
<1>3. CASE CancelShell \/ Fork \/ (\E g \in 1..Len(procs) : LeaderDies(g)) \/ EndContext
           \/ EndFresh \/ UNCHANGED vars
  <2>1. UNCHANGED <<pc, made, sent, answer>>
    BY <1>3 DEF CancelShell, Fork, LeaderDies, EndContext, EndFresh, vars
  <2> QED
    BY <2>1, OthersStutter
<1>4. CASE Connected \/ Close \/ CloseEnds
  <2>1. pc # "call" /\ UNCHANGED <<made, sent, answer>>
    BY <1>4 DEF Connected, Close, CloseEnds
  <2>2. pc' # "call"
    BY <1>4 DEF Connected, Close, CloseEnds, CloseAll, Inv, TypeOK
  <2> QED
    BY <2>1, <2>2, OthersStutter
<1> QED
  BY <1>1, <1>2, <1>3, <1>4, OthersStutter DEF Next, Thread

(* The executor does to each call what ToolCalls allows: gives it to a tool  *)
(* at most once, through every failure and reconnect, and answers that it    *)
(* was carried out, or that it was not, only if so.                          *)
THEOREM AtMostOnce == Spec => CarriesOutAtMostOnce
<1>1. Init => Promise!Init
  BY DEF Init, Promise!Init
<1>2. Inv /\ [Next]_vars => [Promise!Next]_(Promise!vars)
  <2> SUFFICES ASSUME Inv, [Next]_vars
               PROVE  Promise!Next \/ UNCHANGED Promise!vars
    OBVIOUS
  <2> QED
    BY CallMaps, ServerCallMaps, RegistryMaps, HiddenSteps
<1> QED
  BY <1>1, <1>2, Invariance, PTL DEF Spec, CarriesOutAtMostOnce, Promise!Spec
=============================================================================
