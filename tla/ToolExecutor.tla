---------------------------- MODULE ToolExecutor ----------------------------
(***************************************************************************)
(* The reference runtime's tools: the registry, the shell tool and the MCP  *)
(* client with one session per server.  The engine makes one call at a      *)
(* time; New connects the servers one after the other, Close closes them    *)
(* side by side.  Beside them run the server and shell processes, each the  *)
(* leader of a process group of its own, which may die at any moment and    *)
(* leave descendants behind, and the run's context, which may end at any    *)
(* moment.                                                                  *)
(***************************************************************************)
EXTENDS Integers, Sequences, FiniteSets

CONSTANTS
    Order,       \* the configured servers, in order
    Stdio,       \* the servers reached over stdio; the others over HTTP
    Advertised,  \* for each server the sets of tools it may advertise: [name, def]
    MaxTools,    \* maxDiscoveredTools, also for the definition bytes
    Allowed,     \* the names in KONTEXT_TOOLS
    Names,       \* the names the provider may ask for
    Kinds,       \* descendants a process may have: "silent" and "holding" ones
                 \* stay in its group, "escaped" ones do not; the last two keep
                 \* its stderr open
    MaxCalls     \* cap on calls

Reads == {"read_knowledge", "kubernetes_read"}
Builtins == Reads \cup {"shell"}
Builtin == "builtin"   \* stands for all of them where servers are named
Servers == {Order[i] : i \in DOMAIN Order}
Owners == Servers \cup {Builtin}

ASSUME ToolExecutorAssumption ==
    /\ Order \in Seq(Servers)
    /\ \A i, j \in DOMAIN Order : Order[i] = Order[j] => i = j
    /\ Stdio \subseteq Servers /\ Builtin \notin Servers
    /\ MaxTools \in Nat /\ MaxCalls \in Nat
    /\ Kinds \subseteq {"silent", "holding", "escaped"}

VARIABLES
    ctx,      \* the run's context: "live", "ended"
    fresh,    \* the context of a Close: "live", "ended"
    pc,       \* "new", "idle", "call", "closing", "failed", "closed"
    after,    \* what follows a Close: "failed" or "closed"
    next,     \* index of the server that New connects
    managed,  \* manager.servers
    server,   \* each server: [session, command, stale, frozen, verified]
    op,       \* what is being done for each server, or for a built-in
    procs,    \* the process groups started: [leader, others]
    made,     \* calls made so far
    name,     \* the tool of the one under way
    sent, answer  \* for each call, how often it was given to a tool, and the answer

calling == <<made, name, sent, answer>>
control == <<pc, after, next, managed>>
vars == <<ctx, fresh, pc, after, next, managed, server, op, procs, made, name, sent, answer>>

(* at: where the operation is; group: the command it holds; ctx: the context *)
(* it was given; then: what follows when it is done; err: has it failed?     *)
NoOp == [at |-> "none", group |-> 0, ctx |-> "run", then |-> "none", err |-> FALSE]
Nobody == [session |-> FALSE, command |-> 0, stale |-> FALSE, frozen |-> {}, verified |-> {}]

ToolSets == {{}} \cup UNION {Advertised[s] : s \in Servers}
ServerType == [session : BOOLEAN, command : Nat, stale : BOOLEAN, frozen : ToolSets,
               verified : ToolSets]
Places == {"none", "starting", "initializing", "discovering", "sending", "waiting", "running",
           "reading", "closing", "terminating", "awaiting", "done"}
OpType ==
    [at : Places, group : Nat, ctx : {"run", "op", "fresh", "background"},
     then : {"none", "connect", "disconnect", "reconnect", "close"}, err : BOOLEAN]
GroupType == [leader : {"alive", "killed", "dead"}, others : SUBSET Kinds]

(* The answers to a call.  mcp_invalid_response stands for all that          *)
(* normalizeResult finds wrong.                                              *)
Results == {"ok", "mcp_tool_error", "mcp_invalid_response"}
CarriedOut == Results \cup {"shell_exit_nonzero"}
Refused == {"tool_denied", "unknown_tool", "invalid_arguments", "mcp_reconnect_failed",
            "shell_start_failed"}
Unknown == {"context", "knowledge_failed", "kubernetes_failed", "shell_wait_failed",
            "mcp_timeout", "mcp_transport_error", "mcp_protocol_error"}
Codes == CarriedOut \cup Refused \cup Unknown

(* Every variable has its type, and a command that is held is one that was started. *)
TypeOK ==
    /\ ctx \in {"live", "ended"} /\ fresh \in {"live", "ended"}
    /\ pc \in {"new", "idle", "call", "closing", "failed", "closed"}
    /\ after \in {"failed", "closed"}
    /\ next \in 1..(Len(Order) + 1) /\ (pc = "new" => next <= Len(Order))
    /\ managed \subseteq Servers
    /\ server \in [Servers -> ServerType] /\ op \in [Owners -> OpType]
    /\ procs \in Seq(GroupType)
    /\ \A s \in Servers : server[s].command <= Len(procs)
    /\ \A o \in Owners : op[o].group <= Len(procs)
    /\ made \in 0..MaxCalls
    /\ sent \in [1..MaxCalls -> Nat] /\ answer \in [1..MaxCalls -> {"none"} \cup Codes]

Init ==
    /\ ctx = "live" /\ fresh = "live"
    /\ pc = (IF Order = <<>> THEN "idle" ELSE "new") /\ after = "failed"
    /\ next = 1 /\ managed = {}
    /\ server = [s \in Servers |-> Nobody]
    /\ op = [o \in Owners |-> IF Order # <<>> /\ o = Order[1]
                              THEN [NoOp EXCEPT !.at = "starting"] ELSE NoOp]
    /\ procs = <<>>
    /\ made = 0 /\ name = "none"
    /\ sent = [c \in 1..MaxCalls |-> 0]
    /\ answer = [c \in 1..MaxCalls |-> "none"]

-----------------------------------------------------------------------------
(* Processes (external) *)

NewGroup == [leader |-> "alive", others |-> {}]

(* cmd.Wait returns once the leader is dead and nobody holds its stderr. *)
Waited(g) == procs[g].leader = "dead" /\ procs[g].others \subseteq {"silent"}

(* Somebody whom SIGKILL to the group would still reach. *)
LiveGroup(g) == procs[g].leader = "alive" \/ procs[g].others \cap {"silent", "holding"} # {}

Fork ==
    /\ \E g \in DOMAIN procs, k \in Kinds :
          /\ procs[g].leader = "alive" /\ procs[g].others = {}
          /\ procs' = [procs EXCEPT ![g].others = {k}]
    /\ UNCHANGED <<ctx, fresh, control, server, op, calling>>

LeaderDies(g) ==
    /\ g \in DOMAIN procs /\ procs[g].leader # "dead"
    /\ procs' = [procs EXCEPT ![g].leader = "dead"]
    /\ UNCHANGED <<ctx, fresh, control, server, op, calling>>

EndContext ==
    /\ ctx = "live" /\ ctx' = "ended"
    /\ UNCHANGED <<fresh, control, server, op, procs, calling>>

(* The two or five seconds that a Close is given are over. *)
EndFresh ==
    /\ pc = "closing" /\ fresh = "live" /\ fresh' = "ended"
    /\ UNCHANGED <<ctx, control, server, op, procs, calling>>

-----------------------------------------------------------------------------
(* procgroup.Terminate *)

(* The context an operation was given may be over: the run's, one with the   *)
(* server's own timeout, the one of Close, or none at all.                   *)
CtxDone(o) ==
    CASE op[o].ctx = "run" -> ctx = "ended"
      [] op[o].ctx = "op" -> TRUE
      [] op[o].ctx = "fresh" -> fresh = "ended"
      [] OTHER -> FALSE

Killed(g) == [procs EXCEPT ![g].leader = IF @ = "alive" THEN "killed" ELSE @,
                           ![g].others = @ \cap {"escaped"}]

(* After SIGTERM: the group is done, the grace is over or the context is;    *)
(* SIGKILL follows in each case.  Kill may return an error (only if nobody   *)
(* in the group may be signalled: such processes count as escaped), and so   *)
(* may Wait, for the output it could not copy; either is kept.               *)
Kill(o) ==
    /\ op[o].at = "terminating"
    /\ procs' = Killed(op[o].group)
    /\ \E failed \in BOOLEAN :
          \/ /\ Waited(op[o].group)
             /\ op' = [op EXCEPT ![o].at = "done", ![o].err = @ \/ failed]
          \/ CtxDone(o) /\ op' = [op EXCEPT ![o].at = "done", ![o].err = TRUE]
          \/ op' = [op EXCEPT ![o].at = "awaiting", ![o].err = @ \/ failed]
    /\ UNCHANGED <<ctx, fresh, control, server, calling>>

Mut_AwaitWithoutContext(o) ==
    /\ op[o].at = "awaiting"
    /\ Waited(op[o].group) /\ op' = [op EXCEPT ![o].at = "done"]
    /\ UNCHANGED <<ctx, fresh, control, server, procs, calling>>

Await(o) ==
    /\ op[o].at = "awaiting"
    /\ \/ /\ Waited(op[o].group)
          /\ \E failed \in BOOLEAN : op' = [op EXCEPT ![o].at = "done", ![o].err = @ \/ failed]
       \/ CtxDone(o) /\ op' = [op EXCEPT ![o].at = "done", ![o].err = TRUE]
    /\ UNCHANGED <<ctx, fresh, control, server, procs, calling>>

-----------------------------------------------------------------------------
(* closeSession *)

(* It forgets session and command first; without a session only the command  *)
(* is ended, if there is one.  (Its error is then dropped; but outside       *)
(* connect, which forgets the command itself, none is held without one.)     *)
Closing(s, context, then) ==
    [at |-> IF server[s].session THEN "closing"
            ELSE IF server[s].command # 0 THEN "terminating" ELSE "done",
     group |-> server[s].command, ctx |-> context, then |-> then, err |-> FALSE]

Forgotten(s) == [server[s] EXCEPT !.session = FALSE, !.command = 0]

CloseSession(s, context, then) ==
    /\ op' = [op EXCEPT ![s] = Closing(s, context, then)]
    /\ server' = [server EXCEPT ![s] = Forgotten(s)]

ThenTerminate(s, err) ==
    op' = [op EXCEPT ![s].at = IF op[s].group = 0 THEN "done" ELSE "terminating",
                     ![s].err = err]

(* session.Close returns, perhaps with an error, *)
SessionCloses(s) ==
    /\ op[s].at = "closing"
    /\ \E err \in BOOLEAN : ThenTerminate(s, err)
    /\ UNCHANGED <<ctx, fresh, control, server, procs, calling>>

(* or the context ends first. *)
GiveUpClosing(s) ==
    /\ op[s].at = "closing" /\ CtxDone(s)
    /\ ThenTerminate(s, TRUE)
    /\ UNCHANGED <<ctx, fresh, control, server, procs, calling>>

-----------------------------------------------------------------------------
(* connect *)

AfterConnect(s, err) == op' = [op EXCEPT ![s] = [NoOp EXCEPT
                                  !.at = "done", !.then = "connect", !.err = err]]

(* transport: a stdio server is started, an HTTP one is not. *)
Start(s) ==
    /\ op[s].at = "starting"
    /\ \/ /\ s \in Stdio
          /\ procs' = Append(procs, NewGroup)
          /\ server' = [server EXCEPT ![s].command = Len(procs) + 1]
          /\ op' = [op EXCEPT ![s].at = "initializing"]
       \/ /\ s \notin Stdio
          /\ op' = [op EXCEPT ![s].at = "initializing"]
          /\ UNCHANGED <<procs, server>>
       \/ s \in Stdio /\ AfterConnect(s, TRUE) /\ UNCHANGED <<procs, server>>
    /\ UNCHANGED <<ctx, fresh, control, calling>>

Reachable(s) == s \in Stdio => procs[server[s].command].leader = "alive"

Initialize(s) ==
    /\ op[s].at = "initializing" /\ ctx = "live" /\ Reachable(s)
    /\ server' = [server EXCEPT ![s].session = TRUE]
    /\ op' = [op EXCEPT ![s].at = "discovering"]
    /\ UNCHANGED <<ctx, fresh, control, procs, calling>>

Mut_InitializeFailsLeaves(s) ==
    /\ op[s].at = "initializing"
    /\ server' = [server EXCEPT ![s].command = 0]
    /\ AfterConnect(s, TRUE)
    /\ UNCHANGED <<ctx, fresh, control, procs, calling>>

(* For whatever reason; the command is ended under the same context. *)
InitializeFails(s) ==
    /\ op[s].at = "initializing"
    /\ server' = [server EXCEPT ![s].command = 0]
    /\ op' = [op EXCEPT ![s] =
                [at |-> IF server[s].command = 0 THEN "done" ELSE "terminating",
                 group |-> server[s].command, ctx |-> "op", then |-> "disconnect", err |-> TRUE]]
    /\ UNCHANGED <<ctx, fresh, control, procs, calling>>

(* discoverTools refuses too many tools, invalid ones and a name twice. *)
Discoverable(tools) ==
    /\ Cardinality(tools) <= MaxTools
    /\ \A t \in tools : t.def # "invalid"
    /\ \A t, u \in tools : t.name = u.name => t = u

Mut_SameNames(left, right) == {t.name : t \in left} = {t.name : t \in right}

SameTools(left, right) == left = right

Discover(s) ==
    /\ op[s].at = "discovering" /\ ctx = "live" /\ Reachable(s)
    /\ \E tools \in Advertised[s] :
          /\ Discoverable(tools)
          /\ server[s].frozen = {} \/ SameTools(server[s].frozen, tools)
          /\ server' = [server EXCEPT ![s].frozen = IF @ = {} THEN tools ELSE @,
                                      ![s].stale = FALSE, ![s].verified = tools]
    /\ AfterConnect(s, FALSE)
    /\ UNCHANGED <<ctx, fresh, control, procs, calling>>

(* The list could not be had, was refused, or differs from the frozen one. *)
DiscoverFails(s) ==
    /\ op[s].at = "discovering"
    /\ CloseSession(s, "run", "disconnect")
    /\ UNCHANGED <<ctx, fresh, control, procs, calling>>

Disconnected(s) ==
    /\ op[s].at = "done" /\ op[s].then = "disconnect"
    /\ AfterConnect(s, TRUE)
    /\ UNCHANGED <<ctx, fresh, control, server, procs, calling>>

-----------------------------------------------------------------------------
(* New, NewWithContext and Close *)

Idle(o) == op[o].at = "none"

(* All servers of the manager are closed side by side. *)
CloseAll(members, then) ==
    /\ pc' = "closing" /\ after' = then /\ fresh' = "live"
    /\ op' = [o \in Owners |-> IF o \in members THEN Closing(o, "fresh", "close") ELSE NoOp]
    /\ server' = [s \in Servers |-> IF s \in members THEN Forgotten(s) ELSE server[s]]

ToolsOf(members) == UNION {server[s].frozen : s \in members}
NamesOf(members) == {t.name : t \in ToolsOf(members)}

(* The limit and the collisions over all servers so far. *)
Acceptable(s) ==
    /\ Cardinality(ToolsOf(managed)) + Cardinality(server[s].frozen) <= MaxTools
    /\ NamesOf(managed) \cap NamesOf({s}) = {}

(* NewWithContext: no collision with a built-in, and every configured name known. *)
RegistryAccepts(members) ==
    /\ NamesOf(members) \cap Builtins = {}
    /\ Allowed \subseteq Builtins \cup NamesOf(members)

Connected ==
    /\ pc = "new"
    /\ LET s == Order[next]
           last == next = Len(Order) IN
       /\ op[s].at = "done" /\ op[s].then = "connect"
       /\ managed' = IF op[s].err THEN managed ELSE managed \cup {s}
       /\ IF op[s].err \/ ~Acceptable(s) \/ (last /\ ~RegistryAccepts(managed'))
          THEN CloseAll(managed', "failed") /\ UNCHANGED next
          ELSE /\ next' = next + 1
               /\ pc' = IF last THEN "idle" ELSE "new"
               /\ op' = [o \in Owners |-> IF ~last /\ o = Order[next + 1]
                                          THEN [NoOp EXCEPT !.at = "starting"] ELSE NoOp]
               /\ UNCHANGED <<server, after, fresh>>
    /\ UNCHANGED <<ctx, procs, calling>>

(* The engine closes its executor when it has finished. *)
Close ==
    /\ pc = "idle"
    /\ CloseAll(managed, "closed")
    /\ UNCHANGED <<ctx, next, managed, procs, calling>>

CloseEnds ==
    /\ pc = "closing"
    /\ \A o \in Owners : op[o].at \in {"none", "done"}
    /\ pc' = after
    /\ op' = [o \in Owners |-> NoOp]
    /\ UNCHANGED <<ctx, fresh, after, next, managed, server, procs, calling>>

-----------------------------------------------------------------------------
(* Registry.Execute, Manager.Execute and server.call *)

Call ==
    /\ pc = "idle" /\ made < MaxCalls
    /\ pc' = "call"
    /\ made' = made + 1
    /\ name' \in Names
    /\ UNCHANGED <<ctx, fresh, after, next, managed, server, op, procs, sent, answer>>

Answer(code) ==
    /\ pc' = "idle"
    /\ op' = [o \in Owners |-> NoOp]
    /\ answer' = [answer EXCEPT ![made] = code]
    /\ name' = "none"

NotRouted == pc = "call" /\ \A o \in Owners : Idle(o)

(* The registry's refusals, and arguments that the tool or its frozen schema *)
(* does not accept.                                                          *)
Refusal ==
    IF name \notin Allowed
    THEN IF name \in Builtins \cup NamesOf(managed) THEN "tool_denied" ELSE "unknown_tool"
    ELSE "invalid_arguments"

Refuse ==
    /\ NotRouted
    /\ Answer(Refusal)
    /\ UNCHANGED <<ctx, fresh, after, next, managed, server, procs, made, sent>>

(* server.call: a stale session is closed first and made anew. *)
Route(s) ==
    /\ NotRouted /\ name \in Allowed /\ s \in managed /\ name \in NamesOf({s})
    /\ IF server[s].stale
       THEN CloseSession(s, "run", "reconnect")
       ELSE op' = [op EXCEPT ![s].at = "sending"] /\ UNCHANGED server
    /\ UNCHANGED <<ctx, fresh, control, procs, calling>>

(* closeSession has returned to call. *)
Reconnect(s) ==
    /\ pc = "call" /\ op[s].at = "done" /\ op[s].then = "reconnect"
    /\ IF op[s].err
       THEN Answer("mcp_reconnect_failed")
       ELSE op' = [op EXCEPT ![s] = [NoOp EXCEPT !.at = "starting"]] /\ UNCHANGED <<pc, answer, name>>
    /\ UNCHANGED <<ctx, fresh, after, next, managed, server, procs, made, sent>>

(* connect has. *)
Reconnected(s) ==
    /\ pc = "call" /\ op[s].at = "done" /\ op[s].then = "connect"
    /\ IF op[s].err
       THEN /\ server' = [server EXCEPT ![s].stale = TRUE]
            /\ Answer("mcp_reconnect_failed")
       ELSE /\ op' = [op EXCEPT ![s] = [NoOp EXCEPT !.at = "sending"]]
            /\ UNCHANGED <<server, pc, answer, name>>
    /\ UNCHANGED <<ctx, fresh, after, next, managed, procs, made, sent>>

(* CallTool: the request may or may not leave. *)
Send(s) ==
    /\ op[s].at = "sending"
    /\ op' = [op EXCEPT ![s].at = "waiting"]
    /\ sent' \in {sent, [sent EXCEPT ![made] = @ + 1]}
    /\ UNCHANGED <<ctx, fresh, control, server, procs, made, name, answer>>

Responds(s) ==
    /\ op[s].at = "waiting" /\ sent[made] > 0
    /\ \E code \in Results : Answer(code)
    /\ UNCHANGED <<ctx, fresh, after, next, managed, server, procs, made, sent>>

Mut_CallIsRepeated(s) ==
    /\ op[s].at = "waiting"
    /\ server' = [server EXCEPT ![s].stale = TRUE]
    /\ op' = [op EXCEPT ![s].at = "sending"]
    /\ UNCHANGED <<ctx, fresh, control, procs, calling>>

(* Any error of CallTool makes the session stale; the call is not repeated. *)
CallFails(s) ==
    /\ op[s].at = "waiting"
    /\ server' = [server EXCEPT ![s].stale = TRUE]
    /\ \E code \in IF ctx = "ended" THEN {"context"}
                   ELSE {"mcp_timeout", "mcp_transport_error", "mcp_protocol_error"} :
          Answer(code)
    /\ UNCHANGED <<ctx, fresh, after, next, managed, procs, made, sent>>

-----------------------------------------------------------------------------
(* shellTool.Execute *)

StartShell ==
    /\ NotRouted /\ name = "shell" /\ name \in Allowed
    /\ \/ /\ procs' = Append(procs, NewGroup)
          /\ op' = [op EXCEPT ![Builtin] = [NoOp EXCEPT !.at = "running",
                                                       !.group = Len(procs) + 1]]
          /\ sent' = [sent EXCEPT ![made] = @ + 1]
          /\ UNCHANGED <<pc, answer, name>>
       \/ Answer("shell_start_failed") /\ UNCHANGED <<procs, sent>>
    /\ UNCHANGED <<ctx, fresh, after, next, managed, server, made>>

(* Wait returns; what is left of the group is killed. *)
ShellEnds ==
    /\ op[Builtin].at = "running" /\ Waited(op[Builtin].group)
    /\ procs' = Killed(op[Builtin].group)
    /\ \E code \in {"ok", "shell_exit_nonzero", "shell_wait_failed"} : Answer(code)
    /\ UNCHANGED <<ctx, fresh, after, next, managed, server, made, sent>>

(* The group is ended under a context that never ends. *)
CancelShell ==
    /\ op[Builtin].at = "running" /\ ctx = "ended"
    /\ op' = [op EXCEPT ![Builtin].at = "terminating", ![Builtin].ctx = "background"]
    /\ UNCHANGED <<ctx, fresh, control, server, procs, calling>>

ShellCancelled ==
    /\ op[Builtin].at = "done"
    /\ Answer("context")
    /\ UNCHANGED <<ctx, fresh, after, next, managed, server, procs, made, sent>>

-----------------------------------------------------------------------------
(* The tools that only read *)

BeginRead ==
    /\ NotRouted /\ name \in Reads \cap Allowed
    /\ IF name = "read_knowledge" /\ ctx = "ended"
       THEN Answer("context") /\ UNCHANGED sent
       ELSE /\ op' = [op EXCEPT ![Builtin].at = "reading"]
            /\ sent' = [sent EXCEPT ![made] = @ + 1]
            /\ UNCHANGED <<pc, answer, name>>
    /\ UNCHANGED <<ctx, fresh, after, next, managed, server, procs, made>>

(* A file is read to its end, whatever becomes of the context; *)
KnowledgeReadEnds ==
    /\ op[Builtin].at = "reading" /\ name = "read_knowledge"
    /\ \E code \in {"ok", "knowledge_failed"} : Answer(code)
    /\ UNCHANGED <<ctx, fresh, after, next, managed, server, procs, made, sent>>

(* a request of the Kubernetes API is cut off by it. *)
KubernetesReadEnds ==
    /\ op[Builtin].at = "reading" /\ name = "kubernetes_read"
    /\ \E code \in {"ok", "kubernetes_failed"} \cup (IF ctx = "ended" THEN {"context"} ELSE {}) :
          Answer(code)
    /\ UNCHANGED <<ctx, fresh, after, next, managed, server, procs, made, sent>>

-----------------------------------------------------------------------------
(* What the runtime does by itself, and what it waits for others to do. *)
Own(o) ==
    \/ Kill(o) \/ Await(o)
    \/ /\ o \in Servers
       /\ \/ GiveUpClosing(o) \/ Start(o) \/ Disconnected(o) \/ Route(o) \/ Reconnect(o)
          \/ Reconnected(o) \/ Send(o)

Thread == Connected \/ CloseEnds \/ Refuse \/ BeginRead \/ StartShell \/ CancelShell \/ ShellCancelled

Peer(s) == Initialize(s) \/ InitializeFails(s) \/ Discover(s) \/ DiscoverFails(s)
           \/ Responds(s) \/ CallFails(s)

Next ==
    \/ \E o \in Owners : Own(o)
    \/ Thread
    \/ Call \/ Close
    \/ \E s \in Servers : Peer(s) \/ SessionCloses(s)
    \/ ShellEnds \/ KnowledgeReadEnds \/ KubernetesReadEnds
    \/ Fork \/ \E g \in 1..Len(procs) : LeaderDies(g)
    \/ EndContext \/ EndFresh

Spec == Init /\ [][Next]_vars

(* The runtime's goroutines run, timers fire, the SDK's calls return once    *)
(* their context has ended, and SIGKILL ends a process.  Nothing is asked of *)
(* a server, of session.Close, or of a process that left its group.          *)
FairSpec ==
    /\ Spec
    /\ \A o \in Owners : WF_vars(Own(o))
    /\ WF_vars(Thread) /\ WF_vars(EndFresh)
    /\ \A s \in Servers : WF_vars(ctx = "ended" /\ Peer(s))
    /\ WF_vars(ctx = "ended" /\ (KnowledgeReadEnds \/ KubernetesReadEnds))
    /\ \A g \in 1..(Len(Order) + MaxCalls) :
          WF_vars(g <= Len(procs) /\ procs[g].leader = "killed" /\ LeaderDies(g))

-----------------------------------------------------------------------------
(* Properties *)

(* Every process group with somebody left in it is known to the server entry *)
(* or to the operation that will kill it, and once New has failed or Close   *)
(* has returned there is none, whichever step failed and whichever context   *)
(* ended on the way, as far as SIGKILL reaches (connect, closeSession,       *)
(* closeAfterStartupFailure, Terminate).                                     *)
NothingIsLeftBehind ==
    \A g \in DOMAIN procs :
        LiveGroup(g) =>
            /\ pc \notin {"failed", "closed"}
            /\ \/ \E s \in Servers : server[s].command = g
               \/ \E o \in Owners :
                     op[o].group = g /\ op[o].at \in {"running", "closing", "terminating"}

(* A call only goes out on a session that is there, and whose own discovery  *)
(* gave exactly the tools frozen at the start; between calls a server has    *)
(* such a session or is marked stale (call, connect).                        *)
CallsUseVerifiedSessions ==
    /\ \A s \in Servers :
          op[s].at = "sending" =>
              /\ server[s].session /\ ~server[s].stale
              /\ server[s].verified = server[s].frozen
    /\ pc = "idle" => \A s \in managed : server[s].session \/ server[s].stale

Promise == INSTANCE ToolCalls WITH
    Calls <- 1..MaxCalls,
    current <- IF pc = "call" THEN made ELSE 0

(* To the engine this is an executor that carries out a call at most once    *)
(* and reports it truly: "The failed call is never repeated"                 *)
(* (runtimes/reference/README.md:246), through every reconnect.              *)
CarriesOutAtMostOnce == Promise!Spec

(* The shell waits for its command's pipe under a context that never ends,   *)
(* so a process that left the group holds it up.                             *)
ShellIsHeld == op[Builtin].at = "awaiting" /\ procs[op[Builtin].group].others # {}

(* Whatever hangs costs its caller the context and no more: Close always     *)
(* returns, though a session or a process does not end or a stranger keeps a *)
(* pipe open, and once the run's context has ended a start and a call come   *)
(* to an end, except for a shell that is held up (Manager.Close,             *)
(* closeSession, Terminate, shellTool.Execute).                              *)
EndsWithItsContext ==
    /\ []<>(pc # "closing")
    /\ []<>(ctx = "live" \/ pc \notin {"new", "call"} \/ ShellIsHeld)
=============================================================================
