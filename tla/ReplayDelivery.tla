--------------------------- MODULE ReplayDelivery ---------------------------
(***************************************************************************)
(* How the server hands a message to an agent VM that may be offline:      *)
(* AgentTransport (server/transport.py), the per-connection handler of     *)
(* TransportGateway (server/vsock.py), handshake and handshake ack         *)
(* (server/handshake.py, server/router.py), PendingReplayQueue             *)
(* (server/pending_replay.py) with its table (server/db.py), and the       *)
(* deliver-or-queue step of ElevationReplayService.                        *)
(*                                                                         *)
(* One step of the model is the code between two awaits at which other     *)
(* coroutines can run.  All statements go through one aiosqlite connection *)
(* whose thread runs them in the order they were submitted, so a statement *)
(* takes effect in the step that submits it, for every other coroutine.    *)
(* Its commit() is a statement of its own, submitted in a later step; it   *)
(* commits whatever any coroutine has written by then.  A stop of the      *)
(* server before that loses what was written since the last commit.        *)
(* Rows are never deleted by the code, so the queue of a VM is the sequence *)
(* of its rows in creation order (the order of created_at: the clock is    *)
(* taken not to step backwards) with the set of positions whose            *)
(* delivered_at is set.                                                    *)
(*                                                                         *)
(* A definition whose name ends in _ and a capitalised word is a variant   *)
(* of the one that follows it, with a slip that a change to the code could *)
(* introduce.  No specification uses the variants: they serve to confirm   *)
(* that the properties notice the slip.                                    *)
(***************************************************************************)
EXTENDS Naturals, Sequences, FiniteSets

CONSTANTS
    Keys,      \* the (agent_id, vm_id) pairs of the agent VMs, as tuples
    Conns,     \* slots for TCP/vsock connections, reused after teardown
    Msgs,      \* messages produced by approvals
    Dest,      \* Dest[m]: the VM message m is for
    NoConn,    \* "no connection"
    NoKey      \* owner of a free connection slot

ASSUME DestAssumption == Dest \in [Msgs -> Keys]
ASSUME NoConnAssumption == NoConn \notin Conns
ASSUME NoKeyAssumption == NoKey \notin Keys

VARIABLES
    sock,      \* sock[c]: "free", "open", or "gone" (peer left, not yet torn down)
    owner,     \* owner[c]: the VM at the other end
    line,      \* line[c]: the node's line the server has not read yet
    stage,     \* stage[c]: how far the handshake got
    pc,        \* pc[c]: where the handler coroutine of c is
    todo,      \* todo[c]: positions its flush listed and has not finished
    fvia,      \* fvia[c]: the connection its deliver() call is draining
    bound,     \* AgentTransport._agent_connections
    rows,      \* pending_replay rows of a VM, oldest first
    marked,    \* positions of rows with delivered_at set
    diskRows,  \* rows as of the last commit
    diskMarked,\* marked as of the last commit
    mst,       \* mst[m]: where the coroutine delivering m is
    svia,      \* svia[m]: the connection that coroutine is draining
    wrote      \* history: pairs <<m, k>>, m was written to a connection of VM k

connVars == <<sock, owner, line, stage, pc, todo, fvia>>
sendVars == <<mst, svia>>
diskVars == <<diskRows, diskMarked>>
dbVars   == <<rows, marked, diskVars>>
vars     == <<sock, owner, line, stage, pc, todo, fvia, bound, rows, marked,
              diskRows, diskMarked, mst, svia, wrote>>

TypeOK ==
    /\ sock   \in [Conns -> {"free", "open", "gone"}]
    /\ owner  \in [Conns -> Keys \cup {NoKey}]
    /\ line   \in [Conns -> {"none", "handshake", "ack"}]
    /\ stage  \in [Conns -> {"hello", "bound", "acked"}]
    /\ pc     \in [Conns -> {"idle", "auth", "row", "drain", "mark"}]
    /\ todo   \in [Conns -> SUBSET Nat]
    /\ fvia   \in [Conns -> Conns \cup {NoConn}]
    /\ bound  \in [Keys -> Conns \cup {NoConn}]
    /\ rows   \in [Keys -> Seq(Msgs)]
    /\ marked \in [Keys -> SUBSET Nat]
    /\ diskRows   \in [Keys -> Seq(Msgs)]
    /\ diskMarked \in [Keys -> SUBSET Nat]
    /\ mst    \in [Msgs -> {"none", "deliver", "drain", "insert", "done", "lost"}]
    /\ svia   \in [Msgs -> Conns \cup {NoConn}]
    /\ wrote  \subseteq (Msgs \X Keys)

Init ==
    /\ sock   = [c \in Conns |-> "free"]
    /\ owner  = [c \in Conns |-> NoKey]
    /\ line   = [c \in Conns |-> "none"]
    /\ stage  = [c \in Conns |-> "hello"]
    /\ pc     = [c \in Conns |-> "idle"]
    /\ todo   = [c \in Conns |-> {}]
    /\ fvia   = [c \in Conns |-> NoConn]
    /\ bound  = [k \in Keys |-> NoConn]
    /\ rows   = [k \in Keys |-> << >>]
    /\ marked = [k \in Keys |-> {}]
    /\ diskRows   = [k \in Keys |-> << >>]
    /\ diskMarked = [k \in Keys |-> {}]
    /\ mst    = [m \in Msgs |-> "none"]
    /\ svia   = [m \in Msgs |-> NoConn]
    /\ wrote  = {}

-----------------------------------------------------------------------------
(* The node end of a connection.                                           *)

(* BusClient.connect, then perform_handshake writes its request.  A node   *)
(* closes its transport before it reconnects, so a VM has one open         *)
(* connection at a time; the server may still hold older ones.             *)
NodeConnect(c, k) ==
    /\ sock[c] = "free"
    /\ \A d \in Conns : owner[d] = k => sock[d] # "open"
    /\ sock' = [sock EXCEPT ![c] = "open"]
    /\ owner' = [owner EXCEPT ![c] = k]
    /\ line' = [line EXCEPT ![c] = "handshake"]
    /\ UNCHANGED <<stage, pc, todo, fvia, bound, dbVars, sendVars, wrote>>

(* perform_handshake read the reply with the token and writes the ack.     *)
NodeAck(c) ==
    /\ sock[c] = "open" /\ stage[c] = "bound"
    /\ stage' = [stage EXCEPT ![c] = "acked"]
    /\ line' = [line EXCEPT ![c] = "ack"]
    /\ UNCHANGED <<sock, owner, pc, todo, fvia, bound, dbVars, sendVars, wrote>>

(* The node closes its transport, its VM stops, or the link breaks.        *)
PeerLost(c) ==
    /\ sock[c] = "open"
    /\ sock' = [sock EXCEPT ![c] = "gone"]
    /\ UNCHANGED <<owner, line, stage, pc, todo, fvia, bound, dbVars, sendVars,
                   wrote>>

-----------------------------------------------------------------------------
(* Database.conn.commit().                                                 *)

Sync_Nothing == UNCHANGED diskVars

Sync == diskRows' = rows /\ diskMarked' = marked

(* A coroutine outside this model (audit, sessions, memory) commits.       *)
Commit ==
    /\ <<diskRows, diskMarked>> # <<rows, marked>>
    /\ Sync
    /\ UNCHANGED <<connVars, bound, rows, marked, sendVars, wrote>>

-----------------------------------------------------------------------------
(* AgentTransport.deliver: a synchronous look-up and write, then drain().  *)

(* It can return False before writing: no binding, or a writer that        *)
(* is_closing(), which a writer whose peer has left may or may not be.     *)
DeliverRefused(k) == bound[k] # NoConn => sock[bound[k]] = "gone"

(* It writes to the connection bound for the VM at that moment.            *)
DeliverWrites(k) == bound[k] # NoConn

(* drain() on an open connection returns; on one that was lost it raises   *)
(* or returns, whether or not the bytes got through.                       *)
DrainFails(c) == c # NoConn => sock[c] = "gone"

Written(k, m) == wrote \cup {<<m, owner[bound[k]]>>}

-----------------------------------------------------------------------------
(* Teardown of a connection: the finally block of _handle_client.          *)

Unbind_Writer(c) == bound

Unbind_Owner(c) == IF owner[c] = NoKey THEN bound
                   ELSE [bound EXCEPT ![owner[c]] = NoConn]

(* AgentTransport.unbind: only the keys still bound to c are removed.      *)
Unbind(c) == [k \in Keys |-> IF bound[k] = c THEN NoConn ELSE bound[k]]

Forget(via, c) == [x \in DOMAIN via |-> IF via[x] = c THEN NoConn ELSE via[x]]

Teardown(c) ==
    /\ sock'  = [sock EXCEPT ![c] = "free"]
    /\ owner' = [owner EXCEPT ![c] = NoKey]
    /\ line'  = [line EXCEPT ![c] = "none"]
    /\ stage' = [stage EXCEPT ![c] = "hello"]
    /\ pc'    = [pc EXCEPT ![c] = "idle"]
    /\ todo'  = [todo EXCEPT ![c] = {}]
    /\ fvia'  = [Forget(fvia, c) EXCEPT ![c] = NoConn]
    /\ svia'  = Forget(svia, c)
    /\ bound' = Unbind(c)
    /\ UNCHANGED <<dbVars, mst, wrote>>

(* readline() saw the end of the stream, or raised and dropped what was    *)
(* buffered; the handler is between two lines.                             *)
Disconnect(c) ==
    /\ sock[c] = "gone" /\ pc[c] = "idle"
    /\ Teardown(c)

(* An exception (a database error, a failed write) leaves the handler.     *)
HandlerError(c) ==
    /\ pc[c] # "idle"
    /\ Teardown(c)

-----------------------------------------------------------------------------
(* The handler of a handshake line.                                        *)

HandshakeStart(c) ==
    /\ pc[c] = "idle" /\ line[c] = "handshake"
    /\ line' = [line EXCEPT ![c] = "none"]
    /\ pc' = [pc EXCEPT ![c] = "auth"]
    /\ UNCHANGED <<sock, owner, stage, todo, fvia, bound, dbVars, sendVars, wrote>>

(* Missing fields, unknown agent, hash mismatch or unknown engines.        *)
HandshakeRefuse(c) ==
    /\ pc[c] = "auth"
    /\ pc' = [pc EXCEPT ![c] = "idle"]
    /\ UNCHANGED <<sock, owner, line, stage, todo, fvia, bound, dbVars, sendVars,
                   wrote>>

Bind_Agent(c) == [k \in Keys |-> IF k[1] = owner[c][1] THEN c ELSE bound[k]]

(* bind_agent: the last handshake processed for a VM wins.                 *)
Bind(c) == [bound EXCEPT ![owner[c]] = c]

(* create_session returned: bind the connection and write the reply.       *)
HandshakeBind(c) ==
    /\ pc[c] = "auth"
    /\ bound' = Bind(c)
    /\ stage' = [stage EXCEPT ![c] = "bound"]
    /\ pc' = [pc EXCEPT ![c] = "idle"]
    /\ UNCHANGED <<sock, owner, line, todo, fvia, dbVars, sendVars, wrote>>

-----------------------------------------------------------------------------
(* The handler of an ack line: PendingReplayQueue.flush_for_vm.            *)

Undelivered(k) == (1 .. Len(rows[k])) \ marked[k]

IsFirst_Newest(c, i) == i \in todo[c] /\ \A j \in todo[c] : j <= i

IsFirst(c, i) == i \in todo[c] /\ \A j \in todo[c] : i <= j

FlushList(c) ==
    /\ pc[c] = "idle" /\ line[c] = "ack"
    /\ line' = [line EXCEPT ![c] = "none"]
    /\ todo' = [todo EXCEPT ![c] = Undelivered(owner[c])]
    /\ pc' = [pc EXCEPT ![c] = IF Undelivered(owner[c]) = {} THEN "idle" ELSE "row"]
    /\ UNCHANGED <<sock, owner, stage, fvia, bound, dbVars, sendVars, wrote>>

FlushWrite(c) ==
    /\ pc[c] = "row" /\ DeliverWrites(owner[c])
    /\ \E i \in todo[c] :
        /\ IsFirst(c, i)
        /\ wrote' = Written(owner[c], rows[owner[c]][i])
    /\ fvia' = [fvia EXCEPT ![c] = bound[owner[c]]]
    /\ pc' = [pc EXCEPT ![c] = "drain"]
    /\ UNCHANGED <<sock, owner, line, stage, todo, bound, dbVars, sendVars>>

StopFlush_Continue(c) ==
    /\ \E i \in todo[c] :
        /\ IsFirst(c, i)
        /\ todo' = [todo EXCEPT ![c] = @ \ {i}]
        /\ pc' = [pc EXCEPT ![c] = IF todo[c] = {i} THEN "idle" ELSE "row"]
    /\ fvia' = [fvia EXCEPT ![c] = NoConn]
    /\ UNCHANGED <<sock, owner, line, stage, bound, dbVars, sendVars, wrote>>


(* deliver() returned False: break, the remaining rows stay queued.        *)
StopFlush(c) ==
    /\ pc' = [pc EXCEPT ![c] = "idle"]
    /\ todo' = [todo EXCEPT ![c] = {}]
    /\ fvia' = [fvia EXCEPT ![c] = NoConn]
    /\ UNCHANGED <<sock, owner, line, stage, bound, dbVars, sendVars, wrote>>

FlushRefused_Marks(c) ==
    /\ pc[c] = "row" /\ DeliverRefused(owner[c])
    /\ marked' = [marked EXCEPT ![owner[c]] = @ \cup todo[c]]
    /\ pc' = [pc EXCEPT ![c] = "idle"]
    /\ todo' = [todo EXCEPT ![c] = {}]
    /\ UNCHANGED <<sock, owner, line, stage, fvia, bound, rows, diskVars, sendVars, wrote>>

FlushRefused(c) ==
    /\ pc[c] = "row" /\ DeliverRefused(owner[c])
    /\ StopFlush(c)

FlushDrainFails(c) ==
    /\ pc[c] = "drain" /\ DrainFails(fvia[c])
    /\ StopFlush(c)

FlushDelivered_Unmarked(c) ==
    /\ pc[c] = "drain"
    /\ \E i \in todo[c] :
        /\ IsFirst(c, i)
        /\ todo' = [todo EXCEPT ![c] = @ \ {i}]
    /\ pc' = [pc EXCEPT ![c] = "mark"]
    /\ fvia' = [fvia EXCEPT ![c] = NoConn]
    /\ UNCHANGED <<sock, owner, line, stage, bound, dbVars, sendVars, wrote>>

(* deliver() returned True: the UPDATE of mark_pending_replay_delivered.   *)
FlushDelivered(c) ==
    /\ pc[c] = "drain"
    /\ \E i \in todo[c] :
        /\ IsFirst(c, i)
        /\ marked' = [marked EXCEPT ![owner[c]] = @ \cup {i}]
        /\ todo' = [todo EXCEPT ![c] = @ \ {i}]
    /\ pc' = [pc EXCEPT ![c] = "mark"]
    /\ fvia' = [fvia EXCEPT ![c] = NoConn]
    /\ UNCHANGED <<sock, owner, line, stage, bound, rows, diskVars, sendVars, wrote>>

(* Its commit, then on to the next listed row.                             *)
FlushCommit(c) ==
    /\ pc[c] = "mark"
    /\ Sync
    /\ pc' = [pc EXCEPT ![c] = IF todo[c] = {} THEN "idle" ELSE "row"]
    /\ UNCHANGED <<sock, owner, line, stage, todo, fvia, bound, rows, marked,
                   sendVars, wrote>>

-----------------------------------------------------------------------------
(* replay_after_approval and _notify_grant_created: deliver the message,   *)
(* queue it when deliver() returned False.                                 *)

Hand(m) ==
    /\ mst[m] = "none"
    /\ mst' = [mst EXCEPT ![m] = "deliver"]
    /\ UNCHANGED <<connVars, bound, dbVars, svia, wrote>>

SendWrite(m) ==
    /\ mst[m] = "deliver" /\ DeliverWrites(Dest[m])
    /\ wrote' = Written(Dest[m], m)
    /\ svia' = [svia EXCEPT ![m] = bound[Dest[m]]]
    /\ mst' = [mst EXCEPT ![m] = "drain"]
    /\ UNCHANGED <<connVars, bound, dbVars>>

SendDelivered(m) ==
    /\ mst[m] = "drain"
    /\ mst' = [mst EXCEPT ![m] = "done"]
    /\ svia' = [svia EXCEPT ![m] = NoConn]
    /\ UNCHANGED <<connVars, bound, dbVars, wrote>>

Enqueue_Column(m) ==
    /\ rows' = [rows EXCEPT ![Dest[m]] = Append(@, Dest[m])]
    /\ mst' = [mst EXCEPT ![m] = "insert"]
    /\ svia' = [svia EXCEPT ![m] = NoConn]
    /\ UNCHANGED <<connVars, bound, marked, diskVars, wrote>>

(* deliver() returned False: the INSERT of _queue_message, with no await   *)
(* in between.                                                             *)
Enqueue(m) ==
    /\ rows' = [rows EXCEPT ![Dest[m]] = Append(@, m)]
    /\ mst' = [mst EXCEPT ![m] = "insert"]
    /\ svia' = [svia EXCEPT ![m] = NoConn]
    /\ UNCHANGED <<connVars, bound, marked, diskVars, wrote>>

EnqueueCommit(m) ==
    /\ mst[m] = "insert"
    /\ Sync
    /\ mst' = [mst EXCEPT ![m] = "done"]
    /\ UNCHANGED <<connVars, bound, rows, marked, svia, wrote>>

SendRefused_Drops(m) ==
    /\ mst[m] = "deliver" /\ DeliverRefused(Dest[m])
    /\ mst' = [mst EXCEPT ![m] = "done"]
    /\ UNCHANGED <<connVars, bound, dbVars, svia, wrote>>

SendRefused_Waits(m) ==
    /\ mst[m] = "deliver" /\ DeliverRefused(Dest[m])
    /\ UNCHANGED vars

SendRefused(m) ==
    /\ mst[m] = "deliver" /\ DeliverRefused(Dest[m])
    /\ Enqueue(m)

SendDrainFails(m) ==
    /\ mst[m] = "drain" /\ DrainFails(svia[m])
    /\ Enqueue(m)

(* The INSERT or its commit raises: the exception ends the request that    *)
(* was delivering.  A commit that fails leaves the transaction open.       *)
EnqueueError(m) ==
    /\ \/ mst[m] = "deliver" /\ DeliverRefused(Dest[m])
       \/ mst[m] = "drain" /\ DrainFails(svia[m])
       \/ mst[m] = "insert"
    /\ mst' = [mst EXCEPT ![m] = "lost"]
    /\ svia' = [svia EXCEPT ![m] = NoConn]
    /\ UNCHANGED <<connVars, bound, dbVars, wrote>>

-----------------------------------------------------------------------------
(* The server process ends (crash or stop) and starts again: what was      *)
(* committed is all that is left.                                          *)
Crash ==
    /\ sock'  = [c \in Conns |-> "free"]
    /\ owner' = [c \in Conns |-> NoKey]
    /\ line'  = [c \in Conns |-> "none"]
    /\ stage' = [c \in Conns |-> "hello"]
    /\ pc'    = [c \in Conns |-> "idle"]
    /\ todo'  = [c \in Conns |-> {}]
    /\ fvia'  = [c \in Conns |-> NoConn]
    /\ bound' = [k \in Keys |-> NoConn]
    /\ rows'   = diskRows
    /\ marked' = diskMarked
    /\ mst'   = [m \in Msgs |-> IF mst[m] \in {"deliver", "drain", "insert"}
                                THEN "lost" ELSE mst[m]]
    /\ svia'  = [m \in Msgs |-> NoConn]
    /\ UNCHANGED <<diskVars, wrote>>

ConnStep(c) ==
    \/ NodeAck(c) \/ PeerLost(c) \/ Disconnect(c) \/ HandlerError(c)
    \/ HandshakeStart(c) \/ HandshakeRefuse(c) \/ HandshakeBind(c)
    \/ FlushList(c) \/ FlushWrite(c) \/ FlushRefused(c) \/ FlushDrainFails(c)
    \/ FlushDelivered(c)

SendStep(m) ==
    \/ SendWrite(m) \/ SendRefused(m) \/ SendDelivered(m) \/ SendDrainFails(m)
    \/ EnqueueCommit(m)

Next ==
    \/ \E c \in Conns, k \in Keys : NodeConnect(c, k)
    \/ \E c \in Conns : ConnStep(c) \/ FlushCommit(c)
    \/ \E m \in Msgs : Hand(m) \/ SendStep(m) \/ EnqueueError(m)
    \/ Commit \/ Crash

Spec == Init /\ [][Next]_vars

(* The steps a connection handler takes by itself.                         *)
HandlerStep(c) ==
    \/ Disconnect(c) \/ HandshakeStart(c) \/ HandshakeRefuse(c) \/ HandshakeBind(c)
    \/ FlushList(c) \/ FlushWrite(c) \/ FlushRefused(c) \/ FlushDrainFails(c)
    \/ FlushDelivered(c) \/ FlushCommit(c)

(* The event loop resumes every coroutine whose await completed.  For      *)
(* drain() this takes the node's read loop to keep reading, or the         *)
(* connection to be lost.  Nothing is assumed of the nodes' reconnects.    *)
Fairness ==
    /\ \A c \in Conns : WF_vars(HandlerStep(c))
    /\ \A m \in Msgs : WF_vars(SendStep(m))

FairSpec == Spec /\ Fairness

-----------------------------------------------------------------------------
(* Properties.                                                             *)

(* AgentTransport never points at a dead slot: a VM's binding is a         *)
(* connection that is not torn down, that the VM itself opened and whose   *)
(* handshake the server accepted (transport.py bind_agent/unbind).         *)
BoundIsLive ==
    \A k \in Keys : bound[k] # NoConn =>
        sock[bound[k]] # "free" /\ owner[bound[k]] = k /\ stage[bound[k]] # "hello"

(* What is delivered or replayed for one VM is written only to connections *)
(* of that VM, through reconnects, two VMs of one agent, and flushes that  *)
(* outlive the connection whose ack started them (transport.py deliver).   *)
VmScoped == \A p \in wrote : p[2] = Dest[p[1]]

(* The rows of a VM with delivered_at set are always the oldest ones:      *)
(* flush_for_vm never steps over a row it could not deliver, even when     *)
(* several flushes for the VM run at once or one dies half way.            *)
PrefixDelivered ==
    \A k \in Keys : \A j \in marked[k] : \A i \in 1 .. j : i \in marked[k]

(* delivered_at is set only on a row that was really written to the VM.    *)
MarkedWasWritten ==
    \A k \in Keys : \A i \in marked[k] :
        i \in 1 .. Len(rows[k]) /\ <<rows[k][i], k>> \in wrote

(* A replay that ended without an error either wrote its message to the VM *)
(* or left it in the VM's queue on disk: neither a failure of deliver()    *)
(* nor a later stop of the server drops it (elevation_replay.py, db.py).   *)
NothingForgotten ==
    \A m \in Msgs : mst[m] = "done" =>
        \/ <<m, Dest[m]>> \in wrote
        \/ \E i \in 1 .. Len(diskRows[Dest[m]]) : diskRows[Dest[m]][i] = m

BindingStep ==
    \A k \in Keys : (bound[k] # NoConn /\ bound'[k] # bound[k]) =>
        \/ sock'[bound[k]] = "free"
        \/ bound'[k] # NoConn /\ owner[bound'[k]] = k /\ pc[bound'[k]] = "auth"

(* A VM loses its binding only when the bound connection itself is torn    *)
(* down or a later handshake of the same VM takes over; the teardown of an *)
(* older connection leaves the newer one bound (transport.py unbind).      *)
BindingStable == [][BindingStep]_vars

(* A connection of k is bound, its ack was read and its flush is over.     *)
UpToDate(k) ==
    /\ bound[k] # NoConn
    /\ sock[bound[k]] = "open" /\ stage[bound[k]] = "acked"
    /\ line[bound[k]] = "none" /\ pc[bound[k]] = "idle"

(* docs/architecture/hypervisor/MANAGEMENT-API.md: messages undelivered    *)
(* because the agent is offline are flushed on the next handshake ack      *)
(* after reconnect.  So once a VM has acked, the flush is over and no      *)
(* replay is under way, none of its rows is undelivered.                   *)
QueueEmptyAfterAck ==
    \A k \in Keys :
        UpToDate(k) /\ (\A m \in Msgs : Dest[m] = k => mst[m] \in {"none", "done", "lost"})
            => Undelivered(k) = {}

(* Every replay that starts to deliver a message finishes, delivered or    *)
(* queued, unless the server stops: deliver() and the queue never wait for *)
(* the VM to come back.                                                    *)
HandoverSettles ==
    \A m \in Msgs : mst[m] = "deliver" ~> mst[m] \in {"done", "lost"}


(* A row a flush has listed is delivered, unless the VM's connection goes  *)
(* away or the flushing handler dies first.                                *)
ListedDelivered ==
    \A c \in Conns, k \in Keys, i \in 1 .. Cardinality(Msgs) :
        (owner[c] = k /\ i \in todo[c]) ~>
            \/ i \in marked[k]
            \/ owner[c] # k
            \/ bound[k] # NoConn => sock[bound[k]] = "gone"
-----------------------------------------------------------------------------
(* ReplayDelivery implements Outbox.                                       *)

Has(q, m) == \E i \in 1 .. Len(q) : q[i] = m

(* The rows of a VM that are not marked on disk, oldest first.             *)
mailboxOf ==
    [k \in Keys |->
        LET left == (1 .. Len(diskRows[k])) \ diskMarked[k]
            nth(n) == CHOOSE i \in left : Cardinality({j \in left : j <= i}) = n
        IN  [n \in 1 .. Cardinality(left) |-> diskRows[k][nth(n)]]]

(* A message whose row is not committed is still in hand, even when the    *)
(* request that queued it has failed.                                      *)
fateOf ==
    [m \in Msgs |->
        CASE Has(mailboxOf[Dest[m]], m) -> "stored"
          [] Has(diskRows[Dest[m]], m) /\ ~Has(mailboxOf[Dest[m]], m) -> "sent"
          [] ~Has(diskRows[Dest[m]], m) ->
                IF Has(rows[Dest[m]], m) \/ mst[m] \in {"deliver", "drain"} THEN "owed"
                ELSE IF mst[m] = "done" THEN "sent" ELSE mst[m]]

Box == INSTANCE Outbox WITH fate <- fateOf, mailbox <- mailboxOf

(* With its concurrent flushes, lost connections, shared transactions and  *)
(* crashes the delivery path behaves as one durable first-in first-out     *)
(* mailbox per VM: rows leave it in order, none without having been        *)
(* stored, and a delivered message never becomes undelivered again         *)
(* (pending_replay.py, db.py).                                             *)
ImplementsOutbox == Box!Spec
=============================================================================
