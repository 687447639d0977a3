-------------------------- MODULE ApprovalDelivery --------------------------
(***************************************************************************)
(* Elevations and ReplayDelivery together: an approve request hands its    *)
(* memory:*_response to delivery, waits until that message is sent or      *)
(* queued, does the same with memory:grant_created, and only then answers  *)
(* the operator (replay_after_approval, approve_elevation).  Both use one  *)
(* database connection, so a commit of either commits for both.            *)
(* Definitions with a _ in their name are variants with a slip, which no   *)
(* specification uses, as in ReplayDelivery.                               *)
(***************************************************************************)
EXTENDS Naturals, Sequences, FiniteSets

CONSTANTS Elevs, Reqs, ElevOf, Kind, BodyGrant, Keys, Conns, NoConn, NoKey,
          VmOf    \* VmOf[e]: the (agent_id, vm_id) the stored message came from

ASSUME VmOfAssumption == VmOf \in [Elevs -> Keys]

VARIABLES status, disk, due, rpc, seen, granted, ran,
          sock, owner, line, stage, pc, todo, fvia, bound, rows, marked,
          diskRows, diskMarked, mst, svia, wrote

elevVars == <<status, disk, due, rpc, seen, granted, ran>>
deliveryVars == <<sock, owner, line, stage, pc, todo, fvia, bound, rows, marked,
                  diskRows, diskMarked, mst, svia, wrote>>
vars == <<elevVars, deliveryVars>>

Msgs == Reqs \X {"response", "notice"}
Dest == [m \in Msgs |-> VmOf[ElevOf[m[1]]]]

E == INSTANCE Elevations
D == INSTANCE ReplayDelivery

Response(r) == <<r, "response">>
Notice(r) == <<r, "notice">>

Init == E!Init /\ D!Init

-----------------------------------------------------------------------------
(* Steps of a request that touch delivery.                                 *)

Respond(r) == E!Respond(r) /\ D!Hand(Response(r))

Notify_Eager(r) == E!Notify(r) /\ D!Hand(Notice(r))

(* The await of deliver() for the response comes first.                    *)
Notify(r) ==
    /\ mst[Response(r)] \in {"none", "done"}
    /\ E!Notify(r) /\ D!Hand(Notice(r))

Finish_Eager(r) == E!Finish(r) /\ UNCHANGED deliveryVars

Finish(r) ==
    /\ mst[Notice(r)] = "done"
    /\ E!Finish(r)
    /\ UNCHANGED deliveryVars

(* Queueing raised, or another exception while no message is in hand.      *)
EnqueueError(m) == E!RequestFails(m[1]) /\ D!EnqueueError(m)

RequestFails(r) ==
    /\ mst[Response(r)] \in {"none", "done"} /\ mst[Notice(r)] \in {"none", "done"}
    /\ E!RequestFails(r)
    /\ UNCHANGED deliveryVars

Stop == E!Stop /\ D!Crash

-----------------------------------------------------------------------------
(* A commit by either part.                                                *)
Synced ==
    /\ E!Sync /\ D!Sync
    /\ UNCHANGED <<status, due, seen, ran, sock, owner, line, stage, todo, fvia,
                   bound, rows, marked, svia, wrote>>

RequestStep(r) ==
    \/ Respond(r) \/ Notify(r) \/ Finish(r)
    \/ /\ \/ E!ApproveNotPending(r) \/ E!ApproveExpired(r) \/ E!ApproveSet(r)
          \/ E!StopWithoutGrant(r) \/ E!RunReplay(r)
       /\ UNCHANGED deliveryVars
    \/ (E!ApproveCommit(r) \/ E!CreateGrant(r)) /\ Synced /\ UNCHANGED <<pc, mst>>

SendStep(m) ==
    \/ /\ \/ D!SendWrite(m) \/ D!SendRefused(m) \/ D!SendDelivered(m)
          \/ D!SendDrainFails(m)
       /\ UNCHANGED elevVars
    \/ D!EnqueueCommit(m) /\ Synced /\ UNCHANGED <<rpc, granted>>

ConnStep(c) ==
    \/ D!ConnStep(c) /\ UNCHANGED elevVars
    \/ D!FlushCommit(c) /\ Synced /\ UNCHANGED <<rpc, granted>>

ElevStep ==
    /\ \/ \E e \in Elevs : E!Elevate(e) \/ E!TtlPasses(e) \/ E!Deny(e)
       \/ \E r \in Reqs : E!ApproveGet(r)
       \/ E!Sweep
    /\ UNCHANGED deliveryVars

(* A coroutine outside both parts commits.                                 *)
Commit ==
    /\ <<disk, diskRows, diskMarked>> # <<status, rows, marked>>
    /\ Synced
    /\ UNCHANGED <<rpc, granted, pc, mst>>

Next ==
    \/ \E r \in Reqs : RequestStep(r) \/ RequestFails(r)
    \/ \E m \in Msgs : SendStep(m) \/ EnqueueError(m)
    \/ \E c \in Conns, k \in Keys : D!NodeConnect(c, k) /\ UNCHANGED elevVars
    \/ \E c \in Conns : ConnStep(c)
    \/ ElevStep \/ Commit \/ Stop

Spec == Init /\ [][Next]_vars

FairSpec ==
    /\ Spec
    /\ \A r \in Reqs : WF_vars(RequestStep(r))
    /\ \A m \in Msgs : WF_vars(SendStep(m))

-----------------------------------------------------------------------------
(* Properties.                                                             *)

Queued(m) == \E i \in 1 .. Len(rows[Dest[m]]) : rows[Dest[m]][i] = m
Position(m) == CHOOSE i \in 1 .. Len(rows[Dest[m]]) : rows[Dest[m]][i] = m

OnDisk(m) == \E i \in 1 .. Len(diskRows[Dest[m]]) : diskRows[Dest[m]][i] = m

Reached(m) == <<m, Dest[m]>> \in wrote \/ OnDisk(m)

(* When the operator gets a 200 for an approval that created a grant, the  *)
(* VM has been sent, or has in its queue on disk, the notice of the grant  *)
(* and the response of the replayed operation, whatever connections and    *)
(* restarts did meanwhile.                                                 *)
AnsweredMeansTold ==
    \A r \in Reqs : (rpc[r] = "done" /\ r \in granted) =>
        Reached(Notice(r)) /\ (E!HasTarget(ElevOf[r]) => Reached(Response(r)))


(* When both messages of an approval had to be queued, the response is     *)
(* ahead of the notice, so the reconnecting VM gets them in this order.    *)
ResponseBeforeNotice ==
    \A r \in Reqs : (Queued(Response(r)) /\ Queued(Notice(r))) =>
        Position(Response(r)) < Position(Notice(r))

(* An approval comes to an end: the operator gets an answer, or the        *)
(* request failed, even if the VM never connects again.                    *)
ApprovalEnds == \A r \in Reqs : rpc[r] = "approved" ~> rpc[r] \in E!Over
=============================================================================
