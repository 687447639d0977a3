----------------------------- MODULE Elevations -----------------------------
(***************************************************************************)
(* The life of an elevation: the router stores a request that policy wants *)
(* a human to decide (server/router.py), operators approve or deny it over *)
(* the management API (management/api.py), the sweeper expires it          *)
(* (server/elevation_sweeper.py), and an approval creates a grant, replays *)
(* the stored memory operation and hands two messages over for delivery    *)
(* (memory/elevation_replay.py).                                           *)
(*                                                                         *)
(* Approve requests run concurrently on one event loop; a step is the code *)
(* between two awaits, so a status read in one step may be stale in the    *)
(* next.  As in ReplayDelivery, an UPDATE is seen by everyone at once and  *)
(* becomes durable with a later commit, of whichever coroutine; a stop of  *)
(* the server before that undoes it.  Time is the fact that an             *)
(* elevation's expires_at has passed (`due'); the wall clock is taken not  *)
(* to step backwards.                                                      *)
(* Who may approve (_require_elevation_approver) is checked before a       *)
(* request starts here, and touches none of this state.                    *)
(*                                                                         *)
(* Definitions with a _ in their name are variants with a slip, which no   *)
(* specification uses, as in ReplayDelivery.                               *)
(***************************************************************************)
EXTENDS Naturals, FiniteSets

CONSTANTS
    Elevs,      \* elevation ids
    Reqs,       \* approve requests, one HTTP call each
    ElevOf,     \* ElevOf[r]: the elevation request r approves
    Kind,       \* Kind[e]: what the stored message is, see Kinds
    BodyGrant   \* BodyGrant[r]: the body of r carries create_grant

(* "memory": memory:query/write/delete.  "chained": memory:grant_request   *)
(* with a pending_replay operation.  "request": without one.  "other": any *)
(* other message type.                                                     *)
Kinds == {"memory", "chained", "request", "other"}

ASSUME ElevOfAssumption == ElevOf \in [Reqs -> Elevs]
ASSUME KindAssumption == Kind \in [Elevs -> Kinds]
ASSUME BodyGrantAssumption == BodyGrant \in [Reqs -> BOOLEAN]

VARIABLES
    status,     \* elevations.status, "none" before the row exists
    disk,       \* status as of the last commit
    due,        \* expires_at <= now
    rpc,        \* rpc[r]: where approve request r is
    seen,       \* seen[r]: the status r read
    granted,    \* requests that created a grant
    ran         \* requests that ran the stored memory operation

vars == <<status, disk, due, rpc, seen, granted, ran>>

Statuses == {"none", "pending", "approved", "denied", "expired"}

(* Where an approve request is: not received; has read the row; has run    *)
(* the UPDATE to approved or to expired; has committed the approval; is    *)
(* about to run, respond, notify; waits for the last delivery.  Or it is   *)
(* over: answered 200, answered 409, or an exception or a stop of the      *)
(* server ended it.                                                        *)
Active == {"got", "set", "lapse", "approved", "replay", "respond", "notify", "finish"}
Over == {"done", "rejected", "failed"}

TypeOK ==
    /\ status \in [Elevs -> Statuses]
    /\ disk \in [Elevs -> Statuses]
    /\ due \in [Elevs -> BOOLEAN]
    /\ rpc \in [Reqs -> {"new"} \cup Active \cup Over]
    /\ seen \in [Reqs -> Statuses]
    /\ granted \subseteq Reqs
    /\ ran \subseteq Reqs

Init ==
    /\ status = [e \in Elevs |-> "none"]
    /\ disk = [e \in Elevs |-> "none"]
    /\ due = [e \in Elevs |-> FALSE]
    /\ rpc = [r \in Reqs |-> "new"]
    /\ seen = [r \in Reqs |-> "none"]
    /\ granted = {}
    /\ ran = {}

-----------------------------------------------------------------------------
Sync_Nothing == UNCHANGED disk

Sync == disk' = status

(* The commit of a denial, a sweep, a new elevation, or of a coroutine     *)
(* outside this model.                                                     *)
Commit ==
    /\ disk # status
    /\ Sync
    /\ UNCHANGED <<status, due, rpc, seen, granted, ran>>

(* MessageRouter.handle on the decision "elevate": create_elevation.       *)
Elevate(e) ==
    /\ status[e] = "none"
    /\ status' = [status EXCEPT ![e] = "pending"]
    /\ due' = [due EXCEPT ![e] = FALSE]
    /\ UNCHANGED <<disk, rpc, seen, granted, ran>>

(* elevation_ttl_hours pass.                                               *)
TtlPasses(e) ==
    /\ status[e] # "none" /\ ~due[e]
    /\ due' = [due EXCEPT ![e] = TRUE]
    /\ UNCHANGED <<status, disk, rpc, seen, granted, ran>>

Expirable_Any(e) == status[e] \notin {"none", "expired"} /\ due[e]

Expirable_Reversed(e) == status[e] = "pending" /\ ~due[e]

(* ElevationSweeper.sweep_once: one UPDATE of every pending row that is    *)
(* due.                                                                    *)
Expirable(e) == status[e] = "pending" /\ due[e]

Sweep ==
    /\ \E e \in Elevs : Expirable(e)
    /\ status' = [e \in Elevs |-> IF Expirable(e) THEN "expired" ELSE status[e]]
    /\ UNCHANGED <<disk, due, rpc, seen, granted, ran>>

Deny_Word(e) ==
    /\ status[e] # "none"
    /\ status' = [status EXCEPT ![e] = "rejected"]
    /\ UNCHANGED <<disk, due, rpc, seen, granted, ran>>

(* deny_elevation: the UPDATE has no condition on the status.              *)
Deny(e) ==
    /\ status[e] # "none"
    /\ status' = [status EXCEPT ![e] = "denied"]
    /\ UNCHANGED <<disk, due, rpc, seen, granted, ran>>

-----------------------------------------------------------------------------
(* approve_elevation.                                                      *)

Goto(r, where) == rpc' = [rpc EXCEPT ![r] = where]

(* get_elevation: an unknown id is answered 404 and changes nothing.       *)
ApproveGet(r) ==
    /\ rpc[r] = "new" /\ status[ElevOf[r]] # "none"
    /\ seen' = [seen EXCEPT ![r] = status[ElevOf[r]]]
    /\ Goto(r, "got")
    /\ UNCHANGED <<status, disk, due, granted, ran>>

(* The status that was read is not pending: 409.                           *)
ApproveNotPending(r) ==
    /\ rpc[r] = "got" /\ seen[r] # "pending"
    /\ Goto(r, "rejected")
    /\ UNCHANGED <<status, disk, due, seen, granted, ran>>

(* It was pending but is due by now: set expired, then 409.                *)
ApproveExpired(r) ==
    /\ rpc[r] = "got" /\ seen[r] = "pending" /\ due[ElevOf[r]]
    /\ status' = [status EXCEPT ![ElevOf[r]] = "expired"]
    /\ Goto(r, "lapse")
    /\ UNCHANGED <<disk, due, seen, granted, ran>>

ApproveSet_Unchecked(r) ==
    /\ rpc[r] = "got" /\ ~due[ElevOf[r]]
    /\ status' = [status EXCEPT ![ElevOf[r]] = "approved"]
    /\ Goto(r, "set")
    /\ UNCHANGED <<disk, due, seen, granted, ran>>

ApproveSet_Late(r) ==
    /\ rpc[r] = "got" /\ seen[r] = "pending"
    /\ status' = [status EXCEPT ![ElevOf[r]] = "approved"]
    /\ Goto(r, "set")
    /\ UNCHANGED <<disk, due, seen, granted, ran>>

(* Set approved; neither UPDATE looks at the status again.                 *)
ApproveSet(r) ==
    /\ rpc[r] = "got" /\ seen[r] = "pending" /\ ~due[ElevOf[r]]
    /\ status' = [status EXCEPT ![ElevOf[r]] = "approved"]
    /\ Goto(r, "set")
    /\ UNCHANGED <<disk, due, seen, granted, ran>>

(* The commit of either UPDATE.                                            *)
ApproveCommit(r) ==
    /\ rpc[r] \in {"set", "lapse"}
    /\ Sync
    /\ Goto(r, IF rpc[r] = "set" THEN "approved" ELSE "rejected")
    /\ UNCHANGED <<status, due, seen, granted, ran>>

(* resolve_replay_message: is there a memory operation to run?             *)
HasTarget(e) == Kind[e] \in {"memory", "chained"}

(* A grant comes from the body, else from a stored grant request.          *)
GetsGrant(r) == BodyGrant[r] \/ Kind[ElevOf[r]] \in {"chained", "request"}

(* no_grant_for_replay: nothing is run and nobody is notified.             *)
StopWithoutGrant(r) ==
    /\ rpc[r] = "approved" /\ ~GetsGrant(r)
    /\ Goto(r, "done")
    /\ UNCHANGED <<status, disk, due, seen, granted, ran>>

CreateGrant_Skipped(r) ==
    /\ rpc[r] = "approved" /\ GetsGrant(r)
    /\ Goto(r, IF HasTarget(ElevOf[r]) THEN "replay" ELSE "notify")
    /\ UNCHANGED <<status, disk, due, seen, granted, ran>>

(* create_grant: the INSERT and its commit.                                *)
CreateGrant(r) ==
    /\ rpc[r] = "approved" /\ GetsGrant(r)
    /\ granted' = granted \cup {r}
    /\ Sync
    /\ Goto(r, IF HasTarget(ElevOf[r]) THEN "replay" ELSE "notify")
    /\ UNCHANGED <<status, due, seen, ran>>

(* memory.handle(replay_message, grant_id): it always yields a response.   *)
RunReplay(r) ==
    /\ rpc[r] = "replay"
    /\ ran' = ran \cup {r}
    /\ Goto(r, "respond")
    /\ UNCHANGED <<status, disk, due, seen, granted>>

(* The memory:*_response, then memory:grant_created, go to delivery.       *)
Respond(r) ==
    /\ rpc[r] = "respond"
    /\ Goto(r, "notify")
    /\ UNCHANGED <<status, disk, due, seen, granted, ran>>

Notify(r) ==
    /\ rpc[r] = "notify"
    /\ Goto(r, "finish")
    /\ UNCHANGED <<status, disk, due, seen, granted, ran>>

Finish(r) ==
    /\ rpc[r] = "finish"
    /\ Goto(r, "done")
    /\ UNCHANGED <<status, disk, due, seen, granted, ran>>

(* A database error, or a stored message or body that does not validate,   *)
(* raises out of the handler; what was written before stays.               *)
RequestFails(r) ==
    /\ rpc[r] \in Active
    /\ Goto(r, "failed")
    /\ UNCHANGED <<status, disk, due, seen, granted, ran>>

(* The server stops: requests under way end where they are, and what was   *)
(* not committed is undone.                                                *)
Stop ==
    /\ status' = disk
    /\ rpc' = [r \in Reqs |-> IF rpc[r] \in Active THEN "failed" ELSE rpc[r]]
    /\ UNCHANGED <<disk, due, seen, granted, ran>>

ApproveStep(r) ==
    \/ ApproveNotPending(r) \/ ApproveExpired(r) \/ ApproveSet(r) \/ ApproveCommit(r)
    \/ StopWithoutGrant(r) \/ CreateGrant(r) \/ RunReplay(r)
    \/ Respond(r) \/ Notify(r) \/ Finish(r)

Next ==
    \/ \E e \in Elevs : Elevate(e) \/ TtlPasses(e) \/ Deny(e)
    \/ \E r \in Reqs : ApproveGet(r) \/ ApproveStep(r) \/ RequestFails(r)
    \/ Sweep \/ Commit \/ Stop

Spec == Init /\ [][Next]_vars

(* The sweeper task runs every interval; every coroutine commits after its *)
(* statement; the event loop resumes requests.                             *)
FairSpec ==
    /\ Spec
    /\ WF_vars(Sweep) /\ WF_vars(Commit)
    /\ \A r \in Reqs : WF_vars(ApproveStep(r))

-----------------------------------------------------------------------------
(* Properties.                                                             *)

(* A request that read e as pending is under way.                          *)
InFlight(e) == \E r \in Reqs : ElevOf[r] = e /\ rpc[r] \in Active /\ seen[r] = "pending"

RanFor(e) == {r \in ran : ElevOf[r] = e}

Settled(e) == disk[e] \notin {"none", "pending"}

(* What a step may do to an elevation that is settled.                     *)
SettledStep ==
    \A e \in Elevs : (Settled(e) /\ ~InFlight(e)) =>
        /\ RanFor(e)' = RanFor(e)
        /\ status'[e] = "approved" => "approved" \in {status[e], disk[e]}
        /\ ~InFlight(e)'

(* Once it is committed that an elevation is decided or expired, and no    *)
(* approve request that read it as pending is under way, its stored        *)
(* operation is never run again and no request approves it again, however  *)
(* often it is approved, denied or swept later and the server restarts:    *)
(* this is what the 409 of approve_elevation buys.                         *)
SettledStaysSettled == [][SettledStep]_vars

ExpiredStep == \A e \in Elevs : disk[e] = "expired" => status'[e] # "approved"

(* An elevation that the sweeper or an operator's late click has marked    *)
(* expired is never approved, not even by a request that read it while it  *)
(* was still pending: approve_elevation takes the time after it has read   *)
(* the row.                                                                *)
ExpiredNotApproved == [][ExpiredStep]_vars

(* The stored operation runs only with a grant that the same request       *)
(* created, and only after that request set the elevation approved while   *)
(* it had read it as pending (replay_after_approval).                      *)
ReplayIsAuthorised ==
    \A r \in Reqs :
        /\ r \in ran => r \in granted /\ HasTarget(ElevOf[r])
        /\ r \in granted => seen[r] = "pending" /\ rpc[r] # "rejected"

(* When a grant exists it is on disk that its elevation is settled, so     *)
(* that a restart cannot make it pending, and grant and replay it again.   *)
GrantIsFinal == \A r \in granted : Settled(ElevOf[r])

SweepStep ==
    \A e \in Elevs : (status[e] \in {"approved", "denied"} /\ status'[e] = "expired") =>
        \/ disk[e] = "expired"
        \/ \E r \in Reqs : /\ ElevOf[r] = e /\ seen[r] = "pending"
                           /\ rpc[r] = "got" /\ rpc'[r] = "lapse"

(* A decision is overwritten by "expired" only through an approve request  *)
(* that read the elevation before the decision, or by a stop of the server *)
(* before it was committed; the sweeper never does it.                     *)
SweepSparesDecisions == [][SweepStep]_vars

(* An elevation nobody decides does not stay pending: after its expiry the *)
(* sweeper, or a request, moves it on for good, unless the server keeps    *)
(* crashing.                                                               *)
DueElevationSettles ==
    \A e \in Elevs : []<><<Stop>>_vars \/ ((disk[e] = "pending" /\ due[e]) ~> Settled(e))

(* docs/architecture/hypervisor/MANAGEMENT-API.md: "Approve action         *)
(* (rejects expired/non-pending with HTTP 409)".                           *)
ApprovesOnlyPending ==
    [][\A r \in Reqs : (rpc[r] = "got" /\ rpc'[r] = "set") =>
        status[ElevOf[r]] = "pending"]_vars
=============================================================================
