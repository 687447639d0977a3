-------------------------- MODULE ElevationsProofs --------------------------
(***************************************************************************)
(* Proofs about Elevations, for any elevations and any number of           *)
(* concurrent approve requests.                                            *)
(***************************************************************************)
EXTENDS Elevations, TLAPS

(* What is known of an elevation: "expired" is only set after expires_at   *)
(* has passed and no approval follows it; what is durably settled is not   *)
(* pending in the tables either.                                           *)
StatusInv ==
    \A e \in Elevs :
        /\ status[e] = "none" => disk[e] = "none"
        /\ "expired" \in {status[e], disk[e]} => due[e] = TRUE
        /\ disk[e] = "expired" => status[e] # "approved"
        /\ Settled(e) => status[e] \notin {"none", "pending"}

(* Only a request that read "pending" gets past the 409 checks; when it    *)
(* creates a grant the elevation is durably settled, and the stored        *)
(* operation runs after that.                                              *)
RequestInv ==
    \A r \in Reqs :
        /\ rpc[r] \in Active \ {"got"} => seen[r] = "pending"
        /\ rpc[r] = "set" => status[ElevOf[r]] \notin {"none", "pending"}
        /\ rpc[r] \in Active \ {"got", "set", "lapse"} => Settled(ElevOf[r])
        /\ rpc[r] = "replay" => r \in granted /\ HasTarget(ElevOf[r])
        /\ r \in ran => r \in granted /\ HasTarget(ElevOf[r])
        /\ r \in granted => /\ seen[r] = "pending"
                            /\ rpc[r] \notin {"new", "got", "set", "lapse", "rejected"}
                            /\ Settled(ElevOf[r])

IInv == TypeOK /\ StatusInv /\ RequestInv

USE ElevOfAssumption, KindAssumption, BodyGrantAssumption

(* The initial state satisfies the inductive invariant.                    *)
LEMMA InitIInv == Init => IInv
BY DEF Init, IInv, TypeOK, Statuses, RequestInv, StatusInv, Settled, Active, Over

(* A step of a request that only moves it on, from a step that is past the *)
(* 409 checks, or ends it, keeps the invariant.                            *)
LEMMA MoveOnIInv ==
    ASSUME IInv, NEW r \in Reqs, NEW w \in {"respond", "notify", "finish", "done", "failed"},
           rpc[r] \in Active,
           w \in Active => rpc[r] \notin {"got", "set", "lapse"},
           Goto(r, w), UNCHANGED <<status, disk, due, seen, granted, ran>>
    PROVE  IInv'
<1>1. TypeOK'
    BY DEF IInv, TypeOK, Goto, Active, Over, Statuses
<1>2. RequestInv'
    BY DEF IInv, TypeOK, RequestInv, Goto, HasTarget, Settled, Active, Over
<1>3. StatusInv'
    BY DEF IInv, StatusInv, Settled
<1> QED  BY <1>1, <1>2, <1>3 DEF IInv

(* Steps that leave the requests alone keep what is known of them, when    *)
(* they make no elevation undecided.                                       *)
LEMMA RequestsKept ==
    ASSUME IInv, UNCHANGED <<rpc, seen, granted, ran>>,
           \A e \in Elevs : /\ status[e] \notin {"none", "pending"} =>
                                  status'[e] \notin {"none", "pending"}
                            /\ Settled(e) => Settled(e)'
    PROVE  RequestInv'
BY DEF IInv, TypeOK, RequestInv, HasTarget

(* A commit keeps what is known of the elevations and settles for good     *)
(* what is settled in the tables.                                          *)
LEMMA SyncInv ==
    ASSUME IInv, Sync, UNCHANGED <<status, due>>
    PROVE  /\ StatusInv' /\ disk' \in [Elevs -> Statuses]
           /\ \A e \in Elevs : /\ Settled(e) => Settled(e)'
                               /\ status[e] \notin {"none", "pending"} => Settled(e)'
BY DEF IInv, TypeOK, StatusInv, Sync, Settled

(* Every step preserves the inductive invariant.                           *)
LEMMA NextIInv == IInv /\ [Next]_vars => IInv'
<1> SUFFICES ASSUME IInv, [Next]_vars PROVE IInv'
    OBVIOUS
<1>1. ASSUME NEW e \in Elevs, Elevate(e) \/ TtlPasses(e) \/ Deny(e) PROVE IInv'
  <2>1. TypeOK'
    BY <1>1 DEF IInv, TypeOK, Elevate, TtlPasses, Deny, Statuses
  <2>2. StatusInv'
    BY <1>1 DEF IInv, TypeOK, StatusInv, Elevate, TtlPasses, Deny, Settled
  <2>3. RequestInv'
    BY <1>1, RequestsKept DEF IInv, TypeOK, Elevate, TtlPasses, Deny, Settled
  <2> QED  BY <2>1, <2>2, <2>3 DEF IInv
<1>2. CASE Sweep
  <2>1. TypeOK'
    BY <1>2 DEF IInv, TypeOK, Sweep, Statuses
  <2>2. StatusInv'
    BY <1>2 DEF IInv, TypeOK, StatusInv, Sweep, Expirable, Settled
  <2>3. RequestInv'
    BY <1>2, RequestsKept DEF Sweep, Settled
  <2> QED  BY <2>1, <2>2, <2>3 DEF IInv
<1>3. CASE Commit
  <2>1. StatusInv' /\ RequestInv'
    BY <1>3, SyncInv, RequestsKept DEF Commit
  <2>2. TypeOK'
    BY <1>3, SyncInv DEF IInv, TypeOK, Commit
  <2> QED  BY <2>1, <2>2 DEF IInv
<1>4. ASSUME NEW r \in Reqs, ApproveGet(r) \/ ApproveNotPending(r) PROVE IInv'
  <2>1. TypeOK'
    BY <1>4 DEF IInv, TypeOK, ApproveGet, ApproveNotPending, Goto, Active, Over
  <2>2. StatusInv'
    BY <1>4 DEF IInv, StatusInv, ApproveGet, ApproveNotPending, Settled
  <2>3. RequestInv'
    BY <1>4 DEF IInv, TypeOK, RequestInv, ApproveGet, ApproveNotPending, Goto,
       HasTarget, Settled, Active, Over
  <2> QED  BY <2>1, <2>2, <2>3 DEF IInv
<1>5. ASSUME NEW r \in Reqs, ApproveExpired(r) \/ ApproveSet(r) PROVE IInv'
  <2>1. TypeOK'
    BY <1>5 DEF IInv, TypeOK, ApproveExpired, ApproveSet, Goto, Statuses, Active, Over
  <2>2. StatusInv'
    BY <1>5 DEF IInv, TypeOK, StatusInv, ApproveExpired, ApproveSet, Settled
  <2>3. RequestInv'
    BY <1>5 DEF IInv, TypeOK, RequestInv, ApproveExpired, ApproveSet, Goto, HasTarget,
       Settled, Active, Over
  <2> QED  BY <2>1, <2>2, <2>3 DEF IInv
<1>6. ASSUME NEW r \in Reqs, ApproveCommit(r) PROVE IInv'
  <2>1. /\ StatusInv' /\ disk' \in [Elevs -> Statuses]
        /\ \A e \in Elevs : /\ Settled(e) => Settled(e)'
                            /\ status[e] \notin {"none", "pending"} => Settled(e)'
    BY <1>6, SyncInv DEF ApproveCommit
  <2>2. TypeOK'
    BY <1>6, <2>1 DEF IInv, TypeOK, ApproveCommit, Goto, Active, Over
  <2>3. RequestInv'
    BY <1>6, <2>1 DEF IInv, TypeOK, RequestInv, ApproveCommit, Goto, HasTarget, Active,
       Over
  <2> QED  BY <2>1, <2>2, <2>3 DEF IInv
<1>7. ASSUME NEW r \in Reqs, CreateGrant(r) PROVE IInv'
  <2>1. /\ StatusInv' /\ disk' \in [Elevs -> Statuses]
        /\ \A e \in Elevs : Settled(e) => Settled(e)'
    BY <1>7, SyncInv DEF CreateGrant
  <2>2. TypeOK'
    BY <1>7, <2>1 DEF IInv, TypeOK, CreateGrant, Goto, Active, Over
  <2>3. RequestInv'
    BY <1>7, <2>1 DEF IInv, TypeOK, RequestInv, CreateGrant, Goto, HasTarget, Active, Over
  <2> QED  BY <2>1, <2>2, <2>3 DEF IInv
<1>8. ASSUME NEW r \in Reqs, RunReplay(r) PROVE IInv'
  <2>1. TypeOK'
    BY <1>8 DEF IInv, TypeOK, RunReplay, Goto, Active, Over
  <2>2. StatusInv'
    BY <1>8 DEF IInv, StatusInv, RunReplay, Settled
  <2>3. RequestInv'
    BY <1>8 DEF IInv, TypeOK, RequestInv, RunReplay, Goto, HasTarget, Settled, Active, Over
  <2> QED  BY <2>1, <2>2, <2>3 DEF IInv
<1>9. ASSUME NEW r \in Reqs,
             StopWithoutGrant(r) \/ Respond(r) \/ Notify(r) \/ Finish(r) \/ RequestFails(r)
      PROVE  IInv'
    BY <1>9, MoveOnIInv DEF StopWithoutGrant, Respond, Notify, Finish, RequestFails,
       Active, Over
<1>10. CASE Stop
  <2>1. TypeOK'
    BY <1>10 DEF IInv, TypeOK, Stop, Over
  <2>2. StatusInv'
    BY <1>10 DEF IInv, StatusInv, Stop, Settled
  <2>3. RequestInv'
    BY <1>10 DEF IInv, TypeOK, RequestInv, Stop, HasTarget, Settled, Active, Over
  <2> QED  BY <2>1, <2>2, <2>3 DEF IInv
<1>11. CASE UNCHANGED vars
    BY <1>11 DEF IInv, TypeOK, RequestInv, StatusInv, HasTarget, Settled, vars
<1> QED
    BY <1>1, <1>2, <1>3, <1>4, <1>5, <1>6, <1>7, <1>8, <1>9, <1>10, <1>11
    DEF Next, ApproveStep

LEMMA Invariance == Spec => []IInv
BY InitIInv, NextIInv, PTL DEF Spec

(* Type correctness of the approval path.                                  *)
THEOREM TypeCorrect == Spec => []TypeOK
<1>1. IInv => TypeOK
    BY DEF IInv
<1> QED  BY <1>1, Invariance, PTL

(* However approvals, denials, the sweeper and failures interleave, a      *)
(* stored operation runs only under a grant created by the same approve    *)
(* request, and that request had read the elevation as pending.            *)
THEOREM ReplaysAreAuthorised == Spec => []ReplayIsAuthorised
<1>1. IInv => ReplayIsAuthorised
    BY DEF IInv, RequestInv, ReplayIsAuthorised
<1> QED  BY <1>1, Invariance, PTL

(* Whenever a grant exists, it is on disk that its elevation is settled.   *)
THEOREM GrantsAreFinal == Spec => []GrantIsFinal
<1>1. IInv => GrantIsFinal
    BY DEF IInv, TypeOK, RequestInv, GrantIsFinal
<1> QED  BY <1>1, Invariance, PTL

(* No approve request revives an elevation that is expired, whenever it    *)
(* read the row.                                                           *)
THEOREM ExpiredStaysUnapproved == Spec => ExpiredNotApproved
<1>1. ASSUME IInv, [Next]_vars PROVE [ExpiredStep]_vars
  <2>1. ASSUME NEW r \in Reqs, ApproveSet(r) PROVE ExpiredStep
    BY <1>1, <2>1 DEF IInv, TypeOK, StatusInv, ExpiredStep, ApproveSet
  <2>2. CASE UNCHANGED status \/ Stop
    BY <1>1, <2>2 DEF IInv, StatusInv, ExpiredStep, Stop
  <2>3. ASSUME NEW e \in Elevs, Elevate(e) \/ Deny(e) PROVE ExpiredStep
    BY <1>1, <2>3 DEF IInv, TypeOK, StatusInv, ExpiredStep, Elevate, Deny
  <2>4. CASE Sweep
    BY <1>1, <2>4 DEF IInv, StatusInv, ExpiredStep, Sweep
  <2>5. ASSUME NEW r \in Reqs, ApproveExpired(r) PROVE ExpiredStep
    BY <1>1, <2>5 DEF IInv, TypeOK, StatusInv, ExpiredStep, ApproveExpired
  <2>6. ASSUME NEW r \in Reqs, ApproveGet(r) \/ ApproveStep(r) \/ RequestFails(r)
        PROVE  ApproveSet(r) \/ ApproveExpired(r) \/ UNCHANGED status
    BY <2>6 DEF ApproveGet, ApproveStep, RequestFails, ApproveNotPending,
       ApproveCommit, StopWithoutGrant, CreateGrant, RunReplay, Respond, Notify, Finish
  <2>7. ASSUME NEW e \in Elevs, TtlPasses(e) PROVE UNCHANGED status
    BY <2>7 DEF TtlPasses
  <2> QED
    BY <1>1, <2>1, <2>2, <2>3, <2>4, <2>5, <2>6, <2>7 DEF Next, Commit
<1> QED  BY <1>1, Invariance, PTL DEF Spec, ExpiredNotApproved

(* An operator's decision becomes "expired" only by an approve request     *)
(* that had read the row before the decision, never by the sweeper.        *)
THEOREM SweeperSparesDecisions == Spec => SweepSparesDecisions
<1>1. ASSUME IInv, [Next]_vars PROVE [SweepStep]_vars
  <2>1. ASSUME NEW r \in Reqs, ApproveExpired(r) PROVE SweepStep
    BY <1>1, <2>1 DEF IInv, TypeOK, SweepStep, ApproveExpired, Goto
  <2>2. CASE UNCHANGED status \/ Stop
    BY <2>2 DEF SweepStep, Stop
  <2>3. ASSUME NEW e \in Elevs, Elevate(e) \/ Deny(e) PROVE SweepStep
    BY <1>1, <2>3 DEF IInv, TypeOK, SweepStep, Elevate, Deny
  <2>4. CASE Sweep
    BY <2>4 DEF SweepStep, Sweep, Expirable
  <2>5. ASSUME NEW r \in Reqs, ApproveSet(r) PROVE SweepStep
    BY <1>1, <2>5 DEF IInv, TypeOK, SweepStep, ApproveSet
  <2>6. ASSUME NEW r \in Reqs, ApproveGet(r) \/ ApproveStep(r) \/ RequestFails(r)
        PROVE  ApproveSet(r) \/ ApproveExpired(r) \/ UNCHANGED status
    BY <2>6 DEF ApproveGet, ApproveStep, RequestFails, ApproveNotPending,
       ApproveCommit, StopWithoutGrant, CreateGrant, RunReplay, Respond, Notify, Finish
  <2>7. ASSUME NEW e \in Elevs, TtlPasses(e) PROVE UNCHANGED status
    BY <2>7 DEF TtlPasses
  <2> QED
    BY <1>1, <2>1, <2>2, <2>3, <2>4, <2>5, <2>6, <2>7 DEF Next, Commit
<1> QED  BY <1>1, Invariance, PTL DEF Spec, SweepSparesDecisions

(* Once an elevation is settled and no approve request that read it as     *)
(* pending is under way, the stored operation is not run again and nothing *)
(* approves it.                                                            *)
THEOREM SettledIsFinal == Spec => SettledStaysSettled
<1>1. ASSUME IInv, [Next]_vars PROVE [SettledStep]_vars
  <2> SUFFICES ASSUME NEW e \in Elevs, Settled(e),
                      ~InFlight(e), Next
               PROVE  /\ RanFor(e)' = RanFor(e)
                      /\ status'[e] = "approved" => "approved" \in {status[e], disk[e]}
                      /\ \A r \in Reqs : (ElevOf[r] = e /\ rpc'[r] \in Active)
                            => seen'[r] # "pending"
    BY <1>1 DEF SettledStep, InFlight
  <2>1. /\ \A r \in Reqs : (ElevOf[r] = e /\ rpc[r] \in Active) =>
                              rpc[r] = "got" /\ seen[r] # "pending"
        /\ status[e] \notin {"none", "pending"}
    BY <1>1 DEF InFlight, IInv, StatusInv, RequestInv
  <2>2. ASSUME NEW r \in Reqs, ApproveStep(r) \/ RequestFails(r)
        PROVE  /\ rpc[r] \in Active /\ seen' = seen
               /\ ran' \in {ran, ran \cup {r}}
               /\ (rpc[r] = "got" /\ seen[r] # "pending") => UNCHANGED <<status, ran>>
               /\ \A d \in Elevs \ {ElevOf[r]} : status'[d] = status[d]
               /\ \A q \in Reqs \ {r} : rpc'[q] = rpc[q]
    BY <1>1, <2>2 DEF IInv, TypeOK, ApproveStep, RequestFails, ApproveNotPending,
       ApproveExpired, ApproveSet, ApproveCommit, StopWithoutGrant, CreateGrant,
       RunReplay, Respond, Notify, Finish, Goto, Active
  <2>3. ASSUME NEW r \in Reqs, ApproveStep(r) \/ RequestFails(r)
        PROVE  /\ RanFor(e)' = RanFor(e)
               /\ status'[e] = status[e]
               /\ \A q \in Reqs : (ElevOf[q] = e /\ rpc'[q] \in Active)
                    => seen'[q] # "pending"
    BY <2>1, <2>2, <2>3 DEF RanFor
  <2>4. ASSUME NEW r \in Reqs, ApproveGet(r)
        PROVE  /\ RanFor(e)' = RanFor(e) /\ status'[e] = status[e]
               /\ \A q \in Reqs : (ElevOf[q] = e /\ rpc'[q] \in Active)
                    => seen'[q] # "pending"
    BY <1>1, <2>1, <2>4 DEF IInv, TypeOK, ApproveGet, Goto, RanFor
  <2>5. ASSUME \/ \E d \in Elevs : Elevate(d) \/ TtlPasses(d) \/ Deny(d)
               \/ Sweep \/ Commit
        PROVE  /\ RanFor(e)' = RanFor(e) /\ UNCHANGED <<rpc, seen>>
               /\ status'[e] = "approved" => status[e] = "approved"
    BY <1>1, <2>5 DEF IInv, TypeOK, Elevate, TtlPasses, Deny, Sweep, Commit, RanFor
  <2>6. ASSUME Stop
        PROVE  /\ RanFor(e)' = RanFor(e) /\ status' = disk
               /\ \A q \in Reqs : rpc'[q] \notin Active
    BY <2>6 DEF Stop, RanFor, Active
  <2> QED  BY <2>1, <2>3, <2>4, <2>5, <2>6 DEF Next
<1> QED  BY <1>1, Invariance, PTL DEF Spec, SettledStaysSettled
=============================================================================
