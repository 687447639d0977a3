# A TLA+ model of Corvus

Corvus runs AI agents in Firecracker VMs and lets them act only through a
server that checks every message against policy. This directory holds TLA+
modules of the parts of the code where the order of events matters, TLC
configurations that check them on small instances, and TLAPS proofs of the most
important properties for instances of any size. Paths below are relative to
`src/corvus/` of the repository.

Contents: [inventory](#inventory) · [plan](#plan) · [modules](#modules) ·
[runs](#runs) · [bounds](#bounds) · [fairness](#fairness) · [proofs](#proofs) ·
[findings](#findings) · [not modelled](#what-is-not-modelled)

## Inventory

Host side, one asyncio process (`server/main.py`), one shared `aiosqlite`
connection:

| Component | State | Operations | What makes it correct, and what is hard |
|---|---|---|---|
| Agent transport (`server/transport.py`) | `(agent, vm) -> connection`, writers | bind, unbind, deliver | Binding points at a live connection of that VM; teardown of an old connection spares a newer one. `deliver` awaits `drain()`. |
| Gateway (`server/vsock.py`) | connection ids | read a line, handle it, write the answer, tear down | One line at a time per connection, many connections interleave; every exit passes the `finally`. |
| Handshake (`server/handshake.py`) | none of its own | accept or refuse, create session, bind | `create_session` is awaited before binding. |
| Pending replay queue (`server/pending_replay.py`, table in `server/db.py`) | rows, `delivered_at` | enqueue, flush on ack | In order, nothing lost, at least once; flushes overlap, crashes between write and mark. |
| Elevations (`management/api.py`, `server/elevation_sweeper.py`, `server/db.py`) | status, expiry | create, approve, deny, expire | A decision is taken once and survives restarts; check and update are apart. |
| Elevation replay (`memory/elevation_replay.py`) | none of its own | grant, run the stored operation, deliver response and notice | Runs only under a grant, tells the VM once it did, ends. |
| Router (`server/router.py`) | none of its own | dispatch | Session, correlation and policy checks before any effect. |
| Sessions (`server/session.py`) | tokens, connection map | create, validate, drop | Token expiry; entry removed with its connection. |
| Correlation (`server/correlation.py`) | turn states | register, validate, purge | Depth bound under concurrent messages; purge against renewal. |
| Policy (`policy/*`) | rules, behavioural counters | match, combine | Deny wins, priorities, defaults; pure functions over facts. |
| Quotas (`policy/quota.py`) | counters per window | evaluate, increment | Evaluate and increment are apart; window roll-over. |
| Memory (`memory/service.py`, `memory/sweeper.py`) | records, embeddings | write, query, delete, sweep | Limits, record and embedding stay together, sweeps spare live records. |
| LLM service (`llm/*`) | providers | complete, stream | Chunks in order, one final response, tokens counted. |
| Tool service, skills (`tools/*`, `skills/*`) | registry, files | check and run a call | Results match calls. |
| VM launcher and registry (`vm/*`) | `registry.json`, processes | launch, stop, refresh | Record matches the process; launch against stop. |
| Management API, chat, UI (`management/*`) | rate-limit windows | HTTP endpoints | Read-modify-write around awaits; polling with timeouts. |
| Audit (`audit/store.py`) | append-only log | log, query | Its commits also commit other coroutines' statements. |

Guest side, one process per engine and one node process per VM:

| Component | State | Operations | What makes it correct, and what is hard |
|---|---|---|---|
| Node bus and session (`node/bus.py`, `node/session.py`, `node/main.py`) | outbound deque, connection, token | send, read loop, write loop, reconnect with handshake | Accepted messages are sent in order; nothing is written before the handshake; bounded queue. |
| Node IPC (`node/ipc.py`) | subscribed engines, pending inbound | subscribe, push, flush, submit | Order of inbound messages; re-subscription. |
| Node validator, routing, rate limit (`node/*`) | window | check a message | Pure checks. |
| Turn coordinator and engines (`runtime/*`) | phase, ready set, tool batch in a locked file | set and await phases, batches, abort | Terminal phases stay terminal; late completions; everyone waiting. |
| IPC client and service clients (`runtime/*_client.py`) | request futures | request, read loop | Requests resolve; handlers run inside the read loop. |

How they interact: an engine submits a message over IPC to the node, the node's
bus sends it to the server, the router checks it and either executes it, refuses
it, or stores it as an *elevation* for a human. An operator approves it later
over the management API; the server creates a grant, executes the stored memory
operation and sends the result to the VM, which may be offline by then. The
message then waits in `pending_replay` until the VM's next handshake ack.

The behaviour that is hardest to test is this last path. It spans a human
decision, an expiry sweeper, two messages per approval, connections that come
and go, overlapping flushes, a database connection whose commits are shared by
all coroutines, and restarts. It is modelled first.

## Plan

1. **Approval and delivery** (done): `ReplayDelivery` with its abstract
   specification `Outbox`; `Elevations`; their composition `ApprovalDelivery`;
   proofs about `ReplayDelivery` and `Elevations`.
2. **Node bus and session**: the outbound deque, read, write and reconnect
   loops, and the handshake with messages arriving in between; composed with the
   server's side of a connection. Bounds: queue of 2, 3 messages, 2 connections.
   Abstract specification: a bounded first-in first-out channel that may repeat
   a message around a reconnect. To prove: order, nothing accepted is dropped
   (or where exactly it is).
3. **Turn correlation and sessions**: `validate`, `register_user_query`, purge,
   token expiry; 2 turns, 3 messages, depth bound 2.
4. **Policy**: rule matching and the combiner as operators against a
   declarative reference, over all small rule sets. To prove: the combiner's
   precedence for any rules.
5. **Memory, sweeper, quotas**: write, query, delete and sweep with two commits
   per record; 2 writers, limit 2. To prove: what the sweeper may delete.
6. **Turn coordinator and engines**: phases, tool batches, timeouts, aborts;
   liveness of a turn. To prove: which phases follow which.
7. **Node IPC and engine IPC client**: subscription, pending messages, request
   futures.
8. **LLM stream** over the transport of step 1.
9. **VM launcher and registry**: launch and stop over one registry file.
10. **Refinement proofs**: `ReplayDelivery` implements `Outbox`, for any number
    of messages; the composition's safety properties.

## Modules

| Module | What it is |
|---|---|
| `Outbox` | What delivery promises: a durable first-in first-out mailbox per VM. |
| `ReplayDelivery` | Transport, gateway handler, handshake, ack and flush, deliver-or-queue. |
| `Elevations` | Create, expire, deny, approve; grant and replay steps of an approve request. |
| `ApprovalDelivery` | Both together: requests wait for the delivery of their messages, commits are shared. |
| `ReplayDeliveryProofs`, `ElevationsProofs` | The theorems. |
| `MC*` | Instances for TLC. |

**Granularity.** The server is one event loop, so a step is the code between two
awaits at which something else can run. `aiosqlite` runs the statements of the
one connection in the order in which they were submitted, on a thread of its
own. A statement is therefore visible to every later statement from the step
that submits it. `commit()` is another statement, submitted in a later step. It
commits whatever anyone has written by then. The modules keep the tables as the
statements see them and as they were last committed (`diskRows`, `diskMarked`,
`disk`); `Commit` is the commit of a coroutine outside the module, which can
come at any time; `Crash` and `Stop` go back to what was committed. A commit
that raises leaves the transaction open. Errors after which SQLite itself rolls
back the whole transaction (a full disk, an I/O error) are not modelled.

**ReplayDelivery.** `bound` is `AgentTransport._agent_connections`. A connection
slot goes from free to open when a node connects, to gone when the peer leaves,
and back to free in the `finally` block of `_handle_client` (`Teardown`). `pc` is
the position of its handler: idle (in `readline`), auth (awaiting in the
handshake), row, drain, mark (in `flush_for_vm`). The rows of a VM form a
sequence in creation order, since nothing deletes them; `marked` are the
positions with `delivered_at`. `mst[m]` is the coroutine that delivers message
`m` for an approval. `deliver` is split at `drain()`: the look-up and write are
one step, the outcome another. After the peer left, `is_closing()` and `drain()`
may each report it or not. `wrote` is a history variable.

**Elevations.** `status` is the column; `rpc[r]` the position of approve request
`r`; `seen[r]` the status it read. The UPDATEs look at no status, as in the code.
`due` stands for `expires_at <= now`. The INSERT and the commit of `create_grant`
are one step: nothing in the model reads grants in between, and a failure there
is `RequestFails` before it.

**ApprovalDelivery.** The steps of a request that touch delivery are joined with
`Hand`, and the next step waits until the message is sent or queued. A commit
anywhere commits for both parts. The operation stored in a grant request is
taken to come from the VM that sent the request, which is how the runtime builds
it, so both messages have one destination.

Definitions such as `Unbind_Writer` are variants of the definition that follows
them, each with one slip (a dropped guard, a missing reset). No specification
uses them. Put in place of the original they make a property fail, which is how
we know that the property is sensitive to the code it is about.

## Runs

| Configuration | Distinct states | What it shows |
|---|---|---|
| `ReplayDelivery_two_vms` | 476,339 | `TypeOK`; bindings are live and of the right VM; messages reach only their VM; a finished replay has written its message or has it on disk; old teardowns spare new bindings. |
| `ReplayDelivery_one_vm` | 86,079 | Delivered rows are the oldest, and were written; the whole implements `Outbox`. |
| `ReplayDelivery_live` | 7,888 | Handing over ends; a listed row is delivered unless connection or handler die. |
| `ReplayDelivery_flush` | 10,612 | A flush ends. |
| `Elevations` | 556,992 | Replays are authorised; a grant implies a durable decision; settled stays settled; expired is never approved; the sweeper spares decisions. |
| `Elevations_live` | 2,901 | An elevation past its expiry leaves "pending" for good, unless the server crashes for ever. |
| `ApprovalDelivery` | 263,958 | A 200 means that the VM was told or will be; nothing is told before the grant is durable; queued response precedes queued notice. |
| `ApprovalDelivery_live` | 18,444 | An approval ends. |
| `ReplayDelivery_ack_race` | | Violated, see [findings](#findings). |
| `Elevations_double_approve` | | Violated, see [findings](#findings). |

Run one with `tlc -config ReplayDelivery_two_vms.cfg MCReplayDelivery`.

## Bounds

* Two connections are enough for an old and a new connection of a VM, and for
  two overlapping flushes. Slots are reused, so any number of connections occurs
  in sequence.
* Two VMs of one agent are what distinguishes keying by agent from keying by
  VM. Their run has one message for each.
* Two messages for one VM give order, partial flushes, and a message queued
  during a flush.
* Two requests for one elevation give every race between them; the third
  request and the second elevation are there for grants that come from the
  stored message.
* The composition has one approval, with both of its messages.
* The liveness runs are smaller than the safety runs because TLC checks them
  without symmetry. `ReplayDelivery_live` has two connections and one message,
  `ReplayDelivery_flush` one connection and two messages. Overlapping flushes of
  several rows are checked for safety only.
* Nothing else is bounded: every message and every request is used once, so the
  state spaces are finite. Crashes and reconnects are unlimited.

## Fairness

`ReplayDelivery!Fairness` is weak fairness of what a connection handler and a
delivering coroutine do by themselves: asyncio resumes every coroutine whose
await has completed, and every statement completes. For `drain()` it means that
the peer keeps reading or the connection is lost in the end. Nothing is assumed
about nodes connecting, acking or leaving, nor about crashes. `Elevations` adds
weak fairness of the sweeper (`_run` loops for the life of the server and
survives exceptions) and of commits (every coroutine that writes commits next).
`DueElevationSettles` excepts servers that crash for ever, since a crash can
undo each sweep before its commit.

## Proofs

`tlapm ReplayDeliveryProofs.tla` and `tlapm ElevationsProofs.tla` check, for any
VMs, connections, messages, elevations and requests:

* `TypeCorrect` in both.
* `DeliveredInOrder`: `PrefixDelivered` and `MarkedWasWritten`.
* `DeliveredToItsVm`, `NoneForgotten`, `BindingIsStable`.
* `ReplaysAreAuthorised`, `GrantsAreFinal`, `ExpiredStaysUnapproved`,
  `SweeperSparesDecisions`, `SettledIsFinal`.

The assumptions are those on the constants: every message has a VM, every
request an elevation, and the null values are not connections or VMs.

*Delivery.* `PrefixDelivered` is not inductive. A flush marks a row by position
out of a list that it made earlier, while other flushes and senders change the
table. `FlushInv` says that every row older than one on a flush's list is on the
list too or already marked, and that what a flush drains was written. With
`IsFirst` this gives that a row is marked only after all older ones. A crash goes
back to the committed table, so `TableInv` is stated for both copies, and
`DiskInv` says that the committed rows are a prefix of the current ones, which a
commit needs for `NothingForgotten`. `SendInv` adds that a message being queued
has its row. `VmScoped` needs `BoundIsLive`, which needs `SlotInv`: a connection
that is not free has an owner.

*Elevations.* `GrantIsFinal` and `SettledIsFinal` rest on `StatusInv`: what is
committed as settled is not pending in the current table either, so that no
commit can unsettle it and no crash can. `ExpiredStaysUnapproved` needs that
"expired", current or committed, implies that the expiry has passed, because
`approve_elevation` looks at the clock after it has read the row. `RequestInv`
follows a request through its steps.

Only model-checked: every liveness property (the prover handles neither fairness
nor `ENABLED`), the refinement of `Outbox`, and the properties of
`ApprovalDelivery`.

## Findings

* `Elevations_double_approve`: `corvus-docs/docs/architecture/hypervisor/MANAGEMENT-API.md`
  says that approving rejects an elevation that is not pending with 409. Between
  the read and the unconditional UPDATE another request can approve or deny it;
  the second approval then overwrites that decision, creates its own grant and
  runs the operation again. What does hold is `SettledStaysSettled`: once a
  decision is committed and no request that read "pending" is under way, no later
  request gets in.
* `ReplayDelivery_ack_race`: the same document says that undelivered messages
  are flushed on the next handshake ack after reconnect. A message whose delivery
  fails while the VM reconnects can be queued just after that ack's flush has
  read the table. It then stays queued although the VM is online, until another
  reconnect. It is not lost (`NothingForgotten`).

## What is not modelled

`PROJECT.json` lists every component with the reason. In short: steps 2 to 10 of
the plan are still to come; the UI, the LLM providers, encryption, start-up,
configuration and the developer tools are input and output or run once, without
behaviour that a model would show. Delivery to the VM is at least once as far as
the connection goes: `deliver` returning is all that the server knows, and the
protocol has no acknowledgement, so "written" in the properties means written to
the connection. The wall clock is taken not to step backwards.
