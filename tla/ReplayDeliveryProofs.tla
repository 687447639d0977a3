------------------------ MODULE ReplayDeliveryProofs ------------------------
(***************************************************************************)
(* Proofs about ReplayDelivery, for any set of VMs, any number of          *)
(* connections and messages.                                               *)
(***************************************************************************)
EXTENDS ReplayDelivery, SequenceTheorems, TLAPS

(* A slot without a connection holds no coroutine and no line; every other *)
(* slot belongs to a VM.                                                   *)
SlotInv ==
    \A c \in Conns :
        /\ sock[c] = "free" => pc[c] = "idle" /\ line[c] = "none"
        /\ sock[c] # "free" => owner[c] \in Keys

(* What holds of the tables, as they are and as they were last committed:  *)
(* the queue of a VM holds messages for that VM, delivered_at is set on    *)
(* rows that exist and were written, and on the oldest ones only.          *)
TableInv(rs, ms) ==
    \A k \in Keys :
        /\ \A i \in 1 .. Len(rs[k]) : Dest[rs[k][i]] = k
        /\ \A i \in ms[k] : i \in 1 .. Len(rs[k]) /\ <<rs[k][i], k>> \in wrote
        /\ \A j \in ms[k] : \A i \in 1 .. j : i \in ms[k]

(* Rows are only added after the last commit.                              *)
DiskInv ==
    \A k \in Keys :
        /\ Len(diskRows[k]) <= Len(rows[k])
        /\ \A i \in 1 .. Len(diskRows[k]) : diskRows[k][i] = rows[k][i]

(* A flush works on rows that exist, has every older row either still to   *)
(* do or delivered, and is draining only what it has written.              *)
FlushInv ==
    \A c \in Conns : pc[c] \in {"row", "drain", "mark"} =>
        /\ todo[c] \subseteq 1 .. Len(rows[owner[c]])
        /\ \A i \in todo[c] : \A j \in 1 .. i : j \in todo[c] \/ j \in marked[owner[c]]
        /\ pc[c] = "drain" =>
            \A i \in todo[c] : IsFirst(c, i) => <<rows[owner[c]][i], owner[c]>> \in wrote

(* A message that is being drained was written to its VM; one that is      *)
(* being queued has its row.                                               *)
SendInv ==
    \A m \in Msgs :
        /\ mst[m] = "drain" => <<m, Dest[m]>> \in wrote
        /\ mst[m] = "insert" => \E i \in 1 .. Len(rows[Dest[m]]) : rows[Dest[m]][i] = m

QueueInv == TableInv(rows, marked) /\ TableInv(diskRows, diskMarked) /\ DiskInv

IInv ==
    /\ TypeOK /\ SlotInv /\ BoundIsLive /\ QueueInv /\ FlushInv /\ SendInv
    /\ VmScoped /\ NothingForgotten

USE DestAssumption, NoConnAssumption, NoKeyAssumption

(* Where the rows of a queue are after Append.                             *)
LEMMA AppendRow ==
    ASSUME NEW S, NEW s \in Seq(S), NEW x \in S
    PROVE  /\ Append(s, x) \in Seq(S)
           /\ Len(Append(s, x)) = Len(s) + 1
           /\ \A i \in 1 .. Len(s) : Append(s, x)[i] = s[i]
           /\ Append(s, x)[Len(s) + 1] = x
BY AppendProperties

(* The tables stay right when more is written to the VMs.                  *)
LEMMA TablesWritten ==
    ASSUME IInv, UNCHANGED dbVars, wrote \subseteq wrote' PROVE QueueInv'
<1>1. UNCHANGED <<rows, marked, diskRows, diskMarked>>
    BY DEF dbVars, diskVars
<1>2. TableInv(rows, marked)'
    BY <1>1 DEF IInv, QueueInv, TableInv
<1>3. TableInv(diskRows, diskMarked)'
    BY <1>1 DEF IInv, QueueInv, TableInv
<1>4. DiskInv'
    BY <1>1 DEF IInv, QueueInv, DiskInv
<1> QED  BY <1>2, <1>3, <1>4 DEF QueueInv

(* Steps that leave the tables and the senders alone keep what is said     *)
(* about them.                                                             *)
LEMMA TablesKept ==
    ASSUME IInv, UNCHANGED <<dbVars, mst, wrote>>
    PROVE  QueueInv' /\ SendInv' /\ VmScoped' /\ NothingForgotten'
<1>1. UNCHANGED <<rows, marked, diskRows, diskMarked, mst, wrote>>
    BY DEF dbVars, diskVars
<1>2. QueueInv'
    BY TablesWritten
<1>3. SendInv' /\ VmScoped'
    BY <1>1 DEF IInv, SendInv, VmScoped
<1>4. NothingForgotten'
    BY <1>1 DEF IInv, NothingForgotten
<1> QED  BY <1>2, <1>3, <1>4

(* A commit makes durable what is in the tables.                           *)
LEMMA SyncInv ==
    ASSUME IInv, Sync, UNCHANGED <<rows, marked, wrote>>
    PROVE  /\ QueueInv'
           /\ \A m \in Msgs :
                (mst[m] = "done" => \/ <<m, Dest[m]>> \in wrote'
                                    \/ \E i \in 1 .. Len(diskRows'[Dest[m]]) :
                                          diskRows'[Dest[m]][i] = m)
<1>1. diskRows' = rows /\ diskMarked' = marked
    BY DEF Sync
<1>2. \A k \in Keys : Len(rows[k]) \in Nat /\ Len(diskRows[k]) \in Nat
    BY DEF IInv, TypeOK
<1>3. QueueInv'
    BY <1>1, <1>2 DEF IInv, QueueInv, TableInv, DiskInv
<1>4. ASSUME NEW m \in Msgs, NEW i \in 1 .. Len(diskRows[Dest[m]]),
             diskRows[Dest[m]][i] = m
      PROVE  i \in 1 .. Len(rows[Dest[m]]) /\ rows[Dest[m]][i] = m
    BY <1>2, <1>4 DEF IInv, QueueInv, DiskInv
<1> QED  BY <1>1, <1>3, <1>4 DEF IInv, NothingForgotten

(* Steps of senders leave the connections as they are; a flush keeps its   *)
(* invariant when rows are only appended and marks and writes only grow.   *)
LEMMA ConnsKept ==
    ASSUME IInv, UNCHANGED <<connVars, bound, marked>>,
           wrote \subseteq wrote',
           \A k \in Keys : /\ Len(rows[k]) <= Len(rows'[k]) /\ Len(rows'[k]) \in Nat
                           /\ \A i \in 1 .. Len(rows[k]) : rows'[k][i] = rows[k][i]
    PROVE  SlotInv' /\ BoundIsLive' /\ FlushInv'
<1>1. SlotInv' /\ BoundIsLive'
    BY DEF IInv, SlotInv, BoundIsLive, connVars
<1>2. FlushInv'
  <2> SUFFICES ASSUME NEW c \in Conns, pc[c] \in {"row", "drain", "mark"}
               PROVE  /\ todo[c] \subseteq 1 .. Len(rows'[owner[c]])
                      /\ \A i \in todo[c] : \A j \in 1 .. i :
                            j \in todo[c] \/ j \in marked[owner[c]]
                      /\ pc[c] = "drain" => \A i \in todo[c] : IsFirst(c, i) =>
                            <<rows'[owner[c]][i], owner[c]>> \in wrote'
    BY DEF FlushInv, IsFirst, connVars
  <2>1. owner[c] \in Keys
    BY DEF IInv, TypeOK, SlotInv
  <2>2. todo[c] \subseteq 1 .. Len(rows[owner[c]]) /\ Len(rows[owner[c]]) \in Nat
    BY <2>1 DEF IInv, TypeOK, FlushInv
  <2>3. todo[c] \subseteq 1 .. Len(rows'[owner[c]])
    BY <2>1, <2>2
  <2>4. \A i \in todo[c] : rows'[owner[c]][i] = rows[owner[c]][i]
    BY <2>1, <2>2
  <2>5. \A i \in todo[c] : \A j \in 1 .. i : j \in todo[c] \/ j \in marked[owner[c]]
    BY DEF IInv, FlushInv
  <2>6. pc[c] = "drain" => \A i \in todo[c] : IsFirst(c, i) =>
            <<rows[owner[c]][i], owner[c]>> \in wrote
    BY DEF IInv, FlushInv
  <2> QED  BY <2>3, <2>4, <2>5, <2>6
<1> QED  BY <1>1, <1>2

(* The initial state satisfies the inductive invariant.                    *)
LEMMA InitIInv == Init => IInv
BY DEF Init, IInv, TypeOK, SlotInv, BoundIsLive, QueueInv, TableInv, DiskInv, FlushInv,
       SendInv, VmScoped, NothingForgotten

(* The end of a connection, by the peer or by an exception.                *)
LEMMA TeardownIInv == ASSUME NEW c \in Conns, IInv, Teardown(c) PROVE IInv'
<1>1. QueueInv' /\ SendInv' /\ VmScoped' /\ NothingForgotten'
    BY TablesKept DEF Teardown, dbVars, diskVars
<1>2. TypeOK'
    BY DEF IInv, TypeOK, Teardown, Unbind, Forget, dbVars, diskVars
<1>3. SlotInv' /\ BoundIsLive'
    BY DEF IInv, TypeOK, SlotInv, BoundIsLive, Teardown, Unbind, dbVars, diskVars
<1>4. FlushInv'
    BY DEF IInv, TypeOK, FlushInv, IsFirst, Teardown, dbVars, diskVars
<1> QED  BY <1>1, <1>2, <1>3, <1>4 DEF IInv

(* A flush that stops forgets its list.                                    *)
LEMMA StopFlushIInv == ASSUME NEW c \in Conns, IInv, StopFlush(c) PROVE IInv'
<1>1. QueueInv' /\ SendInv' /\ VmScoped' /\ NothingForgotten'
    BY TablesKept DEF StopFlush, dbVars, diskVars, sendVars
<1>2. TypeOK' /\ SlotInv' /\ BoundIsLive'
    BY DEF IInv, TypeOK, SlotInv, BoundIsLive, StopFlush, dbVars, diskVars, sendVars
<1>3. FlushInv'
    BY DEF IInv, TypeOK, FlushInv, IsFirst, StopFlush, dbVars, diskVars, sendVars
<1> QED  BY <1>1, <1>2, <1>3 DEF IInv

(* Queueing a message appends a row for its own VM.                        *)
LEMMA EnqueueIInv == ASSUME NEW m \in Msgs, IInv, Enqueue(m) PROVE IInv'
<1> DEFINE k == Dest[m]
<1>1. k \in Keys /\ rows \in [Keys -> Seq(Msgs)]
    BY DEF IInv, TypeOK
<1>2. rows'[k] = Append(rows[k], m) /\ \A h \in Keys \ {k} : rows'[h] = rows[h]
    BY <1>1 DEF Enqueue
<1>3. /\ rows'[k] \in Seq(Msgs) /\ Len(rows'[k]) = Len(rows[k]) + 1
      /\ \A i \in 1 .. Len(rows[k]) : rows'[k][i] = rows[k][i]
      /\ rows'[k][Len(rows[k]) + 1] = m
    BY <1>1, <1>2, AppendRow
<1>4. \A h \in Keys : /\ Len(rows[h]) \in Nat /\ Len(rows'[h]) \in Nat
                      /\ Len(diskRows[h]) \in Nat
    BY <1>1, <1>2, <1>3 DEF IInv, TypeOK
<1>5. \A h \in Keys : /\ Len(rows[h]) <= Len(rows'[h])
                      /\ \A i \in 1 .. Len(rows[h]) : rows'[h][i] = rows[h][i]
    BY <1>2, <1>3, <1>4
<1>6. UNCHANGED <<connVars, bound, marked, diskRows, diskMarked, wrote>>
    BY DEF Enqueue, diskVars
<1>7. SlotInv' /\ BoundIsLive' /\ FlushInv'
    BY <1>4, <1>5, <1>6, ConnsKept
<1>8. TypeOK'
    BY DEF IInv, TypeOK, Enqueue, connVars, diskVars
<1>9. QueueInv'
  <2>1. ASSUME NEW h \in Keys, NEW i \in 1 .. Len(rows'[h])
        PROVE  Dest[rows'[h][i]] = h
    <3>1. CASE h = k /\ i = Len(rows[k]) + 1
      BY <3>1, <1>3
    <3>2. CASE h = k /\ i # Len(rows[k]) + 1
      <4>1. i \in 1 .. Len(rows[k])
        BY <3>2, <1>1, <1>3, <1>4
      <4>2. rows'[k][i] = rows[k][i]
        BY <4>1, <1>3
      <4> QED  BY <3>2, <4>1, <4>2, <1>1 DEF IInv, QueueInv, TableInv
    <3>3. CASE h # k
      <4>1. rows'[h] = rows[h]
        BY <3>3, <1>2
      <4> QED  BY <4>1 DEF IInv, QueueInv, TableInv
    <3> QED  BY <3>1, <3>2, <3>3
  <2>2. ASSUME NEW h \in Keys, NEW i \in marked[h]
        PROVE  i \in 1 .. Len(rows'[h]) /\ <<rows'[h][i], h>> \in wrote
    <3>1. i \in 1 .. Len(rows[h]) /\ <<rows[h][i], h>> \in wrote
      BY DEF IInv, QueueInv, TableInv
    <3> QED  BY <3>1, <1>4, <1>5
  <2>3. TableInv(rows, marked)'
    BY <2>1, <2>2, <1>6 DEF IInv, QueueInv, TableInv
  <2>4. TableInv(diskRows, diskMarked)'
    BY <1>6 DEF IInv, QueueInv, TableInv
  <2>5. ASSUME NEW h \in Keys
        PROVE  /\ Len(diskRows[h]) <= Len(rows'[h])
               /\ \A i \in 1 .. Len(diskRows[h]) : diskRows[h][i] = rows'[h][i]
    <3>1. /\ Len(diskRows[h]) <= Len(rows[h])
          /\ \A i \in 1 .. Len(diskRows[h]) : diskRows[h][i] = rows[h][i]
      BY DEF IInv, QueueInv, DiskInv
    <3>2. 1 .. Len(diskRows[h]) \subseteq 1 .. Len(rows[h])
      BY <3>1, <1>4
    <3> QED  BY <3>1, <3>2, <1>4, <1>5
  <2> QED  BY <2>3, <2>4, <2>5, <1>6 DEF QueueInv, DiskInv
<1>10. SendInv'
  <2>1. mst' = [mst EXCEPT ![m] = "insert"]
    BY DEF Enqueue
  <2>2. \E i \in 1 .. Len(rows'[k]) : rows'[k][i] = m
    BY <1>1, <1>3, <1>4
  <2>3. ASSUME NEW n \in Msgs, NEW i \in 1 .. Len(rows[Dest[n]]), rows[Dest[n]][i] = n
        PROVE  i \in 1 .. Len(rows'[Dest[n]]) /\ rows'[Dest[n]][i] = n
    BY <2>3, <1>4, <1>5
  <2> SUFFICES ASSUME NEW n \in Msgs
               PROVE  /\ mst'[n] = "drain" => <<n, Dest[n]>> \in wrote'
                      /\ mst'[n] = "insert" =>
                            \E i \in 1 .. Len(rows'[Dest[n]]) : rows'[Dest[n]][i] = n
    BY DEF SendInv
  <2>4. CASE n = m
    BY <2>1, <2>2, <2>4 DEF IInv, TypeOK
  <2>5. CASE n # m
    <3>1. mst'[n] = mst[n]
      BY <2>1, <2>5 DEF IInv, TypeOK
    <3> QED  BY <2>3, <3>1, <1>6 DEF IInv, SendInv
  <2> QED  BY <2>4, <2>5
<1>11. VmScoped' /\ NothingForgotten'
  <2>1. \A n \in Msgs : mst'[n] = "done" => mst[n] = "done"
    BY DEF IInv, TypeOK, Enqueue
  <2>2. VmScoped'
    BY <1>6 DEF IInv, VmScoped
  <2>3. NothingForgotten'
    BY <2>1, <1>6 DEF IInv, NothingForgotten
  <2> QED  BY <2>2, <2>3
<1> QED  BY <1>7, <1>8, <1>9, <1>10, <1>11 DEF IInv

(* Every step preserves the inductive invariant.                           *)
LEMMA NextIInv == IInv /\ [Next]_vars => IInv'
<1> SUFFICES ASSUME IInv, [Next]_vars PROVE IInv'
    OBVIOUS
<1>1. ASSUME NEW c \in Conns, NEW k \in Keys, NodeConnect(c, k) PROVE IInv'
  <2>1. QueueInv' /\ SendInv' /\ VmScoped' /\ NothingForgotten'
    BY <1>1, TablesKept DEF NodeConnect, dbVars, diskVars, sendVars
  <2>2. TypeOK'
    BY <1>1 DEF IInv, TypeOK, NodeConnect, dbVars, diskVars, sendVars
  <2>3. SlotInv' /\ BoundIsLive'
    BY <1>1 DEF IInv, TypeOK, SlotInv, BoundIsLive, NodeConnect
  <2>4. FlushInv'
    BY <1>1 DEF IInv, TypeOK, SlotInv, FlushInv, IsFirst, NodeConnect, dbVars, diskVars
  <2> QED  BY <2>1, <2>2, <2>3, <2>4 DEF IInv
<1>2. ASSUME NEW c \in Conns,
             NodeAck(c) \/ PeerLost(c) \/ HandshakeStart(c) \/ HandshakeRefuse(c)
      PROVE  IInv'
  <2>1. QueueInv' /\ SendInv' /\ VmScoped' /\ NothingForgotten'
    BY <1>2, TablesKept
    DEF NodeAck, PeerLost, HandshakeStart, HandshakeRefuse, dbVars, diskVars, sendVars
  <2>2. CASE NodeAck(c)
    <3>1. TypeOK'
      BY <2>2 DEF IInv, TypeOK, NodeAck, dbVars, diskVars, sendVars
    <3>2. SlotInv' /\ BoundIsLive'
      BY <2>2 DEF IInv, TypeOK, SlotInv, BoundIsLive, NodeAck
    <3>3. FlushInv'
      BY <2>2 DEF IInv, TypeOK, FlushInv, IsFirst, NodeAck, dbVars, diskVars
    <3> QED  BY <2>1, <3>1, <3>2, <3>3 DEF IInv
  <2>3. CASE PeerLost(c)
    <3>1. TypeOK'
      BY <2>3 DEF IInv, TypeOK, PeerLost, dbVars, diskVars, sendVars
    <3>2. SlotInv' /\ BoundIsLive'
      BY <2>3 DEF IInv, TypeOK, SlotInv, BoundIsLive, PeerLost
    <3>3. FlushInv'
      BY <2>3 DEF IInv, TypeOK, FlushInv, IsFirst, PeerLost, dbVars, diskVars
    <3> QED  BY <2>1, <3>1, <3>2, <3>3 DEF IInv
  <2>4. CASE HandshakeStart(c)
    <3>1. TypeOK'
      BY <2>4 DEF IInv, TypeOK, HandshakeStart, dbVars, diskVars, sendVars
    <3>2. SlotInv' /\ BoundIsLive'
      BY <2>4 DEF IInv, TypeOK, SlotInv, BoundIsLive, HandshakeStart
    <3>3. FlushInv'
      BY <2>4 DEF IInv, TypeOK, FlushInv, IsFirst, HandshakeStart, dbVars, diskVars
    <3> QED  BY <2>1, <3>1, <3>2, <3>3 DEF IInv
  <2>5. CASE HandshakeRefuse(c)
    <3>1. TypeOK'
      BY <2>5 DEF IInv, TypeOK, HandshakeRefuse, dbVars, diskVars, sendVars
    <3>2. SlotInv' /\ BoundIsLive'
      BY <2>5 DEF IInv, TypeOK, SlotInv, BoundIsLive, HandshakeRefuse
    <3>3. FlushInv'
      BY <2>5 DEF IInv, TypeOK, FlushInv, IsFirst, HandshakeRefuse, dbVars, diskVars
    <3> QED  BY <2>1, <3>1, <3>2, <3>3 DEF IInv
  <2> QED  BY <1>2, <2>2, <2>3, <2>4, <2>5
<1>3. ASSUME NEW c \in Conns, HandshakeBind(c) PROVE IInv'
  <2>1. QueueInv' /\ SendInv' /\ VmScoped' /\ NothingForgotten'
    BY <1>3, TablesKept DEF HandshakeBind, dbVars, diskVars, sendVars
  <2>2. TypeOK' /\ SlotInv' /\ BoundIsLive'
    BY <1>3 DEF IInv, TypeOK, SlotInv, BoundIsLive, HandshakeBind, Bind, dbVars, diskVars, sendVars
  <2>3. FlushInv'
    BY <1>3 DEF IInv, TypeOK, FlushInv, IsFirst, HandshakeBind, dbVars, diskVars
  <2> QED  BY <2>1, <2>2, <2>3 DEF IInv
<1>4. ASSUME NEW c \in Conns, Disconnect(c) \/ HandlerError(c) PROVE IInv'
    BY <1>4, TeardownIInv DEF Disconnect, HandlerError
<1>5. ASSUME NEW c \in Conns, FlushList(c) PROVE IInv'
  <2>1. QueueInv' /\ SendInv' /\ VmScoped' /\ NothingForgotten'
    BY <1>5, TablesKept DEF FlushList, dbVars, diskVars, sendVars
  <2>2. TypeOK' /\ SlotInv' /\ BoundIsLive'
    BY <1>5 DEF IInv, TypeOK, SlotInv, BoundIsLive, FlushList, Undelivered,
                dbVars, diskVars, sendVars
  <2>3. FlushInv'
    <3>1. /\ UNCHANGED <<owner, rows, marked, wrote>>
          /\ todo' = [todo EXCEPT ![c] = Undelivered(owner[c])]
          /\ pc'[c] \in {"idle", "row"} /\ \A d \in Conns \ {c} : pc'[d] = pc[d]
      BY <1>5 DEF IInv, TypeOK, FlushList, dbVars
    <3>2. todo'[c] = (1 .. Len(rows[owner[c]])) \ marked[owner[c]]
      BY <3>1 DEF IInv, TypeOK, Undelivered
    <3>3. ASSUME NEW d \in Conns, d # c PROVE todo'[d] = todo[d]
      BY <3>1, <3>3 DEF IInv, TypeOK
    <3>4. owner[c] \in Keys
      BY <1>5 DEF IInv, TypeOK, SlotInv, FlushList
    <3>5. Len(rows[owner[c]]) \in Nat
      BY <3>4 DEF IInv, TypeOK
    <3>6. \A i \in todo'[c] : \A j \in 1 .. i : j \in todo'[c] \/ j \in marked[owner[c]]
      BY <3>2, <3>5
    <3>7. ASSUME NEW d \in Conns, d # c, NEW i PROVE IsFirst(d, i)' <=> IsFirst(d, i)
      BY <3>3, <3>7 DEF IsFirst
    <3> SUFFICES ASSUME NEW d \in Conns, pc'[d] \in {"row", "drain", "mark"}
                 PROVE  /\ todo'[d] \subseteq 1 .. Len(rows[owner[d]])
                        /\ \A i \in todo'[d] : \A j \in 1 .. i :
                              j \in todo'[d] \/ j \in marked[owner[d]]
                        /\ pc'[d] = "drain" => \A i \in todo'[d] :
                              IsFirst(d, i)' => <<rows[owner[d]][i], owner[d]>> \in wrote
      BY <3>1 DEF FlushInv
    <3>8. CASE d = c
      BY <3>1, <3>2, <3>6, <3>8
    <3>9. CASE d # c
      BY <3>1, <3>3, <3>7, <3>9 DEF IInv, FlushInv
    <3> QED  BY <3>8, <3>9
  <2> QED  BY <2>1, <2>2, <2>3 DEF IInv
<1>6. ASSUME NEW c \in Conns, FlushWrite(c) PROVE IInv'
  <2>1. owner[c] \in Keys /\ owner[bound[owner[c]]] = owner[c]
    BY <1>6 DEF IInv, TypeOK, SlotInv, BoundIsLive, FlushWrite, DeliverWrites
  <2>2. PICK i \in todo[c] : /\ IsFirst(c, i)
                             /\ wrote' = wrote \cup {<<rows[owner[c]][i], owner[c]>>}
    BY <1>6, <2>1 DEF FlushWrite, Written
  <2>3. rows[owner[c]][i] \in Msgs /\ Dest[rows[owner[c]][i]] = owner[c]
    <3>1. i \in 1 .. Len(rows[owner[c]])
      BY <1>6, <2>1 DEF IInv, FlushInv, FlushWrite
    <3> QED  BY <2>1, <3>1 DEF IInv, TypeOK, QueueInv, TableInv
  <2>4. UNCHANGED <<rows, marked, mst, svia, diskRows, diskMarked>>
    BY <1>6 DEF FlushWrite, dbVars, diskVars, sendVars
  <2>5. TypeOK' /\ SlotInv' /\ BoundIsLive'
    <3>1. wrote' \subseteq (Msgs \X Keys)
      BY <2>1, <2>2, <2>3 DEF IInv, TypeOK
    <3>2. fvia' \in [Conns -> Conns \cup {NoConn}]
      BY <1>6, <2>1 DEF IInv, TypeOK, FlushWrite
    <3>3. TypeOK'
      BY <1>6, <2>4, <3>1, <3>2 DEF IInv, TypeOK, FlushWrite
    <3>4. SlotInv' /\ BoundIsLive'
      BY <1>6 DEF IInv, TypeOK, SlotInv, BoundIsLive, FlushWrite
    <3> QED  BY <3>3, <3>4
  <2>6. QueueInv'
    BY <2>2, <2>4, TablesWritten DEF dbVars, diskVars
  <2>7. SendInv'
    BY <2>2, <2>4 DEF IInv, SendInv
  <2>8. VmScoped'
    BY <2>2, <2>3 DEF IInv, VmScoped
  <2>9. FlushInv'
    <3> SUFFICES ASSUME NEW d \in Conns, pc'[d] \in {"row", "drain", "mark"}
                 PROVE  /\ todo[d] \subseteq 1 .. Len(rows[owner[d]])
                        /\ \A h \in todo[d] : \A j \in 1 .. h :
                              j \in todo[d] \/ j \in marked[owner[d]]
                        /\ pc'[d] = "drain" => \A h \in todo[d] :
                              IsFirst(d, h) => <<rows[owner[d]][h], owner[d]>> \in wrote'
      BY <1>6, <2>4 DEF FlushInv, IsFirst, FlushWrite
    <3>1. CASE d = c
      <4>1. pc[d] = "row"
        BY <1>6, <3>1 DEF FlushWrite
      <4>2. \A h \in todo[d] : IsFirst(d, h) => h = i
        <5>1. todo[d] \subseteq Nat
          BY DEF IInv, TypeOK
        <5> QED  BY <2>2, <3>1, <5>1 DEF IsFirst
      <4> QED  BY <2>2, <3>1, <4>1, <4>2 DEF IInv, FlushInv
    <3>2. CASE d # c
      <4>1. pc'[d] = pc[d]
        BY <1>6, <3>2 DEF IInv, TypeOK, FlushWrite
      <4> QED  BY <2>2, <4>1 DEF IInv, FlushInv
    <3> QED  BY <3>1, <3>2
  <2>10. NothingForgotten'
    BY <2>2, <2>4 DEF IInv, NothingForgotten
  <2> QED  BY <2>5, <2>6, <2>7, <2>8, <2>9, <2>10 DEF IInv
<1>7. ASSUME NEW c \in Conns, FlushRefused(c) \/ FlushDrainFails(c) PROVE IInv'
    BY <1>7, StopFlushIInv DEF FlushRefused, FlushDrainFails
<1>8. ASSUME NEW c \in Conns, FlushDelivered(c) PROVE IInv'
  <2>1. PICK i \in todo[c] :
            /\ IsFirst(c, i)
            /\ marked' = [marked EXCEPT ![owner[c]] = @ \cup {i}]
            /\ todo' = [todo EXCEPT ![c] = @ \ {i}]
    BY <1>8 DEF FlushDelivered
  <2>2. /\ owner[c] \in Keys /\ i \in 1 .. Len(rows[owner[c]])
        /\ <<rows[owner[c]][i], owner[c]>> \in wrote
        /\ \A j \in 1 .. i : j = i \/ j \in marked[owner[c]]
    BY <1>8, <2>1 DEF IInv, TypeOK, SlotInv, FlushInv, IsFirst, FlushDelivered
  <2>3. UNCHANGED <<rows, mst, svia, diskRows, diskMarked, wrote>>
    BY <1>8 DEF FlushDelivered, diskVars, sendVars
  <2>4. TypeOK' /\ SlotInv' /\ BoundIsLive'
    <3>1. marked' \in [Keys -> SUBSET Nat] /\ todo' \in [Conns -> SUBSET Nat]
      BY <1>8, <2>1, <2>2 DEF IInv, TypeOK
    <3>2. TypeOK'
      BY <1>8, <2>3, <3>1 DEF IInv, TypeOK, FlushDelivered
    <3>3. SlotInv' /\ BoundIsLive'
      BY <1>8 DEF IInv, TypeOK, SlotInv, BoundIsLive, FlushDelivered
    <3> QED  BY <3>2, <3>3
  <2>5. QueueInv'
    <3>1. \A k \in Keys : \A j \in marked'[k] :
              j \in marked[k] \/ (k = owner[c] /\ j = i)
      BY <2>1, <2>2 DEF IInv, TypeOK
    <3>2. \A k \in Keys : marked[k] \subseteq marked'[k]
      BY <2>1, <2>2 DEF IInv, TypeOK
    <3>3. i \in marked'[owner[c]]
      BY <2>1, <2>2 DEF IInv, TypeOK
    <3>4. ASSUME NEW k \in Keys, NEW j \in marked'[k]
          PROVE  /\ j \in 1 .. Len(rows[k]) /\ <<rows[k][j], k>> \in wrote
                 /\ \A h \in 1 .. j : h \in marked'[k]
      <4>1. CASE j \in marked[k]
        BY <3>2, <4>1 DEF IInv, QueueInv, TableInv
      <4>2. CASE k = owner[c] /\ j = i
        BY <2>2, <3>2, <3>3, <4>2
      <4> QED  BY <3>1, <4>1, <4>2
    <3>5. TableInv(rows, marked)'
      BY <2>3, <3>4 DEF IInv, QueueInv, TableInv
    <3>6. TableInv(diskRows, diskMarked)' /\ DiskInv'
      BY <2>3 DEF IInv, QueueInv, TableInv, DiskInv
    <3> QED  BY <3>5, <3>6 DEF QueueInv
  <2>6. SendInv' /\ VmScoped'
    BY <2>3 DEF IInv, SendInv, VmScoped
  <2>7. FlushInv'
    <3> SUFFICES ASSUME NEW d \in Conns, pc'[d] \in {"row", "drain", "mark"}
                 PROVE  /\ todo'[d] \subseteq 1 .. Len(rows[owner[d]])
                        /\ \A h \in todo'[d] : \A j \in 1 .. h :
                              j \in todo'[d] \/ j \in marked'[owner[d]]
                        /\ pc'[d] = "drain" => \A h \in todo'[d] :
                              IsFirst(d, h)' => <<rows[owner[d]][h], owner[d]>> \in wrote
      BY <1>8, <2>3 DEF FlushInv, FlushDelivered
    <3>1. pc[d] \in {"row", "drain", "mark"} /\ owner[d] \in Keys
      BY <1>8 DEF IInv, TypeOK, SlotInv, FlushDelivered
    <3>2. \A k \in Keys : marked[k] \subseteq marked'[k]
      BY <2>1, <2>2 DEF IInv, TypeOK
    <3>3. CASE d = c
      <4>1. pc'[d] = "mark" /\ todo'[d] = todo[d] \ {i} /\ i \in marked'[owner[d]]
        BY <1>8, <2>1, <2>2, <3>3 DEF IInv, TypeOK, FlushDelivered
      <4> QED  BY <3>1, <3>2, <4>1 DEF IInv, FlushInv
    <3>4. CASE d # c
      <4>1. pc'[d] = pc[d] /\ todo'[d] = todo[d]
        BY <1>8, <2>1, <3>4 DEF IInv, TypeOK, FlushDelivered
      <4> QED  BY <3>1, <3>2, <4>1 DEF IInv, FlushInv, IsFirst
    <3> QED  BY <3>3, <3>4
  <2>8. NothingForgotten'
    BY <2>3 DEF IInv, NothingForgotten
  <2> QED  BY <2>4, <2>5, <2>6, <2>7, <2>8 DEF IInv
<1>9. ASSUME NEW c \in Conns, FlushCommit(c) PROVE IInv'
  <2>1. Sync /\ UNCHANGED <<rows, marked, mst, svia, wrote>>
    BY <1>9 DEF FlushCommit, sendVars
  <2>2. QueueInv' /\ NothingForgotten'
    BY <2>1, SyncInv DEF NothingForgotten
  <2>3. SendInv' /\ VmScoped'
    BY <2>1 DEF IInv, SendInv, VmScoped
  <2>4. TypeOK'
    BY <1>9, <2>1 DEF IInv, TypeOK, FlushCommit, Sync
  <2>5. SlotInv' /\ BoundIsLive'
    BY <1>9 DEF IInv, TypeOK, SlotInv, BoundIsLive, FlushCommit
  <2>6. FlushInv'
    BY <1>9, <2>1 DEF IInv, TypeOK, FlushInv, IsFirst, FlushCommit
  <2> QED  BY <2>2, <2>3, <2>4, <2>5, <2>6 DEF IInv
<1>10. ASSUME NEW m \in Msgs, Hand(m) \/ SendDelivered(m) \/ EnqueueError(m) PROVE IInv'
  <2>1. UNCHANGED <<connVars, bound, dbVars, wrote>>
    BY <1>10 DEF Hand, SendDelivered, EnqueueError
  <2>2. UNCHANGED <<rows, marked, diskRows, diskMarked, wrote>>
    BY <2>1 DEF dbVars, diskVars
  <2>3. \A n \in Msgs : /\ mst'[n] \in {"drain", "insert"} => mst'[n] = mst[n]
                        /\ mst'[n] = "done" => mst[n] \in {"drain", "done"}
    BY <1>10 DEF IInv, TypeOK, Hand, SendDelivered, EnqueueError
  <2>4. SlotInv' /\ BoundIsLive' /\ FlushInv'
    BY <2>1, <2>2, ConnsKept DEF IInv, TypeOK
  <2>5. TypeOK'
    <3>1. \E w \in {"deliver", "done", "lost"} : mst' = [mst EXCEPT ![m] = w]
      BY <1>10 DEF Hand, SendDelivered, EnqueueError
    <3>2. svia' = svia \/ svia' = [svia EXCEPT ![m] = NoConn]
      BY <1>10 DEF Hand, SendDelivered, EnqueueError
    <3>3. mst' \in [Msgs -> {"none", "deliver", "drain", "insert", "done", "lost"}]
      BY <3>1 DEF IInv, TypeOK
    <3>4. svia' \in [Msgs -> Conns \cup {NoConn}]
      BY <3>2 DEF IInv, TypeOK
    <3> QED  BY <2>1, <2>2, <3>3, <3>4 DEF IInv, TypeOK, connVars
  <2>6. QueueInv' /\ VmScoped'
    BY <2>1, <2>2, TablesWritten DEF IInv, VmScoped
  <2>7. SendInv'
    BY <2>2, <2>3 DEF IInv, SendInv
  <2>8. NothingForgotten'
    BY <2>2, <2>3 DEF IInv, SendInv, NothingForgotten
  <2> QED  BY <2>4, <2>5, <2>6, <2>7, <2>8 DEF IInv
<1>11. ASSUME NEW m \in Msgs, SendWrite(m) PROVE IInv'
  <2>1. wrote' = wrote \cup {<<m, Dest[m]>>}
    BY <1>11 DEF IInv, TypeOK, BoundIsLive, SendWrite, DeliverWrites, Written
  <2>2. UNCHANGED <<connVars, bound, dbVars, rows, marked, diskRows, diskMarked>>
    BY <1>11 DEF SendWrite, dbVars, diskVars
  <2>3. mst' = [mst EXCEPT ![m] = "drain"]
    BY <1>11 DEF SendWrite
  <2>4. SlotInv' /\ BoundIsLive' /\ FlushInv'
    BY <2>1, <2>2, ConnsKept DEF IInv, TypeOK
  <2>5. TypeOK'
    BY <1>11, <2>1, <2>2 DEF IInv, TypeOK, BoundIsLive, SendWrite, connVars
  <2>6. QueueInv'
    BY <2>1, <2>2, TablesWritten
  <2>7. SendInv' /\ VmScoped'
    BY <2>1, <2>2, <2>3 DEF IInv, TypeOK, SendInv, VmScoped
  <2>8. NothingForgotten'
    <3>1. \A n \in Msgs : mst'[n] = "done" => mst[n] = "done"
      BY <2>3 DEF IInv, TypeOK
    <3> QED  BY <2>1, <2>2, <3>1 DEF IInv, NothingForgotten
  <2> QED  BY <2>4, <2>5, <2>6, <2>7, <2>8 DEF IInv
<1>12. ASSUME NEW m \in Msgs, SendRefused(m) \/ SendDrainFails(m) PROVE IInv'
    BY <1>12, EnqueueIInv DEF SendRefused, SendDrainFails
<1>13. ASSUME NEW m \in Msgs, EnqueueCommit(m) PROVE IInv'
  <2>1. /\ Sync /\ UNCHANGED <<connVars, bound, rows, marked, wrote>>
        /\ mst[m] = "insert" /\ mst' = [mst EXCEPT ![m] = "done"]
    BY <1>13 DEF EnqueueCommit
  <2>2. QueueInv'
    BY <2>1, SyncInv
  <2>3. SlotInv' /\ BoundIsLive' /\ FlushInv'
    BY <2>1, ConnsKept DEF IInv, TypeOK
  <2>4. TypeOK'
    BY <1>13, <2>1 DEF IInv, TypeOK, EnqueueCommit, Sync, connVars
  <2>5. SendInv' /\ VmScoped'
    BY <2>1 DEF IInv, TypeOK, SendInv, VmScoped
  <2>6. NothingForgotten'
    <3>1. diskRows' = rows
      BY <2>1 DEF Sync
    <3>2. \E i \in 1 .. Len(rows[Dest[m]]) : rows[Dest[m]][i] = m
      BY <2>1 DEF IInv, SendInv
    <3>3. \A n \in Msgs : mst'[n] = "done" => n = m \/ mst[n] = "done"
      BY <2>1 DEF IInv, TypeOK
    <3> QED  BY <2>1, <3>1, <3>2, <3>3, SyncInv DEF NothingForgotten
  <2> QED  BY <2>2, <2>3, <2>4, <2>5, <2>6 DEF IInv
<1>14. CASE Commit
  <2>1. Sync /\ UNCHANGED <<connVars, bound, rows, marked, mst, svia, wrote>>
    BY <1>14 DEF Commit, sendVars
  <2>2. QueueInv' /\ NothingForgotten'
    BY <2>1, SyncInv DEF NothingForgotten
  <2>3. SlotInv' /\ BoundIsLive' /\ FlushInv'
    BY <2>1, ConnsKept DEF IInv, TypeOK
  <2>4. TypeOK' /\ SendInv' /\ VmScoped'
    BY <2>1 DEF IInv, TypeOK, SendInv, VmScoped, Sync, connVars
  <2> QED  BY <2>2, <2>3, <2>4 DEF IInv
<1>15. CASE Crash
  <2>1. UNCHANGED <<diskRows, diskMarked, wrote>> /\ rows' = diskRows /\ marked' = diskMarked
    BY <1>15 DEF Crash, diskVars
  <2>2. \A m \in Msgs : /\ mst'[m] \notin {"drain", "insert"}
                        /\ mst'[m] = "done" => mst[m] = "done"
    BY <1>15 DEF Crash
  <2>3. TypeOK'
    BY <1>15, <2>1 DEF IInv, TypeOK, Crash
  <2>4. SlotInv' /\ BoundIsLive' /\ FlushInv'
    BY <1>15 DEF SlotInv, BoundIsLive, FlushInv, Crash
  <2>5. QueueInv'
    <3>1. TableInv(rows, marked)' /\ TableInv(diskRows, diskMarked)'
      BY <2>1 DEF IInv, QueueInv, TableInv
    <3>2. \A k \in Keys : Len(diskRows[k]) \in Nat
      BY DEF IInv, TypeOK
    <3>3. DiskInv'
      BY <2>1, <3>2 DEF DiskInv
    <3> QED  BY <3>1, <3>3 DEF QueueInv
  <2>6. SendInv' /\ VmScoped'
    BY <2>1, <2>2 DEF IInv, SendInv, VmScoped
  <2>7. NothingForgotten'
    BY <2>1, <2>2 DEF IInv, NothingForgotten
  <2> QED  BY <2>3, <2>4, <2>5, <2>6, <2>7 DEF IInv
<1>16. CASE UNCHANGED vars
  <2>1. QueueInv' /\ SendInv' /\ VmScoped' /\ NothingForgotten'
    BY <1>16, TablesKept DEF vars, dbVars, diskVars
  <2>2. TypeOK' /\ SlotInv' /\ BoundIsLive' /\ FlushInv'
    BY <1>16 DEF IInv, TypeOK, SlotInv, BoundIsLive, FlushInv, IsFirst, vars
  <2> QED  BY <2>1, <2>2 DEF IInv
<1> QED
    BY <1>1, <1>2, <1>3, <1>4, <1>5, <1>6, <1>7, <1>8, <1>9, <1>10, <1>11, <1>12,
       <1>13, <1>14, <1>15, <1>16 DEF Next, ConnStep, SendStep

LEMMA Invariance == Spec => []IInv
BY InitIInv, NextIInv, PTL DEF Spec

(* Type correctness of the delivery path.                                  *)
THEOREM TypeCorrect == Spec => []TypeOK
<1>1. IInv => TypeOK
    BY DEF IInv
<1> QED  BY <1>1, Invariance, PTL

(* Through reconnects, concurrent flushes, failed writes and restarts, the *)
(* rows of every VM are delivered oldest first, and delivered_at is set    *)
(* only on rows that were written to that VM.                              *)
THEOREM DeliveredInOrder == Spec => [](PrefixDelivered /\ MarkedWasWritten)
<1>1. IInv => PrefixDelivered /\ MarkedWasWritten
    BY DEF IInv, QueueInv, TableInv, PrefixDelivered, MarkedWasWritten
<1> QED  BY <1>1, Invariance, PTL

(* A message for one VM is written only to connections of that VM, and a   *)
(* binding always names a live connection of its VM.                       *)
THEOREM DeliveredToItsVm == Spec => [](VmScoped /\ BoundIsLive)
<1>1. IInv => VmScoped /\ BoundIsLive
    BY DEF IInv
<1> QED  BY <1>1, Invariance, PTL

(* A delivery that ended without a crash or a failing INSERT wrote its     *)
(* message to the VM or left it in the VM's queue.                         *)
THEOREM NoneForgotten == Spec => []NothingForgotten
<1>1. IInv => NothingForgotten
    BY DEF IInv
<1> QED  BY <1>1, Invariance, PTL

(* The teardown of an older connection never removes the binding of a newer *)
(* one: a VM is unbound only when its bound connection ends.               *)
THEOREM BindingIsStable == Spec => BindingStable
<1>1. ASSUME IInv, [Next]_vars PROVE [BindingStep]_vars
  <2>1. ASSUME NEW c \in Conns, Teardown(c) PROVE BindingStep
    <3> SUFFICES ASSUME NEW k \in Keys, bound[k] # NoConn, bound'[k] # bound[k]
                 PROVE  sock'[bound[k]] = "free"
      BY DEF BindingStep
    <3>1. bound[k] = c
      BY <2>1 DEF Teardown, Unbind
    <3> QED  BY <1>1, <2>1, <3>1 DEF IInv, TypeOK, Teardown
  <2>2. ASSUME NEW c \in Conns, HandshakeBind(c) PROVE BindingStep
    BY <2>2 DEF BindingStep, HandshakeBind, Bind
  <2>3. CASE Crash
    <3>1. \A k \in Keys : bound[k] # NoConn => bound[k] \in Conns
      BY <1>1 DEF IInv, TypeOK
    <3>2. \A c \in Conns : sock'[c] = "free"
      BY <2>3 DEF Crash
    <3> QED  BY <3>1, <3>2 DEF BindingStep
  <2>4. ASSUME UNCHANGED bound PROVE BindingStep
    BY <2>4 DEF BindingStep
  <2>5. ASSUME NEW c \in Conns, ConnStep(c) \/ FlushCommit(c) PROVE BindingStep
    <3>1. \/ Teardown(c) \/ HandshakeBind(c) \/ UNCHANGED bound
      BY <2>5 DEF ConnStep, NodeAck, PeerLost, Disconnect, HandlerError,
         HandshakeStart, HandshakeRefuse, FlushList, FlushWrite, FlushRefused,
         FlushDrainFails, StopFlush, FlushDelivered, FlushCommit
    <3> QED  BY <3>1, <2>1, <2>2, <2>4
  <2>6. ASSUME NEW m \in Msgs, Hand(m) \/ SendStep(m) \/ EnqueueError(m)
        PROVE  UNCHANGED bound
    BY <2>6 DEF Hand, SendStep, EnqueueError, SendWrite, SendRefused, SendDelivered,
       SendDrainFails, Enqueue, EnqueueCommit
  <2>7. ASSUME NEW c \in Conns, NEW k \in Keys, NodeConnect(c, k) PROVE UNCHANGED bound
    BY <2>7 DEF NodeConnect
  <2> QED  BY <1>1, <2>3, <2>4, <2>5, <2>6, <2>7 DEF Next, Commit
<1> QED  BY <1>1, Invariance, PTL DEF Spec, BindingStable
=============================================================================
