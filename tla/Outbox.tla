------------------------------- MODULE Outbox -------------------------------
(***************************************************************************)
(* What the delivery of approval results promises, without connections,    *)
(* flushes or tables: every message that is produced is sent at once or    *)
(* stored in the first-in first-out mailbox of its VM; a stored message is *)
(* never dropped and leaves the mailbox only from the head; a failing      *)
(* store or a stop of the server loses only messages that are in hand.     *)
(***************************************************************************)
EXTENDS Naturals, Sequences, FiniteSets

CONSTANTS Keys, Msgs, Dest

VARIABLES
    fate,      \* fate[m]: what became of message m
    mailbox    \* mailbox[k]: stored messages of VM k, oldest first

vars == <<fate, mailbox>>

TypeOK ==
    /\ fate \in [Msgs -> {"none", "owed", "stored", "sent", "lost"}]
    /\ mailbox \in [Keys -> Seq(Msgs)]

Init ==
    /\ fate = [m \in Msgs |-> "none"]
    /\ mailbox = [k \in Keys |-> << >>]

Produce(m) ==
    /\ fate[m] = "none"
    /\ fate' = [fate EXCEPT ![m] = "owed"]
    /\ UNCHANGED mailbox

SendNow(m) ==
    /\ fate[m] = "owed"
    /\ fate' = [fate EXCEPT ![m] = "sent"]
    /\ UNCHANGED mailbox

(* One transaction: some messages in hand join the ends of the mailboxes,  *)
(* and the first n[k] messages of mailbox k, the new ones included, are    *)
(* sent.                                                                   *)
Transact(add, n) ==
    LET full == [k \in Keys |-> mailbox[k] \o add[k]]
        sent == {m \in Msgs : \E i \in 1 .. n[Dest[m]] : full[Dest[m]][i] = m}
        kept == {m \in Msgs : \E i \in n[Dest[m]] + 1 .. Len(full[Dest[m]]) :
                                full[Dest[m]][i] = m}
    IN  /\ mailbox' = [k \in Keys |-> SubSeq(full[k], n[k] + 1, Len(full[k]))]
        /\ fate' = [m \in Msgs |-> IF m \in sent THEN "sent"
                                   ELSE IF m \in kept THEN "stored" ELSE fate[m]]

(* The sequences of distinct messages in hand for VM k.                    *)
Additions(k) ==
    LET owed == {m \in Msgs : fate[m] = "owed" /\ Dest[m] = k}
    IN  UNION {{s \in [1 .. l -> owed] : \A i, j \in 1 .. l : s[i] = s[j] => i = j} :
                l \in 0 .. Cardinality(owed)}

Settle ==
    \E add \in [Keys -> UNION {Additions(k) : k \in Keys}] :
        /\ \A k \in Keys : add[k] \in Additions(k)
        /\ \E n \in [Keys -> 0 .. Cardinality(Msgs)] :
            /\ \A k \in Keys : n[k] <= Len(mailbox[k] \o add[k])
            /\ Transact(add, n)

Lose(m) ==
    /\ fate[m] = "owed"
    /\ fate' = [fate EXCEPT ![m] = "lost"]
    /\ UNCHANGED mailbox

Stop ==
    /\ fate' = [m \in Msgs |-> IF fate[m] = "owed" THEN "lost" ELSE fate[m]]
    /\ UNCHANGED mailbox

Next ==
    \/ \E m \in Msgs : Produce(m) \/ SendNow(m) \/ Lose(m)
    \/ Settle \/ Stop

Spec == Init /\ [][Next]_vars
=============================================================================
