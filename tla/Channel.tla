------------------------------- MODULE Channel -------------------------------
(***************************************************************************)
(* What the send path promises to the threads that raise messages, without *)
(* its queue, semaphore, connection, retransmission timer or threads: a    *)
(* message raised may be refused or discarded, but the ones that are taken *)
(* are taken oldest first and one at a time; a message taken is            *)
(* transmitted at least once and at most Repeats times; and one that asks  *)
(* for an acknowledgement is let go only for an acknowledgement the host   *)
(* sent, or after Repeats transmissions.                                   *)
(***************************************************************************)
EXTENDS Integers

CONSTANTS
    Repeats,    \* transmissions of one message
    MaxMsgs     \* bound: messages ever raised

VARIABLES
    next,       \* number of the next message
    pending,    \* the messages accepted and not yet taken
    held,       \* the message being transmitted
    tx,         \* transmissions of each message
    acks        \* acknowledgements received and not yet used

vars == <<next, pending, held, tx, acks>>

Nobody == [id |-> 0, ack |-> FALSE]

(* A message is accepted, or refused without a word to its raiser. *)
Raise ==
    /\ next <= MaxMsgs
    /\ next' = next + 1
    /\ \E a \in BOOLEAN : pending' \in {pending, pending \cup {[id |-> next, ack |-> a]}}
    /\ UNCHANGED <<held, tx, acks>>

Oldest(m) == m \in pending /\ \A n \in pending : m.id <= n.id

Discard ==
    /\ \E m \in pending : Oldest(m) /\ pending' = pending \ {m}
    /\ UNCHANGED <<next, held, tx, acks>>

Take ==
    /\ held = Nobody
    /\ \E m \in pending : Oldest(m) /\ pending' = pending \ {m} /\ held' = m
    /\ UNCHANGED <<next, tx, acks>>

(* A message that asks for no acknowledgement is done with its transmission. *)
Transmit ==
    /\ held # Nobody
    /\ tx[held.id] < Repeats
    /\ tx' = [tx EXCEPT ![held.id] = @ + 1]
    /\ held' = IF held.ack THEN held ELSE Nobody
    /\ UNCHANGED <<next, pending, acks>>

Acknowledge ==
    /\ acks' = acks + 1
    /\ UNCHANGED <<next, pending, held, tx>>

Release ==
    /\ held.ack
    /\ tx[held.id] > 0
    /\ \/ acks > 0 /\ acks' = acks - 1
       \/ tx[held.id] = Repeats /\ UNCHANGED acks
    /\ held' = Nobody
    /\ UNCHANGED <<next, pending, tx>>

Init ==
    /\ next = 1 /\ pending = {} /\ held = Nobody
    /\ tx = [i \in 1 .. MaxMsgs |-> 0] /\ acks = 0

Next == Raise \/ Discard \/ Take \/ Transmit \/ Acknowledge \/ Release

Spec == Init /\ [][Next]_vars

=============================================================================
