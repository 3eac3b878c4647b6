---------------------------- MODULE MessageLife ----------------------------
(***************************************************************************)
(* What the queue engine promises about one message, whatever heaps,       *)
(* dictionaries and loops it keeps: a published message is in one queue    *)
(* and is held by one consumer at a time; it leaves the broker when its    *)
(* holder acknowledges it, when its queue is deleted, or from a            *)
(* dead-letter queue; a delivery that fails brings it back with one try    *)
(* fewer, and the last one puts it into the dead-letter queue, from which  *)
(* it can be requeued with all its tries.  A message that has left never   *)
(* comes back.                                                             *)
(***************************************************************************)
EXTENDS Naturals

CONSTANTS
    Queues,       \* names of ordinary queues
    Ids,          \* message identifiers
    None,         \* the home of a message that is in no queue
    MaxAttempts   \* how many deliveries of a message may fail

VARIABLES
    queues,       \* the queues that exist
    published,    \* the messages published so far
    home,         \* the queue a message is in, or None
    leased,       \* messages of ordinary queues that a consumer holds
    tries         \* failed deliveries of a message of an ordinary queue

lifeVars == <<queues, published, home, leased, tries>>

Names == [base : Queues, kind : {"queue", "dlq"}]

Dlq(n)  == [n EXCEPT !.kind = "dlq"]
Main(n) == [n EXCEPT !.kind = "queue"]

In(m, kind) == home[m] # None /\ home[m].kind = kind

Init ==
    /\ queues = {}
    /\ published = {}
    /\ home = [m \in Ids |-> None]
    /\ leased = {}
    /\ tries = [m \in Ids |-> 0]

Declare(n) ==
    /\ n \notin queues
    /\ queues' = queues \cup {n, Dlq(n)}
    /\ UNCHANGED <<published, home, leased, tries>>

\* A queue goes with its messages and its dead-letter queue.
Delete(n) ==
    LET gone == {n, Dlq(n)}
    IN  /\ n \in queues
        /\ queues' = queues \ gone
        /\ home' = [m \in Ids |-> IF home[m] \in gone THEN None ELSE home[m]]
        /\ leased' = {m \in leased : home[m] \notin gone}
        /\ tries' = [m \in Ids |-> IF home[m] \in gone THEN 0 ELSE tries[m]]
        /\ UNCHANGED published

Publish(n, m) ==
    /\ n \in queues
    /\ m \notin published
    /\ published' = published \cup {m}
    /\ home' = [home EXCEPT ![m] = n]
    /\ UNCHANGED <<queues, leased, tries>>

Deliver(m) ==
    /\ In(m, "queue")
    /\ m \notin leased
    /\ leased' = leased \cup {m}
    /\ UNCHANGED <<queues, published, home, tries>>

\* The end of a message: acknowledged, or dropped from a dead-letter queue.
Leave(m) ==
    /\ m \in leased \/ In(m, "dlq")
    /\ home' = [home EXCEPT ![m] = None]
    /\ leased' = leased \ {m}
    /\ tries' = [tries EXCEPT ![m] = 0]
    /\ UNCHANGED <<queues, published>>

Retry(m) ==
    /\ m \in leased
    /\ tries[m] + 1 < MaxAttempts[m]
    /\ leased' = leased \ {m}
    /\ tries' = [tries EXCEPT ![m] = @ + 1]
    /\ UNCHANGED <<queues, published, home>>

\* A consumer rejected the message, or its last try failed.
DeadLetter(m) ==
    /\ m \in leased
    /\ home' = [home EXCEPT ![m] = Dlq(@)]
    /\ queues' = queues \cup {Dlq(home[m])}
    /\ leased' = leased \ {m}
    /\ tries' = [tries EXCEPT ![m] = 0]
    /\ UNCHANGED published

Requeue(m) ==
    /\ In(m, "dlq")
    /\ Main(home[m]) \in queues
    /\ home' = [home EXCEPT ![m] = Main(@)]
    /\ UNCHANGED <<queues, published, leased, tries>>

Next ==
    \/ \E n \in Names : Declare(n) \/ Delete(n)
    \/ \E n \in Names, m \in Ids : Publish(n, m)
    \/ \E m \in Ids :
          Deliver(m) \/ Leave(m) \/ Retry(m) \/ DeadLetter(m) \/ Requeue(m)

Spec == Init /\ [][Next]_lifeVars

=============================================================================
