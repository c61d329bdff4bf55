---------------------------- MODULE CommandQueue ----------------------------
(***************************************************************************)
(* The two-lane command queue a broker or core owns (`_queue` in           *)
(* BrokerBase).  Its implementation is outside the repository's sources;   *)
(* the operators below state its contract: two FIFO lanes, the priority    *)
(* lane served to empty before the normal lane, pop blocking while both    *)
(* lanes are empty.  A queue value is a record of the two lanes, so that a *)
(* module using the queue keeps it in one variable.                        *)
(***************************************************************************)
EXTENDS Sequences

(* A freshly constructed queue.                                            *)
EmptyQueue == [priority |-> <<>>, normal |-> <<>>]

(* push / emplace: append to the normal lane.                              *)
push(q, m) == [q EXCEPT !.normal = Append(@, m)]

(* pushPriority / emplacePriority: append to the priority lane.            *)
pushPriority(q, m) == [q EXCEPT !.priority = Append(@, m)]

(* pop blocks while this holds.                                            *)
empty(q) == q.priority = <<>> /\ q.normal = <<>>

(* The command pop returns: the oldest priority command when there is one, *)
(* the oldest normal command otherwise.  Defined on non-empty queues.      *)
front(q) == IF q.priority # <<>> THEN Head(q.priority) ELSE Head(q.normal)

(* The queue pop leaves behind.                                            *)
pop(q) ==
    IF q.priority # <<>> THEN [q EXCEPT !.priority = Tail(@)]
                         ELSE [q EXCEPT !.normal = Tail(@)]

(* Every command waiting in the queue, priority lane first.                *)
contents(q) == q.priority \o q.normal
=============================================================================
