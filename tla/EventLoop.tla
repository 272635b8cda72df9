------------------------------ MODULE EventLoop ------------------------------
(***************************************************************************)
(* class EventLoop (libsponge/util/eventloop.{hh,cc}).  The state of a     *)
(* loop is the set of its rules that are not cancelled; they are always    *)
(* visited in the order in which they were added.  What the rules work on  *)
(* is a record obj.  A user of the class instantiates the module with its  *)
(* rules, and keeps obj and the set.                                       *)
(* A call of wait_next_event is cut where other threads can be observed:   *)
(* after poll(2), whose results are then served one rule after the other   *)
(* while the descriptors they were about may change.                       *)
(***************************************************************************)
EXTENDS Naturals, Sequences

CONSTANTS Rules,            \* the rules, in the order of the calls of add_rule
          interest(_, _),   \* whether, for an obj, a rule wants to be polled
          cancel(_, _),     \* the obj after the rule's cancel callback
          callback(_, _),   \* the outcomes [obj, served] of its callback: served says that
                            \* it read or wrote the descriptor, so that service_count()
                            \* (lines 13-15) has grown
          Defunct(_, _),    \* the rule's descriptor is at its end or closed
          Ready(_, _),      \* the descriptor can be read or written, as the rule asks
          HungUp(_, _)      \* the descriptor is hung up

(* Lines 67-89: cancel the rules whose descriptor is finished, and ask the *)
(* others for their interest, in order.                                    *)
visited(acc, rules, r) ==
    IF r \notin rules THEN acc
    ELSE IF Defunct(acc.obj, r) THEN [acc EXCEPT !.obj = cancel(@, r)]
    ELSE [acc EXCEPT !.rules = @ \cup {r},
                     !.events = IF interest(acc.obj, r) THEN @ \cup {r} ELSE @]

prepared(obj, rules) ==
    LET after[k \in 0 .. Len(Rules)] ==
            IF k = 0 THEN [obj |-> obj, rules |-> {}, events |-> {}]
            ELSE visited(after[k - 1], rules, Rules[k])
    IN  after[Len(Rules)]

(* poll(2), line 98: the entries it reports on.  A hang-up is reported on  *)
(* the placeholders of rules without interest, too.                        *)
polled(obj, rules, events) ==
    LET revents(r) == [rule |-> r, asked |-> r \in events,
                       ready |-> r \in events /\ Ready(obj, r), hup |-> HungUp(obj, r)]
    IN  {v \in {revents(r) : r \in rules} : v.ready \/ v.hup}

(* Lines 117-139: the entries that make the loop act, and the first one.   *)
triggered(results) == {v \in results : v.ready \/ (v.hup /\ v.asked)}

first(todo) ==
    CHOOSE v \in todo : \E k \in DOMAIN Rules :
        v.rule = Rules[k] /\ \A u \in todo : \A i \in 1 .. k - 1 : u.rule # Rules[i]

(* Lines 120-139: one of these entries.  busy: the busy wait of line 136   *)
(* is detected and thrown.                                                 *)
served(obj, rules, v) ==
    IF v.hup /\ ~v.ready
    THEN {[obj |-> cancel(obj, v.rule), rules |-> rules \ {v.rule}, busy |-> FALSE]}
    ELSE {[obj |-> a.obj, rules |-> rules, busy |-> ~a.served /\ interest(a.obj, v.rule)] :
             a \in callback(obj, v.rule)}
=============================================================================
