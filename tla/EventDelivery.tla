--------------------------- MODULE EventDelivery ---------------------------
(***************************************************************************)
(* What "outbox guaranteed" promises, without tables, pumps or transports: *)
(* an event becomes due when the transaction that emits it commits, all    *)
(* events of one commit together; only due events are ever handled; and    *)
(* every due event is handled in the end.                                  *)
(***************************************************************************)
CONSTANT Event  \* all events

VARIABLES
    due,    \* events of committed transactions
    done    \* events whose handler has run

Init == due = {} /\ done = {}

Emit(S) ==
    /\ S # {}
    /\ S \cap due = {}
    /\ due' = due \cup S
    /\ UNCHANGED done

Handle(e) ==
    /\ e \in due
    /\ done' = done \cup {e}
    /\ UNCHANGED due

Next == (\E S \in SUBSET Event : Emit(S)) \/ (\E e \in Event : Handle(e))

Safety == Init /\ [][Next]_<<due, done>>

Spec == Safety /\ \A e \in Event : e \in due ~> e \in done
=============================================================================
