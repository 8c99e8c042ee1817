---------------------------- MODULE MCCommandTx ----------------------------
(* Model checking CommandTx: two requests, two rows, three lifecycle states. *)
EXTENDS CommandTx, TLC

CONSTANTS w1, w2, draft, open, closed, r1, r2

MCStates == {draft, open, closed}

Plain(effect, targets) ==
    [effect |-> effect, targets |-> targets, transition |-> FALSE, froms |-> {},
     to |-> draft, guaranteed |-> 1, bestEffort |-> FALSE, audit |-> FALSE,
     materialize |-> FALSE, invalidates |-> FALSE]

Edge(effect, froms, to) ==
    [Plain(effect, {w1}) EXCEPT !.transition = TRUE, !.froms = froms, !.to = to]

(* Both edges leave draft, so only one of two concurrent requests may win. *)
Submit  == [Edge("updates", {draft}, open) EXCEPT !.guaranteed = 2]
Discard == [Edge("updates", {draft, open}, closed) EXCEPT
              !.audit = TRUE, !.materialize = TRUE, !.guaranteed = 0]
Touch   == [Edge("noop", {draft}, open) EXCEPT !.guaranteed = 0]
Create  == [Plain("creates", {w1}) EXCEPT !.audit = TRUE]
Edit    == [Plain("updates", {w1}) EXCEPT !.bestEffort = TRUE, !.invalidates = TRUE]
EditOther == Plain("updates", {w2})
Read    == [Plain("noop", {w1}) EXCEPT !.guaranteed = 0]
Delete  == [Plain("deletes", {w1}) EXCEPT !.guaranteed = 0]
Sort    == [Plain("reorder", {w1, w2}) EXCEPT !.guaranteed = 0]
Reply   == [Plain("returns", {w1}) EXCEPT !.guaranteed = 0, !.bestEffort = TRUE]
ReplyGuaranteed == [Reply EXCEPT !.guaranteed = 1]

MCCommands == {Submit, Discard, Touch, Create, Edit, EditOther, Read,
               Delete, Sort, Reply}
PayloadCommands == {Submit}
ReturnsCommands == {ReplyGuaranteed}
=============================================================================
