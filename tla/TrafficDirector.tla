--------------------------- MODULE TrafficDirector ---------------------------
(***************************************************************************)
(* What the workflows take a director of traffic for (ports/traffic.py).   *)
(* A caller asks for a weight under the id of an operation.  The route     *)
(* takes it in one step and once only, under a generation of its own, and  *)
(* the caller is told the generation of the route its operation made, at   *)
(* the weight it asks for: however often it asks, whenever it dies, and    *)
(* whatever the route has become meanwhile.                                *)
(***************************************************************************)
EXTENDS Naturals

CONSTANTS
    Operations,     \* ids of operations
    Earlier         \* the route that is there before

VARIABLES
    route,      \* the route requests go by: [op, gen, weight]
    made,       \* every route there has been
    asked,      \* the shifts that are asked for and not answered: a set of [op, weight]
    answer      \* the generation the caller was told last, at first that of the earlier route

promise == <<route, made, asked, answer>>

Init == route = Earlier /\ made = {Earlier} /\ asked = {} /\ answer = Earlier.gen

Ask ==
    /\ \E shift \in asked' \ asked :
         /\ shift \in [op : Operations, weight : 0 .. 100]
         /\ asked' = asked \cup {shift}
    /\ UNCHANGED <<route, made, answer>>

Apply ==
    /\ \E shift \in asked :
         /\ \A r \in made : r.op # shift.op
         /\ route' = [op |-> shift.op, gen |-> route.gen + 1, weight |-> shift.weight]
    /\ made' = made \cup {route'}
    /\ UNCHANGED <<asked, answer>>

Answer ==
    /\ \E shift \in asked, r \in made :
         /\ r.op = shift.op /\ r.weight = shift.weight
         /\ answer' = r.gen
         /\ asked' = asked \ {shift}
    /\ UNCHANGED <<route, made>>

\* The caller dies, or is through: its question and what it was told are gone.
Forget ==
    /\ asked' = {} /\ answer' = Earlier.gen
    /\ UNCHANGED <<route, made>>

Next == Ask \/ Apply \/ Answer \/ Forget

Spec == Init /\ [][Next]_promise
=============================================================================
