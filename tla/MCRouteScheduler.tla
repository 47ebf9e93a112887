-------------------------- MODULE MCRouteScheduler --------------------------
(* A day of two hours of two minutes, a route once a day and one again and *)
(* again.                                                                  *)
EXTENDS RouteScheduler

CONSTANTS daily, often

MCInterval    == [r \in Routes |-> IF r = often THEN 1 ELSE 0]
MCFirstTime   == [r \in Routes |-> 1]
MCFirstStatus == [r \in Routes |-> "1"]
=============================================================================
