--------------------------- MODULE MCNotification ---------------------------
(* Instances of NotificationController for TLC.                             *)
EXTENDS NotificationController

S(id, endpoint, events, filter) ==
    [bucket |-> "b", hook |-> TRUE, id |-> id, endpoint |-> endpoint, events |-> events,
     filter |-> filter, ref |-> TRUE]

(* A webhook, the same with a filter, and at another endpoint; edits that   *)
(* the webhook lets through: no webhook, an event that does not exist.      *)
OneSpecs ==
    {S("i1", "e1", <<"put">>, "none"), S("i1", "e1", <<"put">>, "f1"),
     S("i1", "e2", <<"oops">>, "none"), [S("i1", "e1", <<"put">>, "none") EXCEPT !.hook = FALSE]}

WipedSpecs == {S("i1", "e1", <<"put">>, "none")}

OneList == {<<"put">>, <<"oops">>}
IdAts == Ids \cup {""}
NoAnns == {""}

=============================================================================
