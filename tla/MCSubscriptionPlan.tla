------------------------- MODULE MCSubscriptionPlan -------------------------
(* Two to four fields in groups of two, and those that discovery finds.    *)
EXTENDS SubscriptionPlan

MCNames == 1..4
MCFixed == {-2}

Never == [e \in Events |-> 0]

MCScenarios == {
  \* The documents are refused, and never mended.
  [catalogue |-> 1..4, fixed |-> {}, bad |-> {}, broken |-> TRUE, limit |-> Never],
  \* They break and are mended, and a field is bad.
  [catalogue |-> 1..3, fixed |-> {}, bad |-> {2}, broken |-> FALSE,
   limit |-> [Never EXCEPT !["break"] = 1, !["mend"] = 1, !["drop"] = 1]],
  \* Fields are bad from the first, and one retires or comes back.
  [catalogue |-> 1..4, fixed |-> {}, bad |-> {3}, broken |-> FALSE,
   limit |-> [Never EXCEPT !["retire"] = 1, !["renew"] = 1]],
  \* Subscriptions end, and one has nothing to bisect.
  [catalogue |-> 1..3, fixed |-> {-2}, bad |-> {2}, broken |-> FALSE,
   limit |-> [Never EXCEPT !["break"] = 1, !["mend"] = 1, !["end"] = 1]],
  \* The connector restarts around the saved list, and discovery finds a field.
  [catalogue |-> 1..3, fixed |-> {}, bad |-> {3, 4}, broken |-> FALSE,
   limit |-> [Never EXCEPT !["halt"] = 1, !["crash"] = 1, !["unread"] = 2, !["find"] = 1,
                           !["write"] = 2, !["drop"] = 1]]}
=============================================================================
