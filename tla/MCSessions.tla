----------------------------- MODULE MCSessions -----------------------------
(* Sessions for TLC: one scenario with every kind of reading and no fault,  *)
(* the others with a few kinds and one or two faults.                      *)
EXTENDS Sessions

R(charge, speed, gear, odometer) ==
  [charge |-> charge, speed |-> speed, gear |-> gear, odo |-> odometer]

Charges == R("charging", 0, "P", "flat")
Plugged == R("stopped", Null, Null, "flat")
Unplugged == R("over", Null, Null, "flat")
Fast == R(Null, 50, "D", "up")
Crawls == R(Null, 5, "R", "flat")
Parked == R(Null, 0, "P", "flat")
Waits == R(Null, 0, "D", "flat")
Silent == R(Null, Null, Null, "none")
Rolls == R("stopped", Null, Null, "up")

MCScenarios ==
  { [readings |-> {Charges, Plugged, Unplugged, Fast, Parked, Waits, Silent, Rolls},
     steps |-> {1, 3, 5}, messages |-> 4, faults |-> 0, restamps |-> FALSE, until |-> 0],
    [readings |-> {Charges, Plugged, Fast, Crawls},
     steps |-> {1, 5}, messages |-> 3, faults |-> 2, restamps |-> FALSE, until |-> 0],
    [readings |-> {Charges, Fast},
     steps |-> {1, 5}, messages |-> 4, faults |-> 2, restamps |-> FALSE, until |-> 0],
    [readings |-> {Charges, Fast, Unplugged},
     steps |-> {1, 5}, messages |-> 4, faults |-> 1, restamps |-> FALSE, until |-> 0],
    [readings |-> {Charges, Fast, Parked},
     steps |-> {1, 3}, messages |-> 4, faults |-> 1, restamps |-> TRUE, until |-> 12],
    [readings |-> {Fast, Parked},
     steps |-> {1, 3}, messages |-> 3, faults |-> 2, restamps |-> TRUE, until |-> 8] }
=============================================================================
