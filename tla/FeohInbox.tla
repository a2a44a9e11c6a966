------------------------------- MODULE FeohInbox -------------------------------
(***************************************************************************)
(* What the bank inbox promises, whoever works on it and whatever fails:   *)
(* a bank line arrives once and is never forgotten, a pending line can be  *)
(* booked or parked, a parked line stays parked, and a booked line is      *)
(* charged to the ledger by exactly one transaction until that transaction *)
(* is deleted, which returns the line to the inbox.  An envelope that is   *)
(* closed leaves the charges made to it, without an envelope.  FeohImport  *)
(* implements this specification.                                          *)
(***************************************************************************)
CONSTANTS Lines,      \* bank statement lines, named by their source_id
          Txns,       \* identities of ledger transactions
          Envelopes,  \* envelopes a line can be charged to
          NONE        \* no envelope

VARIABLES open,       \* the envelopes there are
          status,     \* status[l]: absent, pending, booked or dismissed
          charges     \* charges[l]: the <<transaction, envelope>> pairs l is charged by

vars == <<open, status, charges>>

Init == /\ open    = Envelopes
        /\ status  = [l \in Lines |-> "absent"]
        /\ charges = [l \in Lines |-> {}]

Arrive(l) == /\ status[l] = "absent"
             /\ status' = [status EXCEPT ![l] = "pending"]
             /\ UNCHANGED <<open, charges>>

Book(l) == /\ status[l] = "pending"
           /\ charges[l] = {}
           /\ status' = [status EXCEPT ![l] = "booked"]
           /\ \E t \in Txns, e \in open :
                 charges' = [charges EXCEPT ![l] = {<<t, e>>}]
           /\ UNCHANGED open

Park(l) == /\ status[l] = "pending"
           /\ status' = [status EXCEPT ![l] = "dismissed"]
           /\ UNCHANGED <<open, charges>>

Return(l) == /\ status[l] = "booked"
             /\ status'  = [status EXCEPT ![l] = "pending"]
             /\ charges' = [charges EXCEPT ![l] = {}]
             /\ UNCHANGED open

Close(e) == /\ e \in open
            /\ open' = open \ {e}
            /\ charges' = [l \in Lines |->
                  {<<c[1], IF c[2] = e THEN NONE ELSE c[2]>> : c \in charges[l]}]
            /\ UNCHANGED status

Next == \/ \E l \in Lines : Arrive(l) \/ Book(l) \/ Park(l) \/ Return(l)
        \/ \E e \in Envelopes : Close(e)

Spec == Init /\ [][Next]_vars
=============================================================================
