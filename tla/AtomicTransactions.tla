------------------------- MODULE AtomicTransactions -------------------------
(***************************************************************************)
(* What the node promises about a transaction: after its fee is charged it *)
(* either commits, with a world of the same EGLD and token supply, or it   *)
(* fails and leaves the ledger as it was.  Nothing of the work in between  *)
(* is visible in the ledger.                                               *)
(***************************************************************************)
EXTENDS Ledger

CONSTANTS Senders, Fees, ExceptionCode, InitialWorlds

VARIABLES ledger, status

Init == ledger \in InitialWorlds /\ status = "none"

Begin == /\ status # "running" /\ status' = "running"
         /\ \E from \in Senders, fee \in Fees : ledger' = Credit(ledger, from, 0 - fee)

Commit == /\ status = "running" /\ status' = "OK"
          /\ ledger' \in World /\ SameSupply(ledger, ledger')

Abort == /\ status = "running" /\ status' \in ExceptionCode
         /\ UNCHANGED ledger

Next == Begin \/ Commit \/ Abort

Spec == Init /\ [][Next]_<<ledger, status>>

=============================================================================
