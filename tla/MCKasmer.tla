------------------------------- MODULE MCKasmer -------------------------------
(***************************************************************************)
(* A test contract, one contract under test at the address that the test   *)
(* registers for it, and an account to impersonate.  The contract under    *)
(* test may itself assert, assume and grant roles.                         *)
(***************************************************************************)
EXTENDS KasmerProperties

MCAddress == {"k", "k-test", "alice", "c"}
MCNewAccounts == {[addr |-> "alice", nonce |-> 0, balance |-> 5],
                  [addr |-> "c", nonce |-> 0, balance |-> 0]}
MCRegistrations == {[creator |-> "k", nonce |-> n, new |-> "c"] : n \in {2, 3}}
MCDeployments == {[owner |-> "k", path |-> "c.wasm", value |-> v] : v \in {0, 200000}}
MCAmounts == {-1, 2}
MCAbis == {<<[test |-> FALSE, types |-> {}], [test |-> TRUE, types |-> {"u32"}]>>,
           <<[test |-> TRUE, types |-> {"bool"}]>>}
===============================================================================
