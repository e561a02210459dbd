------------------------------- MODULE Ledger -------------------------------
(***************************************************************************)
(* The <accounts> cell of the node, as far as EGLD and fungible ESDT       *)
(* balances go.  A world maps every address to an account record; an       *)
(* address without an account has exists = FALSE.                          *)
(***************************************************************************)
EXTENDS Integers, FiniteSets, Functions

CONSTANTS Address,  \* every address a transaction or a contract can name
          Token,    \* fungible token identifiers
          Amount    \* the EGLD and ESDT amounts named in calls and transfers

ASSUME AmountAssumption == Amount \subseteq Int /\ 0 \in Amount

(* <accounts> is a finite map: a node names finitely many addresses.        *)
ASSUME AddressAssumption == IsFiniteSet(Address)

(* code: TRUE iff the <code> cell holds a module rather than .Code.        *)
(* held: the tokens that have an <esdtData> entry, of any balance.         *)
Account == [exists  : BOOLEAN,
            code    : BOOLEAN,
            balance : Int,
            held    : SUBSET Token,
            esdt    : [Token -> Int]]

World == [Address -> Account]

IsAccount(w, a) == a \in Address /\ w[a].exists
IsContract(w, a) == IsAccount(w, a) /\ w[a].code

Credit(w, a, v) == [w EXCEPT ![a].balance = @ + v]

(* A token without an <esdtData> entry counts as a balance of 0.            *)
NoEntryIsZero(w) == \A a \in Address, t \in Token : t \notin w[a].held => w[a].esdt[t] = 0

(* Reference sums for the conservation properties.                         *)
EGLDSupply(w) == SumFunction([a \in Address |-> w[a].balance])
ESDTSupply(w, t) == SumFunction([a \in Address |-> w[a].esdt[t]])

SameSupply(v, w) ==
  /\ EGLDSupply(v) = EGLDSupply(w)
  /\ \A t \in Token : ESDTSupply(v, t) = ESDTSupply(w, t)

Solvent(w) ==
  \A a \in Address : w[a].balance >= 0 /\ \A t \in Token : w[a].esdt[t] >= 0

=============================================================================
