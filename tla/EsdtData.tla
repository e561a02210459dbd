------------------------------- MODULE EsdtData -------------------------------
(***************************************************************************)
(* The token data of accounts, <esdtDatas>: what every account holds, as a *)
(* function from the account to its entries, and the commands that read    *)
(* and write them.  An entry is found by its key, the bytes of the token   *)
(* and of the nonce: keyWithNonce appends none for nonce 0, so the entry   *)
(* of the token itself, with the roles and the last nonce, has the token   *)
(* as its key.  A byte string is a sequence here, <<name>> for a token.  A *)
(* command is an operator from the data to a set: {new data}, or {} for    *)
(* the exception it raises.                                                *)
(***************************************************************************)
EXTENDS Integers, Sequences

EmptyMap == [x \in {} |-> 0]
Put(f, k, v) == [x \in DOMAIN f \cup {k} |-> IF x = k THEN v ELSE f[x]]
Without(f, k) == [x \in DOMAIN f \ {k} |-> f[x]]

(* metadata is {} for .esdtMetadata, and otherwise holds one record.        *)
EsdtMetadata(nonce, creator, uris) ==
  {[nonce |-> nonce, creator |-> creator, uris |-> uris]}
NewEntry == [balance |-> 0, roles |-> {}, metadata |-> {}, lastNonce |-> 0]

KeyWithNonce(token, nonce) == IF nonce = 0 THEN token ELSE Append(token, nonce)

Holds(d, a, key) == a \in DOMAIN d /\ key \in DOMAIN d[a]

(* The entry of a key, created by the rules that add one when it is missing. *)
EntryOrNew(d, a, key) == IF Holds(d, a, key) THEN d[a][key] ELSE NewEntry

SetEntry(d, a, key, entry) == [d EXCEPT ![a] = Put(@, key, entry)]

CheckESDTBalance(d, a, key, value) ==
  IF Holds(d, a, key) /\ value <= d[a][key].balance THEN {d} ELSE {}

AddToESDTBalance(d, a, key, delta, allowNew) ==
  IF Holds(d, a, key) \/ allowNew
  THEN {SetEntry(d, a, key, [EntryOrNew(d, a, key) EXCEPT !.balance = @ + delta])}
  ELSE {}

(* A receiver without an entry gets the metadata of the sender with it.      *)
MoveNFTToDestination(d, from, to, key, delta) ==
  IF from = to THEN d
  ELSE LET sent == d[from][key]
           got == IF Holds(d, to, key) THEN d[to][key]
                  ELSE [NewEntry EXCEPT !.metadata = sent.metadata]
       IN  SetEntry(SetEntry(d, from, key, [sent EXCEPT !.balance = @ - delta]),
                    to, key, [got EXCEPT !.balance = @ + delta])

RemoveEmptyNft(d, a, key) ==
  IF Holds(d, a, key) /\ d[a][key].balance = 0
  THEN [d EXCEPT ![a] = Without(@, key)] ELSE d

TransferESDT(d, from, to, t) ==
  LET key == KeyWithNonce(t.token, t.nonce)
  IN  IF {from, to} \subseteq DOMAIN d /\ CheckESDTBalance(d, from, key, t.value) # {}
      THEN IF t.nonce = 0
           THEN UNION {AddToESDTBalance(debited, to, key, t.value, TRUE) :
                         debited \in AddToESDTBalance(d, from, key, -t.value, FALSE)}
           ELSE {RemoveEmptyNft(MoveNFTToDestination(d, from, to, key, t.value), from, key)}
      ELSE {}

(* The transfers of a list, one after the other: all of them or none.        *)
TransferESDTs(d, from, to, list) ==
  LET after[i \in 0..Len(list)] ==
        IF i = 0 THEN {d}
        ELSE UNION {TransferESDT(e, from, to, list[i]) : e \in after[i - 1]}
  IN  after[Len(list)]
===============================================================================
