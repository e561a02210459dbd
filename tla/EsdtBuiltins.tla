----------------------------- MODULE EsdtBuiltins -----------------------------
(***************************************************************************)
(* The builtin functions on tokens (esdt.md) as a call runs them: the      *)
(* checks in their order, each with the error code it raises, then the     *)
(* commands on the token data, and the call of a contract that a transfer  *)
(* may name.  (Esdt has the same functions as the actions of a system of   *)
(* their own, where a failure changes nothing.)                            *)
(*                                                                         *)
(* A builtin gives the set of its outcomes: one, or {} when no rule        *)
(* applies to a command.  An argument is what its bytes encode: a token,   *)
(* an address, a number or a name.  The bounds on the length of arguments  *)
(* (esdt.md:259, 289, 515, 630) are left out.                              *)
(***************************************************************************)
EXTENDS EsdtData

CONSTANT SystemAccount     \* #esdtSCAddress

Builtins == {"ESDTLocalMint", "ESDTLocalBurn", "ESDTNFTBurn", "ESDTTransfer",
             "MultiESDTNFTTransfer", "ESDTNFTCreate", "ESDTNFTAddQuantity",
             "ESDTNFTTransfer", "ESDTNFTAddURI"}

(* call is {}, or holds the call to make with the tokens transferred.        *)
Success(d, out, call) == [status |-> "OK", data |-> d, out |-> out, call |-> call]
Succeeds(results) == {Success(d, <<>>, {}) : d \in results}
Raises(code) == {[status |-> code]}

(* A missing argument, b"", is the number 0.                                 *)
GetArgUInt(args, i) == IF i \in 1..Len(args) /\ args[i] \in Nat THEN args[i] ELSE 0
RangeTotal(args, first) == SubSeq(args, first, Len(args))

CheckBool(holds, rest) == IF holds THEN rest ELSE Raises("ExecutionFailed")

CheckAllowedToExecute(d, a, token, role, rest) ==
  IF a = SystemAccount \/ (Holds(d, a, token) /\ role \in d[a][token].roles)
  THEN rest ELSE Raises("UserError")

CheckBalance(d, a, key, value, rest) ==
  IF CheckESDTBalance(d, a, key, value) # {} THEN rest ELSE Raises("OutOfFunds")

(* No EGLD, n arguments at least, and the caller is the receiver.            *)
CalledOnItself(from, to, value, args, n, rest) ==
  CheckBool(value = 0 /\ Len(args) >= n /\ from = to, rest)

(* ------------------------------ Fungible tokens -------------------------- *)

ESDTLocalMint(d, from, to, value, args) ==
  CalledOnItself(from, to, value, args, 2,
    CheckAllowedToExecute(d, from, args[1], "ESDTRoleLocalMint",
      Succeeds(AddToESDTBalance(d, from, args[1], GetArgUInt(args, 2), TRUE))))

ESDTLocalBurn(d, from, to, value, args) ==
  CalledOnItself(from, to, value, args, 2,
    CheckAllowedToExecute(d, from, args[1], "ESDTRoleLocalBurn",
      CheckBalance(d, from, args[1], GetArgUInt(args, 2),
        Succeeds(AddToESDTBalance(d, from, args[1], -GetArgUInt(args, 2), FALSE)))))

(* ------------------------------- Transfers ------------------------------- *)

(* The transfers of a list, then the call that the argument at i names.      *)
TransferAndCall(d, from, to, list, args, i) ==
  LET call == IF i > Len(args) \/ args[i] = "" THEN {}
              ELSE {[to |-> to, func |-> args[i], args |-> RangeTotal(args, i + 1)]}
  IN  IF ~({from, to} \subseteq DOMAIN d) THEN Raises("ExecutionFailed")
      ELSE IF TransferESDTs(d, from, to, list) = {} THEN Raises("OutOfFunds")
      ELSE {Success(e, <<>>, call) : e \in TransferESDTs(d, from, to, list)}

ESDTTransfer(d, from, to, value, args) ==
  CheckBool(value = 0 /\ Len(args) >= 2 /\ GetArgUInt(args, 2) > 0,
    TransferAndCall(d, from, to,
      <<[token |-> args[1], nonce |-> 0, value |-> GetArgUInt(args, 2)]>>, args, 3))

MultiESDTNFTTransfer(d, from, to, value, args) ==
  LET num == GetArgUInt(args, 2)
  IN  CalledOnItself(from, to, value, args, 4,
        CheckBool(num > 0 /\ Len(args) >= num * 3 + 2,
          TransferAndCall(d, from, args[1],
            [i \in 1..num |-> [token |-> args[3 * i], nonce |-> GetArgUInt(args, 3 * i + 1),
                               value |-> GetArgUInt(args, 3 * i + 2)]], args, num * 3 + 3)))

ESDTNFTTransfer(d, from, to, value, args) ==
  CalledOnItself(from, to, value, args, 4,
    TransferAndCall(d, from, args[4],
      <<[token |-> args[1], nonce |-> GetArgUInt(args, 2), value |-> GetArgUInt(args, 3)]>>,
      args, 5))

(* ---------------------------------- NFTs --------------------------------- *)

ESDTNFTBurn(d, from, to, value, args) ==
  LET key == KeyWithNonce(args[1], GetArgUInt(args, 2))
      quantity == GetArgUInt(args, 3)
  IN  CalledOnItself(from, to, value, args, 2,
        CheckAllowedToExecute(d, from, args[1], "ESDTRoleNFTBurn",
          CheckBalance(d, from, key, quantity,
            Succeeds({RemoveEmptyNft(e, from, key) :
                        e \in AddToESDTBalance(d, from, key, -quantity, FALSE)}))))

GetLatestNonce(d, a, token) == IF Holds(d, a, token) THEN d[a][token].lastNonce ELSE 0

(* No rule saves an NFT that exists, or the nonce where the token's entry is *)
(* missing.                                                                  *)
SaveNFT(d, a, token, quantity, uris) ==
  LET nonce == GetLatestNonce(d, a, token) + 1
      key == KeyWithNonce(token, nonce)
      nft == [NewEntry EXCEPT !.balance = quantity, !.metadata = EsdtMetadata(nonce, a, uris)]
  IN  IF Holds(d, a, key) \/ ~Holds(d, a, token) THEN {}
      ELSE {Success(SetEntry(SetEntry(d, a, key, nft), a, token,
                             [d[a][token] EXCEPT !.lastNonce = nonce]), <<nonce>>, {})}

ESDTNFTCreate(d, from, to, value, args) ==
  LET quantity == GetArgUInt(args, 2)
      save == SaveNFT(d, from, args[1], quantity, RangeTotal(args, 7))
  IN  CalledOnItself(from, to, value, args, 7,
        CheckAllowedToExecute(d, from, args[1], "ESDTRoleNFTCreate",
          CheckBool(GetArgUInt(args, 4) <= 10000 /\ quantity > 0,
            IF quantity = 1 THEN save
            ELSE CheckAllowedToExecute(d, from, args[1], "ESDTRoleNFTAddQuantity", save))))

ESDTNFTAddQuantity(d, from, to, value, args) ==
  LET nonce == GetArgUInt(args, 2)
      key == KeyWithNonce(args[1], nonce)
  IN  CalledOnItself(from, to, value, args, 3,
        CheckAllowedToExecute(d, from, args[1], "ESDTRoleNFTAddQuantity",
          CheckBool(nonce # 0 /\ Holds(d, from, key),
            Succeeds(AddToESDTBalance(d, from, key, GetArgUInt(args, 3), FALSE)))))

(* The entry may be missing, or have no metadata.                            *)
ESDTNFTAddURI(d, from, to, value, args) ==
  LET key == KeyWithNonce(args[1], GetArgUInt(args, 2))
      entry == EntryOrNew(d, from, key)
      Extended(m) == [entry EXCEPT !.metadata = {[m EXCEPT !.uris = @ \o RangeTotal(args, 3)]}]
  IN  CalledOnItself(from, to, value, args, 3,
        CheckAllowedToExecute(d, from, args[1], "ESDTRoleNFTAddURI",
          IF entry.metadata = {} THEN Raises("UserError")
          ELSE Succeeds({SetEntry(d, from, key, Extended(m)) : m \in entry.metadata})))

(* ------------------------------------------------------------------------- *)

ProcessBuiltinFunction(d, func, from, to, value, args) ==
  CASE func = "ESDTLocalMint"        -> ESDTLocalMint(d, from, to, value, args)
    [] func = "ESDTLocalBurn"        -> ESDTLocalBurn(d, from, to, value, args)
    [] func = "ESDTNFTBurn"          -> ESDTNFTBurn(d, from, to, value, args)
    [] func = "ESDTTransfer"         -> ESDTTransfer(d, from, to, value, args)
    [] func = "MultiESDTNFTTransfer" -> MultiESDTNFTTransfer(d, from, to, value, args)
    [] func = "ESDTNFTCreate"        -> ESDTNFTCreate(d, from, to, value, args)
    [] func = "ESDTNFTAddQuantity"   -> ESDTNFTAddQuantity(d, from, to, value, args)
    [] func = "ESDTNFTTransfer"      -> ESDTNFTTransfer(d, from, to, value, args)
    [] func = "ESDTNFTAddURI"        -> ESDTNFTAddURI(d, from, to, value, args)
===============================================================================
