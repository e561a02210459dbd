--------------------------------- MODULE Esdt ---------------------------------
(***************************************************************************)
(* The builtin functions on tokens (esdt.md), called by any account in any *)
(* order, while tests grant and revoke roles.  A builtin is checks, then   *)
(* commands on the token data; a check that fails raises an exception,     *)
(* which restores the world the call began in, so a builtin is a step only *)
(* when it succeeds, or when it gets stuck between two commands.           *)
(***************************************************************************)
EXTENDS EsdtData, FiniteSets, Functions

CONSTANTS Address, SystemSc,     \* #esdtSCAddress
          Tokens,                \* identifiers of tokens
          Identifiers,           \* token arguments of transfers, any bytes
          Grants,                \* roles a test may set: [account, token, role]
          Quantities, Nonces, Uris, Lists,    \* the other arguments
          InitialData,           \* token data of the setState step
          MaxSupply, MaxNonce, MaxUris        \* bounds

ASSUME EsdtAssumption ==
  /\ SystemSc \in Address /\ DOMAIN InitialData = Address
  /\ \A g \in Grants : g.account \in Address
  /\ Tokens \subseteq Identifiers
  /\ Quantities \subseteq Nat /\ Nonces \subseteq Nat
  /\ MaxSupply \in Nat /\ MaxNonce \in Nat /\ MaxUris \in Nat

VARIABLES esdtDatas,
          stuck,         \* no rule applies to the command in front
          dropped        \* history: accounts and tokens whose entry a burn removed

vars == <<esdtDatas, stuck, dropped>>

Init == esdtDatas = InitialData /\ stuck = FALSE /\ dropped = {}

BalanceOf(d, a, key) == IF Holds(d, a, key) THEN d[a][key].balance ELSE 0

Supply(d, key) == SumFunction([a \in Address |-> BalanceOf(d, a, key)])
Room(key, value) == Supply(esdtDatas, key) + value <= MaxSupply

CheckAllowedToExecute(a, token, role) ==
  a = SystemSc \/ (Holds(esdtDatas, a, token) /\ role \in esdtDatas[a][token].roles)

Becomes(results) == ~stuck /\ esdtDatas' \in results /\ UNCHANGED <<stuck, dropped>>

(* ------------------------------ Fungible tokens -------------------------- *)

ESDTLocalMint(a, token, value) ==
  /\ CheckAllowedToExecute(a, token, "ESDTRoleLocalMint")
  /\ Room(token, value)
  /\ Becomes(AddToESDTBalance(esdtDatas, a, token, value, TRUE))

BurnsUnchecked(a, token, value) ==                                      \* mutant
  /\ CheckAllowedToExecute(a, token, "ESDTRoleLocalBurn")
  /\ Becomes(AddToESDTBalance(esdtDatas, a, token, -value, FALSE))
ESDTLocalBurn(a, token, value) ==
  /\ CheckAllowedToExecute(a, token, "ESDTRoleLocalBurn")
  /\ CheckESDTBalance(esdtDatas, a, token, value) # {}
  /\ Becomes(AddToESDTBalance(esdtDatas, a, token, -value, FALSE))

ESDTTransfer(from, to, token, value) ==
  /\ value > 0
  /\ Becomes(TransferESDT(esdtDatas, from, to, [token |-> token, nonce |-> 0, value |-> value]))

(* ------------------------------------ NFTs ------------------------------- *)

GetLatestNonce(a, token) ==
  IF Holds(esdtDatas, a, token) THEN esdtDatas[a][token].lastNonce ELSE 0

CreatesAnyQuantity(a, token, quantity) ==                               \* mutant
  CheckAllowedToExecute(a, token, "ESDTRoleNFTCreate") /\ quantity > 0
MayCreate(a, token, quantity) ==
  /\ CheckAllowedToExecute(a, token, "ESDTRoleNFTCreate")
  /\ quantity > 0
  /\ quantity > 1 => CheckAllowedToExecute(a, token, "ESDTRoleNFTAddQuantity")

(* The entry of a new NFT; the roles of the token are not those of its NFTs. *)
SaveNFT(a, token, nonce, quantity) ==
  SetEntry(esdtDatas, a, KeyWithNonce(token, nonce),
           [NewEntry EXCEPT !.balance = quantity, !.metadata = EsdtMetadata(nonce, a, <<>>)])

ForgetsNonce(a, token, quantity) ==                                     \* mutant
  LET nonce == GetLatestNonce(a, token) + 1
  IN  /\ MayCreate(a, token, quantity)
      /\ nonce <= MaxNonce /\ Room(KeyWithNonce(token, nonce), quantity)
      /\ ~Holds(esdtDatas, a, KeyWithNonce(token, nonce)) /\ Holds(esdtDatas, a, token)
      /\ Becomes({SaveNFT(a, token, nonce, quantity)})
ESDTNFTCreate(a, token, quantity) ==
  LET nonce == GetLatestNonce(a, token) + 1
  IN  /\ MayCreate(a, token, quantity)
      /\ nonce <= MaxNonce /\ Room(KeyWithNonce(token, nonce), quantity)
      /\ ~Holds(esdtDatas, a, KeyWithNonce(token, nonce)) /\ Holds(esdtDatas, a, token)
      /\ Becomes({[SaveNFT(a, token, nonce, quantity) EXCEPT ![a][token].lastNonce = nonce]})

(* saveNFT adds the entry whether or not there is one with its key, which    *)
(* gives no configuration; saveLatestNonce has no rule for a missing entry.  *)
NFTCreateStuck(a, token, quantity) ==
  LET nonce == GetLatestNonce(a, token) + 1
      key == KeyWithNonce(token, nonce)
  IN  /\ ~stuck /\ MayCreate(a, token, quantity)
      /\ nonce <= MaxNonce /\ Room(KeyWithNonce(token, nonce), quantity)
      /\ \/ Holds(esdtDatas, a, key) /\ UNCHANGED esdtDatas
         \/ /\ ~Holds(esdtDatas, a, key) /\ ~Holds(esdtDatas, a, token)
            /\ esdtDatas' = SaveNFT(a, token, nonce, quantity)
      /\ stuck' = TRUE
      /\ UNCHANGED dropped

ESDTNFTAddQuantity(a, token, nonce, quantity) ==
  /\ CheckAllowedToExecute(a, token, "ESDTRoleNFTAddQuantity")
  /\ nonce # 0
  /\ Room(KeyWithNonce(token, nonce), quantity)
  /\ Becomes(AddToESDTBalance(esdtDatas, a, KeyWithNonce(token, nonce), quantity, FALSE))

(* An empty entry goes, with nonce 0 the entry of the token.                 *)
ESDTNFTBurn(a, token, nonce, quantity) ==
  LET key == KeyWithNonce(token, nonce)
  IN  /\ ~stuck
      /\ CheckAllowedToExecute(a, token, "ESDTRoleNFTBurn")
      /\ CheckESDTBalance(esdtDatas, a, key, quantity) # {}
      /\ \E d \in AddToESDTBalance(esdtDatas, a, key, -quantity, FALSE) :
           esdtDatas' = RemoveEmptyNft(d, a, key)
      /\ dropped' = dropped \cup (IF nonce # 0 \/ Holds(esdtDatas', a, key) THEN {}
                              ELSE {<<a, token>>})
      /\ UNCHANGED stuck

(* ESDTNFTTransfer of one token, or MultiESDTNFTTransfer.                     *)
ESDTNFTTransfer(from, to, list) == Becomes(TransferESDTs(esdtDatas, from, to, list))

ESDTNFTAddURI(a, token, nonce, uri) ==
  LET key == KeyWithNonce(token, nonce)
  IN  /\ CheckAllowedToExecute(a, token, "ESDTRoleNFTAddURI")
      /\ Holds(esdtDatas, a, key)
      /\ \E m \in esdtDatas[a][key].metadata :
           /\ Len(m.uris) < MaxUris
           /\ Becomes({SetEntry(esdtDatas, a, key,
                [esdtDatas[a][key] EXCEPT !.metadata = {[m EXCEPT !.uris = Append(@, uri)]}])})

(* ------------------------------------ Tests ------------------------------ *)

(* setESDTRole of the test API, which adds an entry for a role only.         *)
SetESDTRole(g, p) ==
  LET entry == EntryOrNew(esdtDatas, g.account, g.token)
  IN  /\ Holds(esdtDatas, g.account, g.token) \/ p
      /\ Becomes({SetEntry(esdtDatas, g.account, g.token,
           [entry EXCEPT !.roles = IF p THEN @ \cup {g.role} ELSE @ \ {g.role}])})

Fungible(a, token) ==
  \E q \in Quantities : ESDTLocalMint(a, token, q) \/ ESDTLocalBurn(a, token, q)

NFT(a, token) ==
  \/ \E q \in Quantities : ESDTNFTCreate(a, token, q) \/ NFTCreateStuck(a, token, q)
  \/ \E n \in Nonces, q \in Quantities :
       ESDTNFTAddQuantity(a, token, n, q) \/ ESDTNFTBurn(a, token, n, q)
  \/ \E n \in Nonces, uri \in Uris : ESDTNFTAddURI(a, token, n, uri)

Next ==
  \/ \E a \in Address, token \in Tokens : Fungible(a, token) \/ NFT(a, token)
  \/ \E from, to \in Address, id \in Identifiers, q \in Quantities : ESDTTransfer(from, to, id, q)
  \/ \E from, to \in Address, list \in Lists : ESDTNFTTransfer(from, to, list)
  \/ \E g \in Grants, p \in BOOLEAN : SetESDTRole(g, p)

Spec == Init /\ [][Next]_vars
===============================================================================
