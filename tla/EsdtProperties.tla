---------------------------- MODULE EsdtProperties -----------------------------
(***************************************************************************)
(* What the builtin functions promise about the tokens of all accounts.    *)
(***************************************************************************)
EXTENDS Esdt

Roles == {"ESDTRoleLocalMint", "ESDTRoleLocalBurn", "ESDTRoleNFTCreate",
          "ESDTRoleNFTAddQuantity", "ESDTRoleNFTBurn", "ESDTRoleNFTAddURI"}
IsNft(key) == Len(key) > 1
TokenOf(key) == IF IsNft(key) THEN SubSeq(key, 1, Len(key) - 1) ELSE key

Metadata == [nonce : Nat \ {0}, creator : Address, uris : Seq(Uris)]
Entry == [balance : 0..MaxSupply, roles : SUBSET Roles, metadata : SUBSET Metadata,
          lastNonce : 0..MaxNonce]

(* Every entry is well formed: no balance is negative, the metadata of an    *)
(* NFT is of the token and nonce in its key, and its entry has no roles.     *)
WellFormed(d) ==
  /\ DOMAIN d = Address
  /\ \A a \in Address : \A key \in DOMAIN d[a] :
       /\ d[a][key] \in Entry
       /\ IsNft(key) => d[a][key].roles = {}
       /\ \A m \in d[a][key].metadata :
            TokenOf(key) \in Tokens /\ key = KeyWithNonce(TokenOf(key), m.nonce)

TypeOK == WellFormed(esdtDatas) /\ stuck \in BOOLEAN

(* The count of every creator in the data d is up to date, apart from those  *)
(* that were lost.                                                           *)
Counted(d, lost) ==
  \A a \in Address : \A key \in DOMAIN d[a] : \A m \in d[a][key].metadata :
    LET token == TokenOf(key)
    IN  \/ Holds(d, m.creator, token) /\ m.nonce <= d[m.creator][token].lastNonce
        \/ <<m.creator, token>> \in lost

(* The arguments are bytes, a token is one name, and the data of the setState*)
(* step are well formed, counted and within the bound on supplies.           *)
IsBytes(s) == Len(s) \in Nat \ {0} /\ s = [i \in 1..Len(s) |-> s[i]]

ASSUME DataAssumption ==
  /\ IsFiniteSet(Address)
  /\ \A token \in Tokens : token = <<token[1]>>
  /\ \A id \in Identifiers : IsBytes(id)
  /\ \A list \in Lists : list \in Seq([token : Identifiers, nonce : Nat, value : Nat])
  /\ Grants \subseteq [account : Address, token : Tokens, role : Roles]
  /\ WellFormed(InitialData) /\ Counted(InitialData, {})
  /\ \A a \in Address : \A key \in DOMAIN InitialData[a] : Supply(InitialData, key) <= MaxSupply

Keys == UNION {DOMAIN esdtDatas[a] : a \in Address}
May(a, key, role) == CheckAllowedToExecute(a, TokenOf(key), role)

(* The supply of a token or of an NFT changes only where one account, alone, *)
(* has a role for it at that moment: transfers, to oneself, of nothing or in *)
(* lists, and of an NFT by the bytes of its key (esdt.md:115-222), create    *)
(* and destroy nothing.  More than one of an NFT needs the role for adding.  *)
SupplyIsAuthorised ==
  [][\A key \in Keys \cup Keys' :
       LET delta == Supply(esdtDatas', key) - Supply(esdtDatas, key)
       IN  delta # 0 =>
             \E a \in Address :
               /\ \A b \in Address \ {a} :
                    BalanceOf(esdtDatas', b, key) = BalanceOf(esdtDatas, b, key)
               /\ IF delta < 0 THEN \/ May(a, key, "ESDTRoleNFTBurn")
                                    \/ ~IsNft(key) /\ May(a, key, "ESDTRoleLocalBurn")
                  ELSE IF ~IsNft(key) THEN May(a, key, "ESDTRoleLocalMint")
                  ELSE \/ May(a, key, "ESDTRoleNFTAddQuantity")
                       \/ delta = 1 /\ May(a, key, "ESDTRoleNFTCreate")
                                    /\ ~Holds(esdtDatas, a, key)]_vars

(* A creator counts every nonce it has given to an NFT that anybody still    *)
(* holds, so that its next one is new: whatever was transferred, burned and  *)
(* revoked between, until it burns with nonce 0 and so removes the entry     *)
(* that has the count (esdt.md:334, 555-604).                                *)
NoncesAreCounted == ~stuck => Counted(esdtDatas, dropped)
===============================================================================
