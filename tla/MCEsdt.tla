-------------------------------- MODULE MCEsdt --------------------------------
(***************************************************************************)
(* A contract that creates the NFTs of token T, and the system account,    *)
(* which needs no role.  A transfer may also name NFT 1 by its key.        *)
(***************************************************************************)
EXTENDS EsdtProperties

T == <<"T">>
MCTokens == {T}
MCIdentifiers == {T, <<"T", 1>>}
MCGrants == {[account |-> "sc", token |-> T, role |-> r] :
               r \in {"ESDTRoleNFTCreate", "ESDTRoleNFTBurn"}}
MCLists == {<<[token |-> T, nonce |-> 1, value |-> v]>> : v \in {0, 1}}
             \cup {<<[token |-> T, nonce |-> 1, value |-> 1],
                     [token |-> T, nonce |-> 0, value |-> 1]>>}

MCInitialData ==
  [a \in {"sc", "system"} |->
     IF a = "system" THEN EmptyMap
     ELSE [key \in {T} |-> [NewEntry EXCEPT !.roles = {"ESDTRoleNFTCreate", "ESDTRoleLocalBurn"}]]]
===============================================================================
