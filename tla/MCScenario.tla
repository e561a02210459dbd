------------------------------ MODULE MCScenario ------------------------------
(***************************************************************************)
(* Two accounts, one of them under two literals, an address that is        *)
(* reserved for a deployment, and files with a fixed first step and up to  *)
(* MaxSteps steps out of a pool with every kind of step: legal ones, ones  *)
(* that cannot be translated and ones the interpreter gets stuck on; or    *)
(* out of a pool of calls of every builtin function.                       *)
(***************************************************************************)
EXTENDS ScenarioProperties

CONSTANT MaxSteps

MCAddressBytes == [l \in {"alice", "0x616c696365", "bob", "new"} |->
                     IF l = "0x616c696365" THEN "alice" ELSE l]

Wasm == [scheme |-> "mxsc:", file |-> "a.wasm"]
Wat  == [scheme |-> "file:", file |-> "a.wat"]
NoCode == [scheme |-> "", file |-> ""]
Stored(v) == [key \in {"s"} |-> v]
Roles == {"ESDTRoleLocalMint", "ESDTRoleLocalBurn", "ESDTRoleNFTCreate",
          "ESDTRoleNFTAddQuantity", "ESDTRoleNFTBurn", "ESDTRoleNFTAddURI"}
NFT(nonce, n) == [nonce |-> nonce, balance |-> n, creator |-> "bob"]
Token(n, nfts) == [t \in {"TKN"} |-> [instances |-> <<[balance |-> n]>> \o nfts,
                                       roles |-> Roles, lastNonce |-> Len(nfts)]]
Plain(n) == [t \in {"TKN"} |-> [plain |-> n]]

MCDescriptions ==
  {[nonce |-> 1, balance |-> 5, code |-> Wasm, storage |-> Stored(1)],
   [balance |-> 5, storage |-> Stored(2)],
   [nonce |-> 0, code |-> NoCode, esdt |-> Plain(2)],
   [balance |-> 4, esdt |-> Token(1, <<NFT(1, 2)>>)],
   [code |-> Wat],
   [storage |-> Stored(0)],
   [owner |-> "alice", storage |-> EmptyMap],
   [owner |-> "bob"],
   [storage |-> [key \in {"s", "ELRONDreward"} |-> 1]],
   [storage |-> [key \in {"ELRONDreward"} |-> 0]],
   [nonce |-> Star, balance |-> 5],
   [esdt |-> Token(1, <<NFT(1, 2), NFT(1, 3)>>)],
   [esdt |-> Token(1, <<NFT(1, 2), NFT(1, 2)>>)],
   [esdt |-> Token(1, <<[nonce |-> 1, balance |-> 2, creator |-> "alice"]>>)],
   [code |-> [scheme |-> "file:", file |-> "a.zip"], balance |-> 1],
   [code |-> [scheme |-> "0x", file |-> ""]],
   [esdt |-> [t \in {"TKN"} |-> [roles |-> {"NoSuchRole"}]]]}

Set(literal, d) == [step |-> "setState", accounts |-> [l \in {literal} |-> d]]
CheckOnly(literals, d) == [step |-> "checkState", accounts |-> [l \in literals |-> d]]
Tx(from, to, value) == [from |-> from, to |-> to, egldValue |-> value]
Call(func, args, value, tokens, expect) ==
  [step |-> "scCall", expect |-> expect,
   tx |-> [from |-> "bob", to |-> "alice", function |-> func, arguments |-> args,
           value |-> value, esdtValue |-> tokens, gasLimit |-> 1, gasPrice |-> 1]]
Deploy(scheme, file) ==
  [step |-> "scDeploy", expect |-> [status |-> 0],
   tx |-> [from |-> "bob", contractCode |-> [scheme |-> scheme, file |-> file],
           value |-> 1, arguments |-> <<1>>, gasLimit |-> 0]]
TKN == TokenBytes("TKN")
Builtin(to, func, args, status) ==
  [step |-> "scCall", expect |-> [status |-> status],
   tx |-> [from |-> "bob", to |-> to, function |-> func, arguments |-> args, gasLimit |-> 0]]
Query(to, func, args) ==
  [step |-> "scQuery", tx |-> [to |-> to, function |-> func, arguments |-> args]]
External(path) == [step |-> "externalSteps", path |-> path]

Setup ==
  [step |-> "setState",
   accounts |-> [l \in {"alice", "bob"} |->
     IF l = "alice" THEN [nonce |-> 1, code |-> Wasm, storage |-> Stored(1)]
     ELSE [balance |-> 5, esdt |-> Token(1, <<NFT(1, 2)>>)]],
   newAddresses |-> <<[creatorAddress |-> "bob", creatorNonce |-> 0, newAddress |-> "new"],
                      [creatorAddress |-> "bob", creatorNonce |-> 1, newAddress |-> "alice"]>>,
   currentBlockInfo |-> [blockNonce |-> 1, blockTimestamp |-> 2],
   previousBlockInfo |-> [blockEpoch |-> 1]]

Pool ==
  {Set("0x616c696365", [code |-> Wat, storage |-> Stored(0)]),
   [step |-> "setState"],
   Set("bob", [code |-> [scheme |-> "0x", file |-> ""]]),
   CheckOnly({"bob"}, [nonce |-> Star, balance |-> 5, esdt |-> Token(1, <<NFT(1, 2)>>)]),
   CheckOnly({"alice", "+"}, [code |-> Wasm, storage |-> Stored(1), balance |-> 0]),
   CheckOnly({"alice", "0x616c696365"}, [balance |-> Star]),
   CheckOnly({"alice", "bob"}, [balance |-> Star]),
   [step |-> "checkState"],
   Call("set", <<2>>, 2, <<>>, [status |-> 0, out |-> <<>>]),
   Call("get", <<>>, 9, <<>>, [status |-> 7, message |-> "OutOfFunds"]),
   Call("get", <<>>, 0, <<[tokenIdentifier |-> "TKN", value |-> 1],
                          [tokenIdentifier |-> "TKN", nonce |-> 1, value |-> 2]>>,
        [out |-> Star, status |-> 0]),
   Call("fail", <<>>, 1, <<>>, [status |-> 0]),
   Call("fail", <<>>, 1, <<>>, [status |-> 99]),
   [step |-> "scQuery", tx |-> [to |-> "alice", function |-> "get"], expect |-> [out |-> <<1>>]],
   Query("alice", "set", <<3>>),
   Deploy("mxsc:", "a.wasm"), Deploy("file:", "a.zip"),
   [step |-> "transfer", tx |-> Tx("bob", "bob", 2)],
   [step |-> "transfer", tx |-> Tx("alice", "bob", 9)],
   [step |-> "validatorReward", tx |-> Tx("bob", "alice", 1)],
   External("ext"), External("missing"), [step |-> "noSuchStep"]}

(* Every builtin, with and without success, and with a follow-up call.       *)
BuiltinPool ==
  {Builtin("bob", "ESDTLocalMint", <<TKN, 2>>, 0),
   Builtin("alice", "ESDTLocalMint", <<TKN, 2>>, 10),
   Query("alice", "ESDTLocalMint", <<TKN, 2>>),
   Query("bob", "ESDTLocalMint", <<TKN, 2>>),
   Builtin("bob", "ESDTLocalBurn", <<TKN, 1>>, 0),
   Builtin("alice", "ESDTTransfer", <<TKN, 1>>, 0),
   Builtin("alice", "ESDTTransfer", <<TKN, 3, "set", 2>>, 0),
   Builtin("alice", "ESDTTransfer", <<TKN, 1, "fail">>, 4),
   Builtin("bob", "MultiESDTNFTTransfer", <<"alice", 2, TKN, 0, 1, TKN, 1, 2, "get">>, 0),
   Builtin("bob", "ESDTNFTTransfer", <<TKN, 1, 1, "nobody">>, 10),
   Builtin("bob", "ESDTNFTTransfer", <<TKN, 1, 2, "alice", "callBack">>, 1),
   Builtin("bob", "ESDTNFTCreate", <<TKN, 2, "name", 100, "hash", "attributes", "uri">>, 0),
   Builtin("bob", "ESDTNFTBurn", <<TKN, 1, 2>>, 0),
   Builtin("bob", "ESDTNFTBurn", <<TKN, 0>>, 0),
   Builtin("bob", "ESDTNFTAddQuantity", <<TKN, 1, 1>>, 0),
   Builtin("bob", "ESDTNFTAddURI", <<TKN, 1, "uri">>, 0),
   Set("bob", [esdt |-> [t \in {"TKN"} |-> [lastNonce |-> 0]]])}

ExtFile == <<CheckOnly({"alice", "+"}, [balance |-> Star]), External("last"), [step |-> "scQuery",
          tx |-> [to |-> "bob", function |-> "get"], expect |-> [status |-> 3]]>>
LastFile == <<[step |-> "validatorReward", tx |-> Tx("bob", "bob", 1)]>>

MCFileSystems ==
  {[f \in {"main", "ext", "last"} |->
      CASE f = "main" -> <<Setup>> \o steps [] f = "ext" -> ExtFile [] f = "last" -> LastFile]
     : steps \in UNION {[1..n -> Pool] \cup [1..n -> BuiltinPool] : n \in 0..MaxSteps}}

MCTestLists == {<<"main">>, <<"main", "last">>}
===============================================================================
