------------------------------- MODULE MCCalls -------------------------------
(***************************************************************************)
(* Small instances of CallMachine for TLC: a user "u", contracts "a" and   *)
(* "b", an address "x" without account, one token.                         *)
(***************************************************************************)
EXTENDS CallProperties

MCAddress == {"u", "a", "b", "x"}
MCExports == {"f", "callBack", "init"}
MCFunctionName == {"f", "g", "callBack", "init", "ESDTTransfer"}

NewAccount(exists, code, balance, tokens) ==
  [exists |-> exists, code |-> code, balance |-> balance,
   held |-> IF tokens > 0 THEN Token ELSE {}, esdt |-> [t \in Token |-> tokens]]

MCInitialWorlds ==
  {[c \in MCAddress |->
     CASE c = "u" -> NewAccount(TRUE, FALSE, 1, 1)
       [] c = "a" -> NewAccount(TRUE, TRUE, 1, 1)
       [] c = "b" -> NewAccount(TRUE, TRUE, 0, 0)
       [] c = "x" -> NewAccount(FALSE, FALSE, 0, 0)]}

Request(dest, func, value) ==
  [dest |-> dest, func |-> func, value |-> value, esdt |-> <<>>, args |-> NoArgs]
OneToken == <<[token |-> "t", value |-> 1]>>
WithTokens(dest, func, esdt) == [Request(dest, func, 0) EXCEPT !.esdt = esdt]
Builtin(dest, esdt, func) ==
  [Request(dest, "ESDTTransfer", 0) EXCEPT !.args = [esdt |-> esdt, func |-> func]]

(* Direct calls and EGLD transfers: a payable call, calls that fail for want *)
(* of funds, function, code or account, and plain transfers.                 *)
EgldCalls ==
  {Request("a", "f", 1), Request("b", "f", 0), Request("b", "f", 1),
   Request("b", "g", 0), Request("u", "f", 1), Request("x", "f", 0),
   Request("b", "callBack", 0),
   Request("a", NoName, 1), Request("u", NoName, 1), Request("x", NoName, 1)}

(* Token payments, two-token lists that fail half way, and the builtin.      *)
TokenCalls ==
  {WithTokens("a", "f", OneToken), WithTokens("b", "f", OneToken \o OneToken),
   WithTokens("b", NoName, OneToken), WithTokens("x", NoName, OneToken),
   Builtin("b", OneToken, "f"), Builtin("b", OneToken, NoName),
   Builtin("u", OneToken, "f"), Builtin("b", <<>>, "f"),
   [Builtin("b", OneToken, "f") EXCEPT !.value = 1]}

DirectCalls == EgldCalls \cup TokenCalls

(* Async calls, with callbacks that answer success and failure differently.  *)
AsyncCalls ==
  {Request("a", "f", 0), Request("b", "f", 1), Request("b", "g", 0),
   Request("a", NoName, 1), Request("b", NoName, 1)}
AsyncCallbacks == {[success |-> "f", error |-> "callBack"],
                   [success |-> NoName, error |-> "g"]}

(* Instances on which the messages and comments of the code are refuted.     *)
BuiltinThenAsync == {Request("a", "f", 0), Builtin("b", OneToken, "f")}
BuiltinThenCallBack == {Builtin("b", OneToken, "callBack")}
InitThenAsync == {Request("a", "init", 0), Request("b", "f", 0)}
NoCallbacks == {[success |-> NoName, error |-> NoName]}

=============================================================================
