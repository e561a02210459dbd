------------------------------ MODULE MCLiterals ------------------------------
(***************************************************************************)
(* Literals around the boundaries: the powers of two where a byte or a     *)
(* sign bit is added, hex and binary numerals with leading zeros and odd   *)
(* lengths, names of 22, 23, 32 and 33 characters, nesting, '|', lists and *)
(* dictionaries.                                                           *)
(***************************************************************************)
EXTENDS LiteralProperties

Boundaries == {0, 1, 127, 128, 129, 255, 256, 32767, 32768, 32769, 65535, 65536}
Dec(n) == [base |-> 10, digits |-> Decimal[n], minus |-> FALSE]
Hex(digits) == [base |-> 16, digits |-> digits, minus |-> FALSE]
Bin(digits) == [base |-> 2, digits |-> digits, minus |-> FALSE]

Numerals == {Dec(n) : n \in Boundaries}
  \cup {[base |-> 10, digits |-> <<5>>, minus |-> TRUE], [Dec(0) EXCEPT !.digits = <<>>],
        Hex(<<>>), Hex(<<8, 0>>), Hex(<<0, 0, 15>>), Hex(<<1, 15, 15>>),
        Bin(<<1>>), Bin(<<0, 1, 1, 1, 1, 1, 1, 1, 1>>)}

Str(arg) == [kind |-> "string", segments |-> arg]
One(prefixes, atom) == Str(<<[prefixes |-> prefixes, atom |-> atom]>>)

Unsigned == {n \in Numerals : ~n.minus}       \* a leading minus makes it a "-" atom
Numbers == {One(<<>>, [kind |-> "uint", num |-> n]) : n \in Unsigned}
  \cup {One(<<>>, [kind |-> k, num |-> n]) :
          k \in {"+", "-", "biguint", "u8", "u16", "u64"}, n \in Numerals}

LetterA == 97
Name(n) == [i \in 1..n |-> LetterA]
Names == {Name(n) : n \in {0, 1, 21, 22, 23, 32, 33}}
           \cup {<<LetterA, Underscore>>, <<LetterA, 233>>, <<0>>}
           \cup {[i \in 1..11 |-> IF i = 11 THEN LetterA ELSE 0]}
Addresses == {One(<<>>, [kind |-> k, text |-> n]) : k \in {"address", "sc"}, n \in Names}

Plain(kind) == [kind |-> kind]
Text == [kind |-> "str", text |-> <<LetterA, LetterA>>]
Euro == [kind |-> "str", text |-> <<8364>>]
Five == [kind |-> "uint", num |-> Dec(5)]
Others ==
  {One(<<>>, Plain("none")), One(<<>>, Plain("true")), One(<<>>, Plain("false")),
   One(<<>>, Text), One(<<>>, Euro), One(<<"nested">>, Text), One(<<"nested">>, Five),
   One(<<"nested", "nested">>, Five),
   One(<<"keccak256">>, Text), One(<<"nested", "keccak256">>, Five),
   One(<<"nested">>, [kind |-> "-", num |-> Dec(128)]),
   Str(<<[prefixes |-> <<"nested">>, atom |-> Five], [prefixes |-> <<>>, atom |-> Text]>>),
   [kind |-> "list", elems |-> <<One(<<"nested">>, Five), One(<<>>, Text)>>],
   [kind |-> "dict", fields |-> [k \in {2, 1} |-> One(<<"nested">>, Five)]]}

MCElements == Numbers \cup Addresses \cup Others
MCDepth == [arg \in MCElements |-> IF arg.kind = "string" THEN 0 ELSE 1]
===============================================================================
