---------------------------- MODULE MandosLiterals ----------------------------
(***************************************************************************)
(* How the scenario translator turns the arguments of a scenario file into *)
(* bytes (scenario.py), and how kasmer.py writes the arguments of a fuzzed *)
(* call and of a claim.  An argument string is a list of segments, the     *)
(* pieces between the '|' characters; a segment is a chain of "nested:"    *)
(* and "keccak256:" prefixes and an atom.  Digits are numbers, names are   *)
(* sequences of character codes.  An interpretation is a set: {bytes} when *)
(* Python returns them, {} when it raises.                                 *)
(*                                                                         *)
(* The behaviours are those of the loop of mandos_argument_to_bytes over   *)
(* the elements of a list.                                                 *)
(***************************************************************************)
EXTENDS Integers, SequencesExt

CONSTANTS Elements,   \* the arguments a list can hold, and the parts of those
          Depth,      \* of each element: lists and dictionaries are nested finitely
          MaxElems    \* length of the list

VARIABLES elems,      \* elements consumed by the loop
          barr,       \* bytes they gave
          raised      \* ValueError or OverflowError ended the loop

vars == <<elems, barr, raised>>

(* ------------------------------ Integers -------------------------------- *)

Byte == 0..255
BitLength[n \in Nat] == IF n = 0 THEN 0 ELSE 1 + BitLength[n \div 2]

(* A number without its last i bytes.                                        *)
Shifted(n) == LET rest[i \in Nat] == IF i = 0 THEN n ELSE rest[i - 1] \div 256 IN rest

(* int.to_bytes(length, 'big'), two's complement for negative numbers.       *)
ToBytes(n, length) == [i \in 1..length |-> Shifted(n)[length - i] % 256]

Value(digits, base) == FoldLeft(LAMBDA acc, d : acc * base + d, 0, digits)

(* A numeral: base, digits most significant first, and for a decimal the     *)
(* minus sign that int() accepts.  Separators are left out.                  *)
NumeralRecord == [base : {2, 10, 16}, digits : Seq(0..15), minus : BOOLEAN]
IsNumeral(num) ==
  /\ num \in NumeralRecord
  /\ \A i \in DOMAIN num.digits : num.digits[i] < num.base
  /\ num.minus => num.base = 10
NumValue(num) == IF num.minus THEN -Value(num.digits, num.base) ELSE Value(num.digits, num.base)

NoDigits(num) == num.digits = <<>>

(* The number and its length in bytes: decimals take the fewest bytes, hex   *)
(* and binary numerals keep the width they are written with.                 *)
ConvertStringToUint(num) ==
  LET k == Len(num.digits)
      n == NumValue(num)
  IN  CASE num.base = 16 -> {[int |-> n, len |-> (k + 1) \div 2]}
        [] num.base = 2  -> {[int |-> n, len |-> (k + 7) \div 8]}
        [] num.base = 10 -> IF NoDigits(num) \/ n < 0 THEN {}
                            ELSE {[int |-> n, len |-> (BitLength[n] + 7) \div 8]}

SignedNumber(sign, n) == IF sign = "-" THEN -n ELSE n

SintOneBitShort(sign, num) ==                                           \* mutant
  {[int |-> SignedNumber(sign, u.int), len |-> (BitLength[u.int] + 7) \div 8]
     : u \in ConvertStringToUint(num)}
ConvertStringToSint(sign, num) ==
  {LET n == SignedNumber(sign, u.int)
       m == IF n < 0 THEN n + 1 ELSE n              \* num_int + (num_int < 0)
   IN  [int |-> n, len |-> (8 + BitLength[IF m < 0 THEN -m ELSE m]) \div 8]
     : u \in ConvertStringToUint(num)}

FixedWidthTruncates(num, width) ==                                      \* mutant
  {ToBytes(u.int, width) : u \in ConvertStringToUint(num)}
UintFixedWidth(num, width) ==
  {ToBytes(u.int, width) : u \in {v \in ConvertStringToUint(num) :
                                    BitLength[v.int] <= 8 * width}}

(* Nonces, balances and gas: decimals, negative ones too, and 0x numerals.   *)
MandosIntToInt(num) ==
  IF NoDigits(num) \/ num.base = 2 \/ (num.minus /\ num.base = 16)
  THEN {} ELSE {NumValue(num)}

(* ------------------------------ Addresses ------------------------------- *)

AddressLength == 32
ScReservedPrefixLen == 10
Underscore == 95
MaxAscii == 127

CreateAddressOptionalShardId(name, zeros) ==
  LET padded == [i \in 1..zeros |-> 0] \o name
  IN  IF \E i \in 1..AddressLength : i <= Len(padded) /\ padded[i] > MaxAscii THEN {}
      ELSE {[i \in 1..AddressLength |->
               IF i <= Len(padded) THEN padded[i] ELSE Underscore]}

AddressExpression(name) == CreateAddressOptionalShardId(name, 0)
ScWithoutPrefix(name) == AddressExpression(name)                        \* mutant
ScExpression(name) == CreateAddressOptionalShardId(name, ScReservedPrefixLen)

(* ------------------------------- Strings -------------------------------- *)

(* A digest: only its length is used.                                        *)
Keccak256(bytes) == [i \in 1..AddressLength |-> (i + Len(bytes)) % 256]

(* len(bytes).to_bytes(4, 'big') raises for a length of more than 32 bits.   *)
WithLength(bytes) ==
  IF BitLength[Len(bytes)] > 32 THEN {} ELSE {ToBytes(Len(bytes), 4) \o bytes}

FixedWidth == [u64 |-> 8, u32 |-> 4, u16 |-> 2, u8 |-> 1]

EncodesAnyLetter(text) == {text}                                        \* mutant
AsciiBytes(text) == IF \E i \in DOMAIN text : text[i] > MaxAscii THEN {} ELSE {text}

AtomToBytes(a) ==
  CASE a.kind \in {"none", "false"} -> {<<>>}
    [] a.kind = "true"    -> {<<1>>}
    [] a.kind = "str"     -> AsciiBytes(a.text)
    [] a.kind = "address" -> AddressExpression(a.text)
    [] a.kind = "sc"      -> ScExpression(a.text)
    [] a.kind = "biguint" -> UNION {WithLength(ToBytes(u.int, u.len)) :
                                      u \in ConvertStringToUint(a.num)}
    [] a.kind \in DOMAIN FixedWidth -> UintFixedWidth(a.num, FixedWidth[a.kind])
    [] a.kind \in {"+", "-"} -> {ToBytes(s.int, s.len) :
                                   s \in ConvertStringToSint(a.kind, a.num)}
    [] a.kind = "uint"    -> {ToBytes(u.int, u.len) : u \in ConvertStringToUint(a.num)}

InterpretNestedBytes(bytes) == UNION {WithLength(b) : b \in bytes}

(* Prefixes apply from the atom outwards.                                    *)
SegmentToBytes(s) ==
  FoldLeft(LAMBDA bytes, prefix :
             IF prefix = "nested" THEN InterpretNestedBytes(bytes)
             ELSE {Keccak256(b) : b \in bytes},
           AtomToBytes(s.atom), Reverse(s.prefixes))

Concatenation(results) ==
  FoldLeft(LAMBDA acc, r : {a \o b : a \in acc, b \in r}, {<<>>}, results)

(* '|' is split off first: a prefix reaches to the next '|' only.            *)
MandosStringToBytes(segments) ==
  Concatenation([i \in DOMAIN segments |-> SegmentToBytes(segments[i])])

(* The elements of a list; the values of a dictionary, by its sorted keys.   *)
Sorted(keys) == CHOOSE s \in [1..Cardinality(keys) -> keys] :
                  \A i, j \in 1..Cardinality(keys) : i < j => s[i] < s[j]
Parts(arg) ==
  IF arg.kind = "list" THEN arg.elems
  ELSE [i \in 1..Cardinality(DOMAIN arg.fields) |-> arg.fields[Sorted(DOMAIN arg.fields)[i]]]

MandosArgumentToBytes[arg \in Elements] ==
  IF arg.kind = "string" THEN MandosStringToBytes(arg.segments)
  ELSE Concatenation([i \in DOMAIN Parts(arg) |-> MandosArgumentToBytes[Parts(arg)[i]]])

AtomRecord ==
  [kind : {"none", "true", "false"}]
    \cup [kind : {"str", "address", "sc"}, text : Seq(Nat)]
    \cup [kind : {"uint", "biguint", "u8", "u16", "u32", "u64", "+", "-"}, num : NumeralRecord]
SegmentRecord == [prefixes : Seq({"nested", "keccak256"}), atom : AtomRecord]
IsString(arg) ==
  /\ arg \in [kind : {"string"}, segments : Seq(SegmentRecord)]
  /\ \A i \in DOMAIN arg.segments :
       "num" \in DOMAIN arg.segments[i].atom => IsNumeral(arg.segments[i].atom.num)
IsDict(arg) ==
  /\ arg.kind = "dict"
  /\ IsFiniteSet(DOMAIN arg.fields) /\ DOMAIN arg.fields \subseteq Nat
  /\ \A key \in DOMAIN arg.fields : arg.fields[key] \in Elements

ASSUME LiteralsAssumption ==
  /\ MaxElems \in Nat
  /\ \A arg \in Elements :
       IsString(arg) \/ arg \in [kind : {"list"}, elems : Seq(Elements)] \/ IsDict(arg)
  /\ Depth \in [Elements -> Nat]
  /\ \A arg \in Elements : arg.kind # "string" =>
       \A i \in DOMAIN Parts(arg) : Depth[Parts(arg)[i]] < Depth[arg]

(* --------------------- Arguments of test endpoints ----------------------- *)

ArgTypes == {"BigUint", "u32", "u64"}

(* The numbers _type_to_strategy draws and type_to_constraint allows, and    *)
(* what each of the two ways to run a test passes for one of them.           *)
InType(typ, n) == n >= 0 /\ (typ = "u32" => BitLength[n] <= 32)
                         /\ (typ = "u64" => BitLength[n] <= 64)

Decimal[n \in Nat] == IF n < 10 THEN <<n>> ELSE Append(Decimal[n \div 10], n % 10)

FuzzArgument(n) ==
  <<[prefixes |-> <<>>, atom |->
     [kind |-> "uint", num |-> [base |-> 10, digits |-> Decimal[n], minus |-> FALSE]]]>>

(* Int2BytesNoLen, big endian and signed: nothing for zero, and room for a   *)
(* sign bit otherwise.                                                       *)
VarWithoutSignBit(n) == IF n = 0 THEN <<>>                              \* mutant
                        ELSE ToBytes(n, BitLength[n] \div 8)
VarToBytes(n) == IF n = 0 THEN <<>> ELSE ToBytes(n, (BitLength[n] + 8) \div 8)

(* ------------------------------ Behaviours ------------------------------ *)

Init == elems = <<>> /\ barr = <<>> /\ raised = FALSE

Extend(arg) ==
  /\ ~raised /\ Len(elems) < MaxElems
  /\ \E bytes \in MandosArgumentToBytes[arg] : barr' = barr \o bytes
  /\ elems' = Append(elems, arg)
  /\ UNCHANGED raised

Raise(arg) ==
  /\ ~raised /\ Len(elems) < MaxElems
  /\ MandosArgumentToBytes[arg] = {}
  /\ raised' = TRUE
  /\ UNCHANGED <<elems, barr>>

Next == \E arg \in Elements : Extend(arg) \/ Raise(arg)
Spec == Init /\ [][Next]_vars
===============================================================================
