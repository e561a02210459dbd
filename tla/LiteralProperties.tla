-------------------------- MODULE LiteralProperties --------------------------
(***************************************************************************)
(* What the encodings of MandosLiterals promise, stated with decoders that *)
(* are written independently of them: the ones of the contracts that       *)
(* receive the arguments.                                                  *)
(***************************************************************************)
EXTENDS MandosLiterals

BytesToUint(b) == Value(b, 256)

(* The first byte of a negative number counts from -256.                    *)
BytesToInt(b) == IF b # <<>> /\ b[1] >= 128 THEN Value([b EXCEPT ![1] = @ - 256], 256)
                 ELSE BytesToUint(b)

Drop(b, n) == SubSeq(b, n + 1, Len(b))
TakeFirst(b, n) == SubSeq(b, 1, n)

IsSegment(arg) == arg.kind = "string" /\ Len(arg.segments) = 1
Segment(arg) == arg.segments[1]
IsAtom(arg) == IsSegment(arg) /\ Segment(arg).prefixes = <<>>
Atom(arg) == Segment(arg).atom

(* Segments a reader can find the end of without knowing what follows.      *)
HasLength(arg) == IF IsAtom(arg) THEN Atom(arg).kind = "biguint"
                  ELSE Head(Segment(arg).prefixes) = "nested"
IsFixed(arg) == IsAtom(arg) /\ Atom(arg).kind \in DOMAIN FixedWidth
Is32Bytes(arg) == IF IsAtom(arg) THEN Atom(arg).kind \in {"address", "sc"}
                  ELSE Head(Segment(arg).prefixes) = "keccak256"
SelfDelimiting(arg) ==
  IsSegment(arg) /\ (HasLength(arg) \/ IsFixed(arg) \/ Is32Bytes(arg))

Width(arg, bytes) ==
  CASE HasLength(arg) -> 4 + BytesToUint(TakeFirst(bytes, 4))
    [] IsFixed(arg)   -> FixedWidth[Atom(arg).kind]
    [] OTHER          -> AddressLength

WithoutPrefix(segment) == [segment EXCEPT !.prefixes = Tail(@)]

Means(chunk, arg) ==
  CASE IsFixed(arg) -> BytesToUint(chunk) = NumValue(Atom(arg).num)
    [] IsAtom(arg) /\ HasLength(arg) ->
         BytesToUint(Drop(chunk, 4)) = NumValue(Atom(arg).num)
    [] ~IsAtom(arg) /\ HasLength(arg) ->
         SegmentToBytes(WithoutPrefix(Segment(arg))) = {Drop(chunk, 4)}
    [] OTHER -> TRUE

(* Every argument is read where the one before it ends.                     *)
Ends(bytes, args) ==
  LET end[i \in 0..Len(args)] ==
        IF i = 0 THEN 0 ELSE end[i - 1] + Width(args[i], Drop(bytes, end[i - 1]))
  IN  end
ReadsAs(bytes, args) ==
  LET end == Ends(bytes, args)
  IN  /\ \A i \in 1..Len(args) :
           /\ end[i] <= Len(bytes)
           /\ Means(SubSeq(bytes, end[i - 1] + 1, end[i]), args[i])
      /\ end[Len(args)] = Len(bytes)

(* The loop consumes at most MaxElems elements and produces bytes.          *)
TypeOK == /\ elems \in Seq(Elements) /\ Len(elems) <= MaxElems
          /\ barr \in Seq(Byte)
          /\ raised \in BOOLEAN

(* A list of fixed-width numbers, big unsigned integers, nested values,     *)
(* addresses and digests is read back from the concatenation, element by    *)
(* element, with nothing left over: the elements of a list argument are     *)
(* joined without separators (scenario.py:119-135), so a length that is     *)
(* wrong anywhere, or a number cut to its width instead of refused, shifts  *)
(* everything behind it.                                                    *)
ListsAreDecodable ==
  (\A i \in DOMAIN elems : SelfDelimiting(elems[i])) => ReadsAs(barr, elems)

Numeral(sign, num) == IF sign = "-" THEN [num EXCEPT !.minus = TRUE] ELSE num

(* A number has the value it is written with, in as few bytes as its kind   *)
(* allows, and the same text names the same number as an argument (bytes)   *)
(* and as a nonce, balance or gas field (mandos_int_to_int): signed         *)
(* numbers need the sign bit exactly at the powers of two.                  *)
NumbersKeepTheirValue ==
  (Len(elems) = 1 /\ IsAtom(elems[1])) =>
    LET a == Atom(elems[1]) IN
    /\ a.kind = "uint" =>
         /\ BytesToUint(barr) = NumValue(a.num)
         /\ a.num.base = 10 => (barr = <<>> \/ barr[1] # 0)
         /\ MandosIntToInt(a.num) \subseteq {BytesToUint(barr)}
    /\ a.kind \in {"+", "-"} =>
         /\ BytesToInt(barr) = SignedNumber(a.kind, NumValue(a.num))
         /\ Len(barr) > 1 => BytesToInt(Tail(barr)) # BytesToInt(barr)
         /\ MandosIntToInt(Numeral(a.kind, a.num)) \subseteq {BytesToInt(barr)}

IsAddress(arg) ==
  /\ IsAtom(arg) /\ Atom(arg).kind \in {"address", "sc"}
  /\ LET name == Atom(arg).text IN
     /\ Len(name) <= AddressLength -
                       (IF Atom(arg).kind = "sc" THEN ScReservedPrefixLen ELSE 0)
     /\ name # <<>> => Last(name) # Underscore /\ Head(name) # 0

(* Two addresses of a scenario are the same account only if they have the   *)
(* same name and kind, provided that names fit and do not end in the        *)
(* padding character or begin with a zero: longer names are cut, "a" and    *)
(* "a_" are one account, and zeros in front are the prefix of a contract.   *)
(* The names of user accounts and of contracts never meet.                  *)
AddressesDoNotCollide ==
  (Len(elems) = 2 /\ IsAddress(elems[1]) /\ IsAddress(elems[2])) =>
    /\ Len(barr) = 2 * AddressLength
    /\ (TakeFirst(barr, AddressLength) = Drop(barr, AddressLength))
         => elems[1] = elems[2]

(* A claim and a fuzzed call pass the same number to a test endpoint, though *)
(* not always the same bytes: both are unsigned for a reader of arguments,   *)
(* and a claim's first byte never has its top bit set, so that a reader of   *)
(* signed integers agrees as well.                                           *)
ClaimsPassTheFuzzedNumbers ==
  (Len(elems) = 1 /\ IsAtom(elems[1]) /\ Atom(elems[1]).kind = "uint") =>
    LET n == NumValue(Atom(elems[1]).num) IN
    \A typ \in ArgTypes : InType(typ, n) =>
      /\ BytesToUint(VarToBytes(n)) = n /\ BytesToInt(VarToBytes(n)) = n
      /\ \A fuzzed \in MandosStringToBytes(FuzzArgument(n)) :
           BytesToUint(fuzzed) = n /\ Len(VarToBytes(n)) - Len(fuzzed) \in {0, 1}
===============================================================================
