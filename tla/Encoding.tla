------------------------------ MODULE Encoding ------------------------------
(***************************************************************************)
(* The conversions between numbers, bytes and hex strings (utils.go,        *)
(* paymaster.go) that the gas fields of an operation go through: from the    *)
(* bundler's estimates into an object (EstimateUserOpGas, bundler.go), and   *)
(* from an object into the words the hashes cover.  Pure functions, called   *)
(* one after the other with any argument; the number of values of a digit    *)
(* and the width of a half word are parameters (16 and 16 in the code).      *)
(* The decoding of the bundler's responses (module Responses) is called the  *)
(* same way.                                                                *)
(***************************************************************************)
EXTENDS Responses, Sequences

CONSTANTS
  Base,       (* values of a hex digit                                     *)
  HalfWidth,  (* bytes in half a word                                      *)
  Numbers,    (* big.Ints tried                                            *)
  MaxDigits,  (* bound: digits of a hex string                             *)
  MaxData     (* bound: bytes of paymaster data                            *)

ASSUME EncodingAssumption ==
  /\ Base \in Nat \ {0, 1}
  /\ HalfWidth \in Nat \ {0}
  /\ Numbers \subseteq Nat
  /\ MaxDigits \in Nat /\ MaxData \in Nat
  /\ Nil \notin Nat

ByteBase == Base * Base
Bytes == 0 .. ByteBase - 1

BadDigit == Base  \* a character that is no hex digit

VARIABLES
  function,  \* the function called last
  args,      \* its arguments
  out        \* what it returned, or <<"panic">>

vars == <<function, args, out>>

-----------------------------------------------------------------------------
(* External: math/big and go-ethereum's common.                             *)

\* big.Int.Bytes: big endian, no leading zero byte.
BigBytes[n \in Nat] ==
  IF n = 0 THEN <<>> ELSE Append(BigBytes[n \div ByteBase], n % ByteBase)

\* big.Int.Text(16): no leading zero digit.
HexText[n \in Nat] ==
  IF n < Base THEN <<n>> ELSE Append(HexText[n \div Base], n % Base)

\* The number that digits write in some base, the highest first.
NumberOf(base, digits) ==
  LET value[i \in 0 .. Len(digits)] ==
        IF i = 0 THEN 0 ELSE value[i - 1] * base + digits[i]
  IN  value[Len(digits)]

\* big.Int.SetBytes.
SetBytes(bytes) == NumberOf(ByteBase, bytes)

\* common.LeftPadBytes: no byte is ever cut off.
LeftPadBytes(bytes, n) ==
  [i \in 1 .. (IF Len(bytes) < n THEN n - Len(bytes) ELSE 0) |-> 0] \o bytes

\* common.Hex2Bytes drops the error of hex.DecodeString and keeps the bytes
\* before the first pair that is incomplete or has a bad digit.
Hex2Bytes(digits) ==
  LET good == {n \in 0 .. Len(digits) \div 2 :
                 \A i \in 1 .. 2 * n : digits[i] # BadDigit}
      pairs == CHOOSE n \in good : \A m \in good : m <= n
  IN  [i \in 1 .. pairs |-> digits[2 * i - 1] * Base + digits[2 * i]]

-----------------------------------------------------------------------------
(* utils.go, paymaster.go and the field conversion of EstimateUserOpGas.     *)

\* Faulty variant: the string is cut behind a prefix it does not have.
SkipsFirstByte(digits) ==
  SetBytes(IF Hex2Bytes(digits) = <<>> THEN <<>> ELSE Tail(Hex2Bytes(digits)))

\* The digits after an optional "0x".
HexToBigInt(digits) == SetBytes(Hex2Bytes(digits))

\* A gas field of the bundler's answer: absent, or a hex string.
EstimateField(field) == IF field = Nil THEN Nil ELSE HexToBigInt(field)

\* Faulty variant: the second number follows the first without padding.
Unpadded(a, b) == SubSeq(LeftPadBytes(BigBytes[a] \o BigBytes[b], 2 * HalfWidth), 1, 2 * HalfWidth)

\* copy() into the 2 * HalfWidth bytes of the result cuts off the rest.
Halves(a, b) ==
  SubSeq(LeftPadBytes(BigBytes[a], HalfWidth) \o LeftPadBytes(BigBytes[b], HalfWidth),
         1, 2 * HalfWidth)

PackInt(a, b) == IF a = Nil \/ b = Nil THEN <<"panic">> ELSE Halves(a, b)

\* Faulty variant: the limits in the other order.
SwappedLimits(paymaster, ver, post, data) ==
  paymaster \o LeftPadBytes(BigBytes[post], HalfWidth)
            \o LeftPadBytes(BigBytes[ver], HalfWidth) \o data

Joined(paymaster, ver, post, data) ==
  paymaster \o LeftPadBytes(BigBytes[ver], HalfWidth)
            \o LeftPadBytes(BigBytes[post], HalfWidth) \o data

PackPaymasterAndData(paymaster, ver, post, data) ==
  IF ver = Nil \/ post = Nil THEN <<"panic">> ELSE Joined(paymaster, ver, post, data)

-----------------------------------------------------------------------------
(* The calls.                                                               *)

DigitStrings == UNION {[1 .. n -> 0 .. BadDigit] : n \in 0 .. MaxDigits}
DataStrings == UNION {[1 .. n -> Bytes] : n \in 0 .. MaxData}
Paymasters == {<<b>> : b \in Bytes}  \* an address, of one byte here

Init == function = "none" /\ args = <<>> /\ out = <<>>

Called(f, arguments, result) ==
  function' = f /\ args' = arguments /\ out' = result

CallEstimate ==
  \E field \in DigitStrings \cup {Nil} :
    Called("EstimateField", <<field>>, <<EstimateField(field)>>)

CallPackInt ==
  \E a, b \in Numbers \cup {Nil} : Called("PackInt", <<a, b>>, PackInt(a, b))

CallPackPaymaster ==
  \E p \in Paymasters, ver, post \in Numbers \cup {Nil}, data \in DataStrings :
    Called("PackPaymasterAndData", <<p, ver, post, data>>,
           PackPaymasterAndData(p, ver, post, data))

CallBundler ==
  \E m \in RpcMethods, body \in ResponseBodies : Called(m, <<body>>, Response(m, body))

\* One call, of any function: the functions keep no state.
Next ==
  /\ function = "none"
  /\ CallEstimate \/ CallPackInt \/ CallPackPaymaster \/ CallBundler

Spec == Init /\ [][Next]_vars

-----------------------------------------------------------------------------
(* Properties.                                                              *)

Fits(n) == n # Nil /\ Len(BigBytes[n]) <= HalfWidth

\* The value of a string of good digits, digit by digit.
HexValue(digits) == NumberOf(Base, digits)

\* An estimate arrives as the number of its digits before the first pair that has
\* a bad digit, and never as an error; the last digit of an odd number of digits
\* is in no pair and is lost (utils.go:78-84, bundler.go:60-78).
EstimateReadsPairs ==
  function = "EstimateField" /\ args[1] # Nil =>
    \E n \in 0 .. Len(args[1]) \div 2 :
      /\ out[1] = HexValue(SubSeq(args[1], 1, 2 * n))
      /\ \A i \in 1 .. 2 * n : args[1][i] # BadDigit
      /\ n < Len(args[1]) \div 2 => BadDigit \in {args[1][2 * n + 1], args[1][2 * n + 2]}

\* The EntryPoint reads the first number back from the first half of the word just
\* if it fits, and then the second one just if that fits; a wider number is lost
\* without an error, and a first one that is wider may shift the second as well
\* (utils.go:108-122).
PackIntSplits ==
  function = "PackInt" /\ args[1] # Nil /\ args[2] # Nil =>
    /\ Len(out) = 2 * HalfWidth
    /\ SetBytes(SubSeq(out, 1, HalfWidth)) = args[1] <=> Fits(args[1])
    /\ Fits(args[1]) =>
         (SetBytes(SubSeq(out, HalfWidth + 1, 2 * HalfWidth)) = args[2] <=> Fits(args[2]))

\* The offsets at which GetPaymasterHash (paymaster.go:34-55) and the EntryPoint
\* cut paymasterAndData give back the paymaster always, the limits one after the
\* other as far as they fit, and the data just if both do (paymaster.go:70-84).
PaymasterFieldsSplit ==
  function = "PackPaymasterAndData" /\ args[2] # Nil /\ args[3] # Nil =>
    LET verOffset == Len(args[1])             \* PaymasterValidationGasOffset
        postOffset == verOffset + HalfWidth   \* PaymasterPostOpGasOffset
        dataOffset == postOffset + HalfWidth  \* PaymasterDataOffset
    IN  /\ SubSeq(out, 1, verOffset) = args[1]
        /\ SetBytes(SubSeq(out, verOffset + 1, postOffset)) = args[2] <=> Fits(args[2])
        /\ Fits(args[2]) =>
             (SetBytes(SubSeq(out, postOffset + 1, dataOffset)) = args[3] <=> Fits(args[3]))
        /\ SubSeq(out, dataOffset + 1, Len(out)) = args[4] <=> Fits(args[2]) /\ Fits(args[3])

\* Whatever the bundler writes under "error", other than null, makes the method
\* fail, whether or not a result stands beside it.  The bundler's message is in
\* the method's error, for an error in one of the two forms the code knows, if
\* "id" and the result beside it decode: beside a null result SendUserOp, which
\* wants a hash, reports its own decoding and loses the message
\* (bundler.go:30-32, 108-114, 194-219).
ErrorIsReported ==
  function \in RpcMethods /\ args[1].kind = "object" =>
    LET e == args[1].error
    IN  /\ e.kind \notin {"absent", "null"} => out.status = "error"
        /\ /\ e.kind = "string" \/ (e.kind = "object" /\ e.message = "string" /\ e.code # "other")
           /\ args[1].id = "fits"
           => ("message" \in out.parts <=> ResultDecodes(function, args[1].result))

\* No response makes a method panic, and what a method returns without an error
\* is what the bundler answered or, for a missing result, the zero value: no
\* receipt, no entry points, or the zero hash, but never estimates.  Null is
\* not a missing hash, and of a receipt all but its return data is right
\* (bundler.go:26-33, 50-58, 87-94, 108-115, types.go:169).
AnswerIsTheirs ==
  function \in RpcMethods =>
    /\ out.status # "panic"
    /\ out.status = "ok" =>
         LET r == args[1].result
         IN  \/ /\ r.kind = "value" /\ out.result.kind = "value"
                /\ function # "GetUserOpReceipt" \/ r.returnData = Nil => out.result = r
             \/ r.kind = "absent" /\ out.result = Nil /\ function # "EstimateUserOpGas"
             \/ /\ r.kind = "null" /\ out.result = Nil
                /\ function \in {"GetUserOpReceipt", "SupportedEntryPoints"}

-----------------------------------------------------------------------------
(* What the repository's texts say and the code does not do.                *)

\* utils.go:76 "HexToBigInt converts a hex string to a big.Int": the hex text of
\* a number, which has no leading zero, converts back to the number.
QuantityIsExact ==
  \A n \in Numbers :
    function = "EstimateField" /\ args[1] = HexText[n] => out[1] = n
=============================================================================
