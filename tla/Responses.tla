------------------------------ MODULE Responses ------------------------------
(***************************************************************************)
(* What the methods of bundler.go make of the body of an HTTP response.      *)
(* encoding/json is external; it is modelled as far as the Go types of the   *)
(* decoded fields make a difference.  Neither the HTTP status nor the value  *)
(* of "id" plays a part.                                                    *)
(***************************************************************************)
EXTENDS Naturals

CONSTANTS
  Nil,      (* a nil pointer, an absent field                              *)
  MaxReturn (* bound: bytes of return data in a receipt                    *)

RpcMethods == {"GetUserOpReceipt", "EstimateUserOpGas", "SupportedEntryPoints", "SendUserOp"}

-----------------------------------------------------------------------------
(* Bodies: the fields of a JSON object, each absent, null, of the type that  *)
(* the struct asks for or of another.                                       *)

Missing == {[kind |-> "absent"], [kind |-> "null"]}

ErrorValues ==
  Missing
  \cup {[kind |-> k] : k \in {"emptyString", "string", "number", "array"}}
  \cup [kind : {"object"}, code : {"absent", "int", "other"},
        message : {"absent", "string", "other"}]

\* A receipt may have return data; the other results have no part that fails.
ResultValues ==
  Missing \cup {[kind |-> "mismatch"]}
  \cup [kind : {"value"}, returnData : {Nil} \cup 0 .. MaxReturn]

ResponseBodies ==
  {[kind |-> "notJson"]} \cup
  [kind : {"object"}, id : {"fits", "other"}, error : ErrorValues, result : ResultValues]

-----------------------------------------------------------------------------
(* The fields.                                                              *)

\* encoding/json wants base64 for a []byte.  The hex text "0x..." of n bytes
\* has 2 + 2n characters, all of them base64 digits: it decodes, to other
\* bytes, if their number is a multiple of four.
ReturnDataDecodes(n) == n = Nil \/ (2 + 2 * n) % 4 = 0

\* Null decodes into a pointer and a slice, not into a common.Hash.
ResultDecodes(method, result) ==
  CASE result.kind = "absent"   -> TRUE
    [] result.kind = "null"     -> method # "SendUserOp"
    [] result.kind = "mismatch" -> FALSE
    [] result.kind = "value"    ->
         method = "GetUserOpReceipt" => ReturnDataDecodes(result.returnData)

\* errorResponse.UnmarshalJSON: a string that is not empty, or else an object.
ErrorDecodes(error) ==
  \/ error \in Missing
  \/ error.kind = "string"
  \/ error.kind = "object" /\ error.code # "other" /\ error.message # "other"

\* The parts of the errorResponse that are set; its String consists of them.
ErrorParts(error) ==
  CASE error.kind = "string" -> {"message"}
    [] error.kind = "object" -> {p \in {"code", "message"} : error[p] # "absent"}
    [] OTHER -> {}

Decodes(method, body) ==
  /\ body.kind = "object"
  /\ body.id = "fits"
  /\ ErrorDecodes(body.error)
  /\ ResultDecodes(method, body.result)

-----------------------------------------------------------------------------
(* The methods.                                                             *)

Fails(parts) == [status |-> "error", parts |-> parts, result |-> Nil]

\* Faulty variant: an error without a message passes for none.
HasMessage(body) == "message" \in ErrorParts(body.error)

HasError(body) == body.error \notin Missing

\* Faulty variant: the fields of a nil result are read.
PanicsOnNil(result) == [status |-> "panic", parts |-> {}, result |-> Nil]

WithoutEstimates(result) == Fails({})

\* Return data that decodes comes out as other bytes than those in the text.
Decoded(method, result) ==
  IF method = "GetUserOpReceipt" /\ result.returnData # Nil
  THEN [result EXCEPT !.returnData = "garbled"]
  ELSE result

\* The zero value of the result's type stands for a missing result, except for
\* estimates.
Answer(method, result) ==
  IF method = "EstimateUserOpGas" /\ result \in Missing
  THEN WithoutEstimates(result)
  ELSE [status |-> "ok", parts |-> {},
        result |-> IF result \in Missing THEN Nil ELSE Decoded(method, result)]

Response(method, body) ==
  CASE ~Decodes(method, body) -> Fails({})
    [] Decodes(method, body) /\ HasError(body) -> Fails(ErrorParts(body.error))
    [] Decodes(method, body) /\ ~HasError(body) -> Answer(method, body.result)
=============================================================================
