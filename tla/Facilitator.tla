----------------------------- MODULE Facilitator -----------------------------
(***************************************************************************)
(* The answers of the x402 facilitator (x402/facilitatorServer.ts) and of  *)
(* the clients that ask it (x402/validator.ts, x402/facilitatorClient.ts,  *)
(* MerchantExecutor.callFacilitator) as functions of what they are sent.   *)
(* The routes keep no state; what /settle does on chain is an action of    *)
(* the modules that use this one.                                          *)
(*                                                                         *)
(* A proof is a record: shape says where its fields are, amount is what it *)
(* authorizes, in tenths of a USDC.                                        *)
(*   "demo"      the text demo-token         "text"   no JSON              *)
(*   "flat"      from, to, value, signature at the top                     *)
(*   "inner"     the same four under authorization                         *)
(*   "nested"    authorization beside its signature                        *)
(*   "executor"  the payload MerchantExecutor forwards: payload holds both *)
(*   "unsigned"  an authorization without its signature                    *)
(***************************************************************************)
EXTENDS Naturals

Price == [payroll_execute |-> 10, payment_single |-> 1, swap_execute |-> 5,
          contract_test |-> 1, payment_process |-> 1]

IsMeter(id) == id \in DOMAIN Price

Shapes == {"demo", "text", "flat", "inner", "nested", "executor", "unsigned"}

\* The signature check passes whatever it is given, no nonce is looked up, and a payee must
\* be there but is compared with nothing; nor is the asset.
ValidatePayment(proof, price) ==
  IF proof.shape # "flat" THEN "INCOMPLETE_PROOF"
  ELSE IF proof.amount < price THEN "INSUFFICIENT_AMOUNT" ELSE "valid"

\* POST /validate
ValidateRoute(proof, meter) ==
  IF ~IsMeter(meter) THEN "METER_NOT_FOUND"
  ELSE CASE proof.shape = "demo"  -> "valid"
         [] proof.shape = "text"  -> "INVALID_PROOF_FORMAT"
         [] OTHER                 -> ValidatePayment(proof, Price[meter])

\* paymentPayload?.authorization || paymentPayload
ProofOfPayload(payload) ==
  CASE payload.shape = "inner"  -> [payload EXCEPT !.shape = "flat"]
    [] payload.shape = "nested" -> [payload EXCEPT !.shape = "unsigned"]
    [] OTHER                    -> payload

\* POST /verify, and POST /settle before it goes on chain.
DefaultMeter == "payroll_execute"

VerifyRoute(payload, resource) ==
  IF IsMeter(resource) THEN ValidatePayment(ProofOfPayload(payload), Price[resource])
                       ELSE "METER_NOT_FOUND"

\* The fields of the answer's JSON that are true.
VerifyFields(payload, resource) ==
  IF VerifyRoute(payload, resource) = "valid" THEN {"valid"} ELSE {}

\* callFacilitator throws unless the answer is 200; verifyPayment then reads isValid.
ExecutorAccepts(fields) == "isValid" \in fields

-----------------------------------------------------------------------------
\* validateWithFacilitator, for the facilitator X402_FACILITATOR_URL names: the answers
\* it may come back with.  Any failure of the call counts as invalid.
FacilitatorAnswers(gate, proof, meter) ==
  CASE gate = "mock"  -> {FALSE}
    [] gate = "own"   -> {FALSE, ValidateRoute(proof, meter) = "valid"}
    [] OTHER          -> BOOLEAN

\* validateXPaymentHeader.  demoAllowed: not production, or X402_ALLOW_DEMO_TOKEN.
HeaderAnswers(gate, demoAllowed, proof, meter) ==
  IF proof.shape = "demo" /\ (demoAllowed \/ gate = "mock")
  THEN {TRUE}
  ELSE IF IsMeter(meter) THEN FacilitatorAnswers(gate, proof, meter) ELSE {FALSE}
=============================================================================
