--------------------------- MODULE MCExceptionApp ---------------------------
(* Model values for ExceptionApp. *)
EXTENDS ExceptionApp

MCVariants == {"gu", "sgx"}
(* -1 is the largest count. *)
MCArguments == {-1, 0, 1, 2}
(* Every listed status, and one that is not. *)
MCCreateErrors == sgx_errlist \union {"ENCLAVE_CRASHED"}
(* A stack that looks like success, and one that looks like a failure. *)
MCGarbage == {Success, "DEVICE_BUSY"}
=============================================================================
