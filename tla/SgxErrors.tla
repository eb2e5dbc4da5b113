----------------------------- MODULE SgxErrors -----------------------------
(* sgx_errlist and print_error_message, of which every App has a copy.  A status
   is named without its prefix SGX_ERROR_ and stands for its own message, too. *)
EXTENDS Sequences

Success == "SGX_SUCCESS"

sgx_errlist ==
    {"UNEXPECTED", "INVALID_PARAMETER", "OUT_OF_MEMORY", "ENCLAVE_LOST",
     "INVALID_ENCLAVE", "INVALID_ENCLAVE_ID", "INVALID_SIGNATURE", "OUT_OF_EPC",
     "NO_DEVICE", "MEMORY_MAP_CONFLICT", "INVALID_METADATA", "DEVICE_BUSY",
     "INVALID_VERSION", "INVALID_ATTRIBUTE", "ENCLAVE_FILE_ACCESS"}

(* The entries whose `sug` is not NULL. *)
Suggested == {"ENCLAVE_LOST", "NO_DEVICE"}

Line(what) == [kind |-> "Line", of |-> what]
Info(err)  == [kind |-> "Info", of |-> err]
Error(err) == [kind |-> "Error", of |-> err]

(* The lines printed for a status; `unlisted` is what an App says of one that is
   not in its list. *)
Told(ret, unlisted) ==
    IF ret \notin sgx_errlist THEN <<Error(unlisted)>>
    ELSE IF ret \in Suggested THEN <<Info(ret), Error(ret)>>
    ELSE <<Error(ret)>>
=============================================================================
