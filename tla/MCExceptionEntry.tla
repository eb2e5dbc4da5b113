-------------------------- MODULE MCExceptionEntry --------------------------
(* Model values for ExceptionEntry: every exception, each with a stub of its own
   kind, and the first, a middle and the last of the interrupts, whose 224 stubs
   differ in nothing but the number they push. *)
EXTENDS ExceptionEntry

MCVectors == ((0 .. 31) \ {21, 29, 30}) \union {32, 128, 255}
=============================================================================
