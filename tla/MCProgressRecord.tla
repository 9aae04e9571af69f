--------------------------- MODULE MCProgressRecord ---------------------------
EXTENDS ProgressRecord

\* A catalogue in which two paths offer one module, as gemini-ecosystem-and-interfaces
\* belongs to google-gemini-practice and to providers-in-practice.
SharedModule ==
    <<[paths |-> <<[id |-> "p", modules |-> <<"m">>], [id |-> "q", modules |-> <<"m">>]>>,
       capstones |-> {}]>>
===============================================================================
