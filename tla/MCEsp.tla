------------------------------- MODULE MCEsp -------------------------------
EXTENDS Esp

\* a message with the bytes of an end of line in it, and another
MCMessages == << <<"eol", "x">>, <<"x", "x">> >>
\* in a reset, in the set-up, before and after the bytes of a message, between
\* messages
MCRestartOps ==
  { <<"ack", "AT+CIPSEND", FALSE>>, <<"ack", "AT+RST", TRUE>>, <<"ack", "AT+GMR", TRUE>>,
    <<"prompt", ">", FALSE>>, <<"data", "bytes", FALSE>>, <<"expect", "Recv", FALSE>>,
    <<"recv", "+IPD", FALSE>> }
=============================================================================
