---------------------------- MODULE MCTransports ----------------------------
(* Transports on small values: a line that fits, one far beyond the limit and  *)
(* another that fits; and chunks of SSE bodies that can spoil or split an event. *)
EXTENDS Transports

MCOutput == <<1, 1, Newline, 2, 2, 2, 2, 2, Newline, 3, Newline>>

MCChunks ==
  {<<"LF">>, <<"CR">>, <<"x">>, <<"data">>, <<"data", "x", "LF">>, <<"data", "x", "x", "CR", "LF">>,
   <<"x", "x", "x", "x", "LF">>, <<"bad", "LF">>, <<"event", "x", "CR">>, <<"retry", "x", "LF">>,
   <<"BOM", "data", "LF">>, <<"comment", "LF", "LF">>}

=============================================================================
