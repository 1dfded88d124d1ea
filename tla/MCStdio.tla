------------------------------ MODULE MCStdio -------------------------------
(* StdioTransport alone, with a line far beyond the limit between two that fit. *)
EXTENDS StdioTransport

MCOutput == <<1, 1, Newline, 2, 2, 2, 2, 2, Newline, 3, Newline>>

=============================================================================
