------------------------------ MODULE MCStartup ------------------------------
(* A process with two upstreams and every kind of command line, then two that trace to the
   same file. *)
EXTENDS Startup

Given(c, u, t) == [config |-> c, command |-> ~c, unenforced |-> u, trace |-> t]
Nothing == [Given(FALSE, FALSE, FALSE) EXCEPT !.command = FALSE]

Spec(n, ok) == [name |-> n, usable |-> ok]
One == <<Spec("a", TRUE)>>
Two == <<Spec("a", TRUE), Spec("b", TRUE)>>
Twice == <<Spec("a", TRUE), Spec("a", TRUE)>>
File(g, specs) == [grants |-> g, specs |-> specs]

Again == {<<Given(TRUE, FALSE, TRUE), File(TRUE, One)>>}

MCInvocations ==
  << {<<Given(TRUE, FALSE, TRUE), File(TRUE, Two)>>, <<Given(TRUE, FALSE, TRUE), File(FALSE, One)>>,
      <<Given(TRUE, FALSE, FALSE), File(TRUE, Twice)>>, <<Given(TRUE, TRUE, FALSE), File(TRUE, One)>>,
      <<Given(TRUE, TRUE, FALSE), File(FALSE, One)>>, <<Given(FALSE, FALSE, FALSE), File(FALSE, One)>>,
      <<Given(FALSE, TRUE, FALSE), File(FALSE, One)>>, <<Nothing, File(FALSE, One)>>},
     Again, Again >>

MCPage == {<<>>, <<"read">>, <<"big", "read">>}
MCSize == [t \in Tool |-> IF t = "big" THEN 2 ELSE 1]

=============================================================================
