----------------------------- MODULE MCTerminal -----------------------------
(* Very small screens for TLC, where lines wrap and pages scroll soon: of  *)
(* the picture's size; larger, with margins and a stride; smaller, with a  *)
(* single row; wider but not as high; and none.                            *)
EXTENDS Terminal

Mode(width, height, stride) ==
  [base |-> TRUE, width |-> width, height |-> height, stride |-> stride,
   known |-> TRUE, rgb |-> TRUE]

Exact == Mode(6, 4, 6)
Large == Mode(7, 7, 8)
Small == Mode(5, 3, 5)
Wide == Mode(8, 3, 9)
Indirect == [Mode(6, 4, 6) EXCEPT !.base = FALSE, !.rgb = FALSE]

MCFirmwares ==
  {[modes |-> <<Large, Exact>>, current |-> 1, obeys |-> o] : o \in BOOLEAN}
    \cup {[modes |-> <<Indirect, [Exact EXCEPT !.known = FALSE], Small, Wide>>,
           current |-> c, obeys |-> TRUE] : c \in {1, 3, 4}}

MCPrompts == {<<">">>, <<"d", ">">>}
MCText == <<"o", Newline>>
MCOutputs ==
  {<<>>, <<"o", "o", "o", Newline>>, <<"o", Return>>, <<Tab, Backspace, "o">>}
=============================================================================
