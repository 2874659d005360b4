----------------------------- MODULE MCSession -----------------------------
(* A small instance of Session: two nodes. *)
EXTENDS Session

CONSTANTS n1, n2

MCNames == Fixed \cup {n1, n2}

\* n1's user leads stdin into a mode, and that to n2, or prints what n2 writes.
MCLinks == {<<"stdin", "CmdMode">>, <<"stdin", "ChatMode">>, <<"CmdMode", n2>>, <<"ChatMode", n2>>,
            <<n2, "stdout">>}
=============================================================================
