---------------------------- MODULE MCManagement ----------------------------
(***************************************************************************)
(* A server and a client, a second server that wants the port of the       *)
(* first, another client of the same name, and one of a name that looks    *)
(* like its id.                                                            *)
(***************************************************************************)
EXTENDS Management, MCConfiguration

Conn(name, server, port, key) ==
  [id |-> NoId, name |-> name, server |-> server, port |-> port, key |-> key]

MCFirst ==
  [conns |-> <<Conn(<<"a">>, TRUE, 1, "k1"), Conn(<<"b">>, FALSE, 1, "k2")>>,
   token |-> NoToken, required |-> FALSE]

MCNew == {Conn(<<"b">>, FALSE, 1, "k3"), Conn(<<"c">>, TRUE, 2, "k3")}
MCNames == {<<"b">>}

=============================================================================
