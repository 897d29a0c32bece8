---------------------------- MODULE MCAtCommand ----------------------------
(* The batches and pages of the runs of AtCommand. *)
EXTENDS AtCommand, TLC

CONSTANTS console, locator, v1, v2

Packet(x, y) == Line("UARTTL", TRUE, <<x, y>>)
Query(c) == Line(c, FALSE, << >>)

(* The packet length and time of a UART from two processes, with errors, an *)
(* unknown name after a known one, alone, and after another batch, AT+Z.    *)
MixedBatches ==
  (console :> {<<Packet(v1, v2), Query("UARTTL")>>,
               <<Packet(v1, Bad), Line(Unknown, TRUE, <<v2, v2>>), Query("Z")>>,
               <<Query("Z"), Packet(v2, v2), Line(Malformed, FALSE, << >>)>>})
  @@
  (locator :> {<<Line(Unknown, TRUE, <<v1, v1>>)>>,
               <<Query("UARTTL")>>,
               <<Packet(v2, v1), Query("Z")>>})

PacketPage == {<< <<"packtime", v2>>, <<"packlen", v1>> >>}
NoPages == {}
PacketOptions == {"packtime", "packlen"}
TableOptions == Options

(* Every command of the table with every pattern of good and bad parameters, *)
(* and a query of the same command after it; and a mode of socket A that a   *)
(* SET with an error leaves behind, between a SET and a query.               *)
Parameters == UNION {[1..n -> {v1, Bad}] : n \in 1..5}
WithMode(p) == {p} \cup (IF p[1] = Bad THEN {} ELSE {[p EXCEPT ![1] = v2]})

ModeAfterwards ==
  <<Line("SOCKA", TRUE, <<v1, v1, v1>>), Line("SOCKA", TRUE, <<v2, Bad, v1>>), Query("SOCKA")>>

TableBatches ==
  console :> {<<Line(set[1], TRUE, set[2]), Query(set[1])>> :
                set \in Commands \X UNION {WithMode(q) : q \in Parameters}}
             \cup {ModeAfterwards}
=============================================================================
