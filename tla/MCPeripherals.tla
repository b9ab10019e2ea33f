---------------------------- MODULE MCPeripherals ----------------------------
(***************************************************************************)
(* Small instances of Peripherals.                                         *)
(***************************************************************************)
EXTENDS Peripherals

ASSUME InstanceMeetsHypotheses == DivisorKept /\ DriftTolerated

A == <<1, 0, 0, 1, 0, 1, 1, 0>>
B == <<0, 1, 1, 0, 1, 0, 0, 1>>
Zero == <<0, 0, 0, 0, 0, 0, 0, 0>>
Nothing == {}

Receiving ==
  [accesses |-> {<<"read", "UART">>, <<"write", "VGA">>}, arriving |-> {A, Zero},
   leftover |-> {FALSE}, divisor |-> 31]
Sending ==
  [accesses |-> {<<"read", "UART">>, <<"write", "UART">>, <<"write", "DIVISOR">>},
   arriving |-> {}, leftover |-> {TRUE}, divisor |-> 15]
Exchanging ==
  [accesses |-> {"read", "write"} \X {"CS", "SPI", "SPI_PUMP"}, arriving |-> {},
   leftover |-> {TRUE}, divisor |-> 3]
Drawing ==
  [accesses |-> ({"read", "write"} \X {"LCD", "OTHER"}) \cup {<<"write", "CS">>, <<"write", "VGA">>},
   arriving |-> {}, leftover |-> {FALSE}, divisor |-> 15]

ReceiveAndExchange == {Receiving, Exchanging}
SendAndDraw == {Sending, Drawing}

Outgoing == {A, B}
Exchanged == {B}
SelectCard == {<<0, 0, 0>>, <<0, 1, 0>>, <<0, 1, 1>>}
SelectPanel == {<<0, 0, 0>>, <<1, 0, 0>>}
LcdWords == {<<0, 1>>, <<1, 0>>}
OneWord == {<<0, 1>>}
CardStream == <<0, 1, 1, 0, 1>>
=============================================================================
