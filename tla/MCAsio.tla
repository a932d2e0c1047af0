------------------------------- MODULE MCAsio -------------------------------
(***************************************************************************)
(* A small instance of Asio: localhost is ::1 and then 127.0.0.1.          *)
(***************************************************************************)
EXTENDS Asio

MCEndpoints == <<"v6", "v4">>
==============================================================================
