----------------------------- MODULE MC_Pipeline -----------------------------
(***************************************************************************)
(* A small instance of Pipeline for TLC.  Each program meets the one of    *)
(* the other API.                                                          *)
(***************************************************************************)
EXTENDS Pipeline

MC_Programs == {<<"C", "C++">>, <<"C++", "C">>}
MC_Schemas  == {1, 2}
=============================================================================
