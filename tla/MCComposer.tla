------------------------------ MODULE MCComposer ------------------------------
(* The composer with an empty, a blank and two real texts.                 *)
EXTENDS Composer

MCText == {"", " ", "hello", "hello again"}
MCBlank == {"", " "}
=============================================================================
