----------------------------- MODULE MCControl -----------------------------
EXTENDS Control

CONSTANTS a, b

(* An unmounted drive leaves an empty directory; a replacement has some of *)
(* the files.                                                              *)
MCItems == {a, b}
MCSpares == {{}, {b}}
=============================================================================
