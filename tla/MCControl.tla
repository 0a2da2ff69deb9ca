------------------------------ MODULE MCControl ------------------------------
(* Instance of the run of Control: two of the fields that are copied and one   *)
(* that is not.                                                                *)
EXTENDS Control

Order == <<"Package", "Description">>
=============================================================================
