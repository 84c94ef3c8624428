------------------------------- MODULE MCGuide -------------------------------
(* The guide with answers over one letter, or none to quit.  Asking for a  *)
(* connect and confirming it are the same answer: one that went to the     *)
(* wrong question would be taken for a confirmation.                       *)
EXTENDS Guide

MCConnect == <<"a">>
MCYes     == <<"a">>
MCQuit    == <<>>
MCOperate == <<"a", "a">>

=============================================================================
