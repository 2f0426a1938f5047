----------------------------- MODULE MCReplyPath -----------------------------
EXTENDS ReplyPath

CONSTANTS e1, e2, e3, hello, bye, ann

(* Messages of one sender; the text of all but the first is one the robot   *)
(* may say itself.                                                          *)
MCBodyOf == [e \in Events |-> IF e = e1 THEN hello ELSE bye]
MCSenderOf == [e \in Events |-> ann]
MCNatureOf == [e \in Events |-> "user_text"]

(* One message of a person and one of an official account. *)
MixedNatures == [e \in Events |-> IF e = e1 THEN "user_text" ELSE "official"]
=============================================================================
