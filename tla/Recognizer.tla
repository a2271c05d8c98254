---------------------------- MODULE Recognizer -----------------------------
(***************************************************************************)
(* What a parser is for, whatever its algorithm: text is given to it piece *)
(* by piece; it accepts a text that has ended and is in the language, and  *)
(* it rejects as soon as it likes once nothing that could still be given   *)
(* would make the text a member of the language.  A verdict is final.      *)
(***************************************************************************)
EXTENDS Sequences, SequencesExt

CONSTANTS Language, Chunks

VARIABLES given, ended, verdict
vars == <<given, ended, verdict>>

Init == given = <<>> /\ ended = FALSE /\ verdict = "open"

Give(chunk) ==
  /\ ~ended
  /\ given' = given \o chunk
  /\ UNCHANGED <<ended, verdict>>

End ==
  /\ ~ended /\ ended' = TRUE
  /\ UNCHANGED <<given, verdict>>

Accept ==
  /\ verdict = "open" /\ verdict' = "accepted"
  /\ ended /\ given \in Language
  /\ UNCHANGED <<given, ended>>

Hopeless == IF ended THEN given \notin Language
            ELSE \A w \in Language : ~IsPrefix(given, w)
Reject ==
  /\ verdict = "open" /\ verdict' = "rejected"
  /\ Hopeless
  /\ UNCHANGED <<given, ended>>

Next == (\E c \in Chunks : Give(c)) \/ End \/ Accept \/ Reject
Spec == Init /\ [][Next]_vars
=============================================================================
