----------------------------- MODULE MCChatQueue -----------------------------
(* Constants of the chat queue runs: m1 has no text (a picture), m2 and m3 *)
(* together reach the character limit, any other two wait for a third.     *)
EXTENDS ChatQueue

CONSTANTS m1, m2, m3

MCMsgs == {m1, m2, m3}
MCChars == [m \in MCMsgs |-> CASE m = m1 -> 0 [] m = m2 -> 1 [] m = m3 -> 3]
=============================================================================
