--------------------------- MODULE MCMediaPipeline ---------------------------
(***************************************************************************)
(* Three pictures and a file in one conversation, a text message in it.    *)
(* With MaxItems = 3 a bucket waits with one and with two pictures, fills, *)
(* and is created again after a timer, the text or Dispose flushed it.     *)
(***************************************************************************)
EXTENDS MediaPipeline, TLC

CONSTANTS p1, p2, p3, f1, t1, chat

MCMsgs == {p1, p2, p3, f1, t1}

MCConv == [m \in MCMsgs |-> chat]

MCKind == [m \in MCMsgs |-> CASE m = f1 -> "file" [] m = t1 -> "text" [] OTHER -> "picture"]
=============================================================================
