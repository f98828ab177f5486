----------------------------- MODULE MCChannel ------------------------------
(* A text and a picture in one conversation, and an action on a card.  With *)
(* queues the two kinds of message take the same path, so that they also    *)
(* stand for two texts that look for the queue at the same moment.          *)
EXTENDS Channel

MCKind == <<"text", "media", "action">>
MCScope == <<"chat", "chat", "card">>
=============================================================================
