----------------------------- MODULE MCOutbound -----------------------------
(***************************************************************************)
(* Outbound in four casts: two goroutines that call, one that replies with *)
(* each of many texts, one that sends beside one that calls, and two that  *)
(* ask for the identity.                                                   *)
(***************************************************************************)
EXTENDS Outbound

CONSTANTS p1, p2

Cast(a, b) == (p1 :> a) @@ (p2 :> b)

MCJobs == {Cast("call", "call"), Cast("reply", "none"), Cast("send", "call"),
           Cast("identity", "identity")}

Plain == {[kind |-> "plain", runes |-> [i \in 1 .. n |-> IF i \in breaks THEN 0 ELSE i]] :
             n \in {6, 7, 9}, breaks \in SUBSET (1 .. 9)}

Line(len, heading, fence) == [len |-> len, heading |-> heading, fence |-> fence]
Lines == {Line(1, FALSE, NoFence), Line(2, TRUE, NoFence), FenceLine(<<>>), FenceLine(<<1, 2>>)}
Fenced == {[kind |-> "fenced", lines |-> l] : l \in [1 .. 3 -> Lines]}

MCTexts == Plain \cup {t \in Fenced : \E i \in 1 .. 3 : t.lines[i].fence # NoFence}
=============================================================================
