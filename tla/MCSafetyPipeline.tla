-------------------------- MODULE MCSafetyPipeline --------------------------
(***************************************************************************)
(* d1 and d2 carry the same message under two protocol ids, d3 another     *)
(* message of the same chat, from the bot itself; d4 and d6 the same card  *)
(* action under two event ids; d5 is a light event.  One policy refuses    *)
(* Alice, the sender of d1 and d2, the other nobody who sends.             *)
(***************************************************************************)
EXTENDS SafetyPipeline

CONSTANTS d1, d2, d3, d4, d5, d6, chat, card, m1, m2, a1, a2, e1, x1, x2, x3, f1, f2, Alice,
          Mallory

Open == [admins |-> {}, denyFrom |-> {}, allowFrom |-> {}, groupBlocklist |-> {},
         groupAllowlist |-> {}, overrides |-> [c \in {} |-> NoOverride],
         requireMention |-> "no", respondToMentionAll |-> "unset",
         dmMode |-> "open", dmAllowlist |-> {}, dmBlocklist |-> {}]

MCPolicies == {[Open EXCEPT !.denyFrom = {Mallory}],
               [Open EXCEPT !.denyFrom = {Alice}, !.allowFrom = {Alice, Bot}]}

Text(proto, id, print, who) ==
    [kind |-> "message", proto |-> proto, id |-> id, print |-> print, conv |-> chat,
     staff |-> who, sender |-> who, group |-> TRUE, at |-> TRUE, all |-> FALSE,
     media |-> TRUE, createAt |-> IF who = Bot THEN Epoch - StaleWindow ELSE Epoch]

Event(kind, id, print) ==
    [kind |-> kind, id |-> id, print |-> print, conv |-> card, media |-> FALSE]

MCMsg == d1 :> Text(x1, m1, f1, Alice)
      @@ d2 :> Text(x2, m1, f1, Alice)
      @@ d3 :> Text(x3, m2, NoKey, Bot)
      @@ d4 :> Event("action", a1, f2)
      @@ d5 :> Event("light", e1, NoKey)
      @@ d6 :> Event("action", a2, f2)

MCArrivals == {{d1, d2}, {d1, d3}, {d4, d6}, {d5}}
=============================================================================
