----------------------------- MODULE PolicyGate -----------------------------
(***************************************************************************)
(* internal/safety/policy_gate.go: the decision on one message as a        *)
(* function of the configuration and the message.  The checks are listed   *)
(* in the order of the code; the first one that fires gives the reason.    *)
(*                                                                         *)
(* A message has the fields staff (SenderStaffID), sender (SenderID),      *)
(* conv, group, at (IsInAtList) and all (MentionAll).  An optional Boolean *)
(* of the configuration, a pointer in Go, is "unset", "yes" or "no";       *)
(* overrides is a function on the conversations that have an entry in      *)
(* GroupOverrides.                                                         *)
(***************************************************************************)
EXTENDS Naturals, Sequences, SequencesExt

CONSTANT NoStaff   \* the empty SenderStaffID

Allowed == "allowed"

(* The reason of the first check that fires, or Allowed. *)
FirstReason(checks) ==
    LET i == SelectInSeq(checks, LAMBDA c : c.fires)
    IN  IF i = 0 THEN Allowed ELSE checks[i].reason

Check(fires, reason) == [fires |-> fires, reason |-> reason]

(* isAdmin, isDenied, isInAllowFrom: an empty id is in no list. *)
Listed(staff, list) == staff # NoStaff /\ staff \in list

(* An option of the group's override, else of the configuration, else dflt. *)
Setting(override, global, dflt) ==
    "yes" = IF override # "unset" THEN override ELSE IF global # "unset" THEN global ELSE dflt

NoOverride == [enabled |-> "unset", requireMention |-> "unset", blockFrom |-> {},
               allowFrom |-> {}, respondToMentionAll |-> "unset"]

evaluateGroup(cfg, msg) ==
    LET hasOverride == msg.conv \in DOMAIN cfg.overrides
        ov == IF hasOverride THEN cfg.overrides[msg.conv] ELSE NoOverride
    IN  FirstReason(<<
          Check(msg.conv \in cfg.groupBlocklist, "group_blocked"),
          Check(cfg.groupAllowlist # {} /\ msg.conv \notin cfg.groupAllowlist /\ ~hasOverride,
                "group_not_allowed"),
          Check(ov.enabled = "no", "group_disabled"),
          Check(Setting(ov.requireMention, cfg.requireMention, "yes") /\ ~msg.at, "no_mention"),
          Check(msg.sender \in ov.blockFrom, "sender_blocked"),
          Check(ov.allowFrom # {} /\ msg.sender \notin ov.allowFrom, "sender_not_allowed"),
          Check(msg.all /\ ~Setting(ov.respondToMentionAll, cfg.respondToMentionAll, "no"),
                "mention_all") >>)

evaluateDM(cfg, msg) ==
    FirstReason(<<
      Check(cfg.dmMode = "disabled", "dm_disabled"),
      Check(cfg.dmMode = "allowlist" /\ msg.sender \notin cfg.dmAllowlist, "dm_not_allowed"),
      Check(cfg.dmMode = "blocklist" /\ msg.sender \in cfg.dmBlocklist, "dm_blocked") >>)

Evaluate(cfg, msg) ==
    IF Listed(msg.staff, cfg.admins) THEN Allowed
    ELSE FirstReason(<<
           Check(Listed(msg.staff, cfg.denyFrom), "sender_denied"),
           Check(cfg.allowFrom # {} /\ ~Listed(msg.staff, cfg.allowFrom), "sender_not_allowed"),
           Check(TRUE, IF msg.group THEN evaluateGroup(cfg, msg) ELSE evaluateDM(cfg, msg)) >>)
=============================================================================
