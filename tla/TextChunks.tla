----------------------------- MODULE TextChunks -----------------------------
(***************************************************************************)
(* How a reply that is too long for one message is cut: chunkText of       *)
(* reply.go and SplitWithCodeFences of internal/outbound/splitter.go.      *)
(*                                                                         *)
(* A text is either [kind |-> "plain", runes |-> a sequence of runes], in  *)
(* which NewLine is a rune, or [kind |-> "fenced", lines |-> a sequence of *)
(* lines], a text with a code fence.  Of a line only its length, whether   *)
(* it is a heading and whether it is a fence (and of which language)       *)
(* matter: [len, heading, fence], fence being NoFence for other lines.     *)
(***************************************************************************)
EXTENDS Integers, Sequences, SequencesExt

CONSTANTS
    Limit,     \* cfg.TextChunkLimit
    NewLine,
    NoFence

ASSUME LimitAssumption == Limit \in Nat \ {0}
ASSUME FenceAssumption == NoFence # <<>>

LineType == [len : Nat, heading : BOOLEAN, fence : {NoFence} \cup Seq(Nat)]

(* runes are numbers; strings.Split returns one line at least *)
TextType ==
    [kind : {"plain"}, runes : Seq(Nat)] \cup [kind : {"fenced"}, lines : Seq(LineType) \ {<<>>}]

(* chunkText without fences: cut behind the last newline in the second half *)
(* of the window (the rune behind the window included), or at Limit         *)
Cut(runes) ==
    LET breaks == {i \in (Limit \div 2) .. Limit : runes[i + 1] = NewLine}
    IN  IF breaks = {} THEN Limit ELSE Max(breaks) + 1

(* Faulty variant: the rune behind the cut is dropped. *)
CutOnceDrop(s) ==
    LET cut == IF Len(s.rest) <= Limit THEN Len(s.rest) ELSE Cut(s.rest)
    IN  IF s.rest = <<>> THEN s
        ELSE [out  |-> Append(s.out, SubSeq(s.rest, 1, cut)),
              rest |-> SubSeq(s.rest, cut + 2, Len(s.rest))]

(* one turn of the loop, which ends when no runes are left *)
CutOnce(s) ==
    LET cut == IF Len(s.rest) <= Limit THEN Len(s.rest) ELSE Cut(s.rest)
    IN  IF s.rest = <<>> THEN s
        ELSE [out  |-> Append(s.out, SubSeq(s.rest, 1, cut)),
              rest |-> SubSeq(s.rest, cut + 1, Len(s.rest))]

(* every turn takes a rune at least, so that there are at most as many *)
CutRunes(runes) ==
    LET turn[i \in 0 .. Len(runes)] ==
            IF i = 0 THEN [out |-> <<>>, rest |-> runes] ELSE CutOnce(turn[i - 1])
    IN  IF Len(runes) <= Limit THEN <<runes>> ELSE turn[Len(runes)].out
-----------------------------------------------------------------------------
FenceLine(lang) == [len |-> 3 + Len(lang), heading |-> FALSE, fence |-> lang]

(* the buffer of SplitWithCodeFences; open is the language of the fence it  *)
(* is in, NoFence outside                                                   *)
EmptyBuffer == [out |-> <<>>, buf |-> <<>>, bufLen |-> 0, open |-> NoFence]

(* flush: a fence that is open is closed in this chunk and opened again in  *)
(* the next                                                                 *)
flush(s) ==
    IF s.buf = <<>> THEN s
    ELSE IF s.open = NoFence
    THEN [s EXCEPT !.out = Append(@, s.buf), !.buf = <<>>, !.bufLen = 0]
    ELSE [s EXCEPT !.out = Append(@, Append(s.buf, FenceLine(<<>>))),
                   !.buf = <<FenceLine(s.open)>>, !.bufLen = 3 + Len(s.open)]

(* one line: flush before it if it does not fit, or is a heading and the    *)
(* buffer is nearly full; any fence line closes an open fence               *)
AddLine(s, line) ==
    LET lineLen == line.len + (IF s.buf = <<>> THEN 0 ELSE 1)
        full == \/ s.bufLen + lineLen > Limit
                \/ line.heading /\ 4 * s.bufLen > 3 * Limit /\ s.buf # <<>>
        t == IF full THEN flush(s) ELSE s
    IN  [t EXCEPT !.buf = Append(@, line), !.bufLen = @ + lineLen,
                  !.open = IF line.fence = NoFence THEN @
                           ELSE IF @ = NoFence THEN line.fence ELSE NoFence]

TextLen(lines) == FoldLeft(LAMBDA n, l : n + l.len, Len(lines) - 1, lines)

SplitWithCodeFences(lines) ==
    IF TextLen(lines) <= Limit THEN <<lines>>
    ELSE LET turn[i \in 0 .. Len(lines)] ==
                 IF i = 0 THEN EmptyBuffer ELSE AddLine(turn[i - 1], lines[i])
         IN  flush(turn[Len(lines)]).out

NoText == [kind |-> "plain", runes |-> <<>>]

chunkText(text) ==
    IF text.kind = "plain" THEN CutRunes(text.runes) ELSE SplitWithCodeFences(text.lines)
-----------------------------------------------------------------------------
Fences(chunk) == Cardinality({i \in DOMAIN chunk : chunk[i].fence # NoFence})

(* the lines that are no fences: only fences are added *)
Unfenced(lines) ==
    LET kept[i \in 0 .. Len(lines)] ==
            IF i = 0 THEN <<>>
            ELSE IF lines[i].fence = NoFence THEN Append(kept[i - 1], lines[i]) ELSE kept[i - 1]
    IN  kept[Len(lines)]

(* Cutting a plain text loses and invents nothing, leaves no empty chunk to *)
(* be sent, and a chunk exceeds the limit only by the newline it ends with. *)
PlainChunksFaithful(runes, chunks) ==
    /\ FlattenSeq(chunks) = runes
    /\ \A i \in DOMAIN chunks :
          /\ chunks[i] = <<>> => runes = <<>>
          /\ \/ Len(chunks[i]) <= Limit
             \/ Len(chunks[i]) = Limit + 1 /\ Last(chunks[i]) = NewLine

(* Cutting a fenced text keeps its lines in order, and every chunk closes   *)
(* the fences it opens.                                                     *)
FencedChunksFaithful(lines, chunks) ==
    /\ Unfenced(FlattenSeq(chunks)) = Unfenced(lines)
    /\ Len(chunks) > 1 => \A i \in DOMAIN chunks : Fences(chunks[i]) % 2 = 0
=============================================================================
