----------------------------- MODULE SseParser ------------------------------
(***************************************************************************)
(* The Server-Sent Events parser (sse.py, iter_sse and aiter_sse, which    *)
(* are the same code) with the conversion of its events to run events      *)
(* (client.py, _to_run_event), on the bodies the server sends: frames of   *)
(* an id, an event and a data line each, ended by an empty line, in either *)
(* newline convention, with comments in between and with or without the    *)
(* event lines.  The transport cuts a body into chunks anywhere, and may   *)
(* end it anywhere.                                                        *)
(*                                                                         *)
(* A body is a sequence of symbols.  A symbol is a byte that means         *)
(* something to the parser, or a run of bytes that it makes no difference  *)
(* to cut; a field name and an event name are two symbols, so that a cut   *)
(* inside them is seen.                                                    *)
(***************************************************************************)
EXTENDS Integers, SequencesExt, RunEvents

CONSTANTS
    MaxFrames,   \* bound on the number of frames of a body
    Digits       \* the number of each frame, as it is written

CR == "CR"
LF == "LF"
SP == "SP"
Open == "open"     \* the braces of a JSON object
Close == "close"
Marks == {CR, LF, SP, ":", Open, Close}

ASSUME SseParserAssumption ==
    /\ MaxFrames \in Nat \ {0}
    /\ \A k \in 1..MaxFrames : Digits[k] \notin Marks
    /\ \A k, l \in 1..MaxFrames : Digits[k] = Digits[l] => k = l

\* The server's side: what the body of a run's stream is made of (external).
Name == [delta |-> <<"assistant", "_delta">>, call |-> <<"local_tool", "_call">>,
         success |-> <<"res", "ult">>, failure |-> <<"res", "ult">>]
Script ==
    [kinds : UNION {[1..n -> Kinds] : n \in 1..MaxFrames},
     newline : {<<LF>>, <<CR, LF>>},
     named : BOOLEAN,       \* the event lines have not been stripped
     comments : BOOLEAN]    \* a heartbeat before each frame

Heartbeat(s) ==
    IF s.comments THEN <<":", SP, "beat">> \o s.newline \o s.newline ELSE <<>>
EventLine(s, k) ==
    IF s.named THEN <<"eve", "nt", ":", SP>> \o Name[s.kinds[k]] \o s.newline ELSE <<>>
Block(s, k) ==
    <<"i", "d", ":", SP, Digits[k]>> \o s.newline \o EventLine(s, k)
    \o <<"da", "ta", ":", SP, Open, Digits[k], Close>> \o s.newline \o s.newline
Frame(s, k) == Heartbeat(s) \o Block(s, k)

FramesUpTo(s, k) == FlattenSeq([i \in 1..k |-> Frame(s, i)])

VARIABLES
    script,   \* what the server sends
    body,     \* the same as symbols
    fed,      \* how many of them the transport has handed over
    buffer,   \* buffer
    yielded,  \* the run events yielded, in order
    pc        \* "feed": asking for a chunk, "split": looking for a separator

vars == <<script, body, fed, buffer, yielded, pc>>

-----------------------------------------------------------------------------
(* _parse_block.                                                           *)

DropPrefix(s, p) == IF IsPrefix(p, s) THEN SubSeq(s, Len(p) + 1, Len(s)) ELSE s
DropSuffix(s, p) == IF IsSuffix(p, s) THEN SubSeq(s, 1, Len(s) - Len(p)) ELSE s

\* raw.split("\n"): where the lines start, and the line from there, without
\* a carriage return in front.
LineStarts(raw) == {1} \cup {i + 1 : i \in {j \in DOMAIN raw : raw[j] = LF}}
LineEnd(raw, i) == Min({j \in i..Len(raw) : raw[j] = LF} \cup {Len(raw) + 1})
Line(raw, i) == DropPrefix(SubSeq(raw, i, LineEnd(raw, i) - 1), <<CR>>)

\* The field and the value of a line.
Field(line) ==
    LET colons == {i \in DOMAIN line : line[i] = ":"}
        colon  == Min(colons)
        after  == SubSeq(line, colon + 1, Len(line))
    IN  IF colons = {}
        THEN [name |-> line, value |-> <<>>]
        ELSE [name |-> SubSeq(line, 1, colon - 1),
              value |-> DropSuffix(DropPrefix(after, <<SP>>), <<CR>>)]

Counts(line) == line # <<>> /\ line[1] # ":"

\* The fields of that name, by where their lines start, and their values.
Fields(raw, name) ==
    {i \in LineStarts(raw) : Counts(Line(raw, i)) /\ Field(Line(raw, i)).name = name}
Value(raw, i) == Field(Line(raw, i)).value

Id == <<"i", "d">>
Event == <<"eve", "nt">>
Data == <<"da", "ta">>
IsEvent(raw) == \E name \in {Id, Event, Data} : Fields(raw, name) # {}

-----------------------------------------------------------------------------
(* _to_run_event.                                                          *)

\* The data of frame k is JSON only when all of it is there.
Json(k) == <<Open, Digits[k], Close>>
Parsed(raw) ==
    {k \in DOMAIN script.kinds :
        \E i \in Fields(raw, Data) : Fields(raw, Data) = {i} /\ Value(raw, i) = Json(k)}

\* The last event line names the type; else the data does.
Named(raw) ==
    LET events == Fields(raw, Event)
    IN  IF events = {} THEN <<>> ELSE Value(raw, Max(events))
Type(raw) ==
    IF Named(raw) # <<>> THEN Named(raw)
    ELSE IF Parsed(raw) = {} THEN <<"message">>
    ELSE Name[script.kinds[CHOOSE k \in Parsed(raw) : TRUE]]

\* What _drive_run takes the event for: a `result` is a success if its data
\* says so.
KindTrusting(raw) ==
    IF Type(raw) = Name.success THEN "success" ELSE "delta"
KindOf(raw) ==
    CASE Type(raw) = Name.call -> "call"
      [] Type(raw) = Name.success ->
            IF \E k \in Parsed(raw) : script.kinds[k] = "success" THEN "success" ELSE "failure"
      [] OTHER -> "delta"

LastSeq == IF yielded = <<>> THEN 0 ELSE Last(yielded).seq

RunEvent(raw) ==
    [kind |-> KindOf(raw),
     seq |-> IF Parsed(raw) = {} THEN LastSeq ELSE CHOOSE k \in Parsed(raw) : TRUE]

YieldBlock(raw) ==
    yielded' = IF IsEvent(raw) THEN Append(yielded, RunEvent(raw)) ELSE yielded

-----------------------------------------------------------------------------
(* iter_sse.                                                               *)

TypeOK ==
    /\ script \in Script
    /\ fed \in 0..Len(body)
    /\ IsSuffix(buffer, SubSeq(body, 1, fed))
    /\ yielded \in Seq([kind : Kinds, seq : 0..MaxFrames])
    /\ pc \in {"feed", "split", "done"}

Init ==
    /\ script \in Script
    /\ body = FramesUpTo(script, Len(script.kinds))
    /\ fed = 0
    /\ buffer = <<>>
    /\ yielded = <<>>
    /\ pc = "feed"

\* The transport hands over the next chunk.
Forget(chunk) == chunk
Extend(chunk) == buffer \o chunk

Feed ==
    /\ pc = "feed"
    /\ \E n \in fed + 1 .. Len(body) :
          /\ fed' = n
          /\ buffer' = Extend(SubSeq(body, fed + 1, n))
    /\ pc' = "split"
    /\ UNCHANGED <<script, body, yielded>>

\* The matches of the separator: where each starts, and the position after it.
LfSeparators == {<<i, i + 2>> : i \in {j \in 1 .. Len(buffer) - 1 :
                                          SubSeq(buffer, j, j + 1) = <<LF, LF>>}}
CrLfSeparators == {<<i, i + 4>> : i \in {j \in 1 .. Len(buffer) - 3 :
                                            SubSeq(buffer, j, j + 3) = <<CR, LF, CR, LF>>}}
Separators == LfSeparators \cup CrLfSeparators

\* The leftmost match ends a block.
Before(m) == SubSeq(buffer, 1, m[1] - 1)
After(m) == SubSeq(buffer, m[2], Len(buffer))

Split ==
    /\ pc = "split"
    /\ \E m \in Separators :
          /\ \A other \in Separators : m[1] <= other[1]
          /\ YieldBlock(Before(m))
          /\ buffer' = After(m)
    /\ UNCHANGED <<script, body, fed, pc>>

NoSeparator ==
    /\ pc = "split"
    /\ Separators = {}
    /\ pc' = "feed"
    /\ UNCHANGED <<script, body, fed, buffer, yielded>>

\* The body ends, where it should or anywhere else: the rest is a block too.
Finish ==
    /\ pc = "feed"
    /\ IF buffer = <<>> THEN UNCHANGED yielded ELSE YieldBlock(buffer)
    /\ buffer' = <<>>
    /\ pc' = "done"
    /\ UNCHANGED <<script, body, fed>>

Done == pc = "done" /\ UNCHANGED vars

Next == Feed \/ Split \/ NoSeparator \/ Finish \/ Done

Spec == Init /\ [][Next]_vars

-----------------------------------------------------------------------------
(* Properties.                                                             *)

\* How many frames have been handed over to their last symbol, and what they
\* stand for.
FramesFed == Cardinality({k \in DOMAIN script.kinds : Len(FramesUpTo(script, k)) <= fed})
Sent(n) == [k \in 1..n |-> [kind |-> script.kinds[k], seq |-> k]]

\* Wherever the transport cuts the body, every frame that has arrived whole
\* has been yielded, exactly as it was sent and in order, before the parser
\* asks for more, and nothing else has.
FramesYieldedOnArrival == pc = "feed" => yielded = Sent(FramesFed)

\* A body that ends early yields one event more at most: the last frame
\* whole, if only its empty line was missing, or what RunStream takes a cut
\* frame for, with the seq of the event before it.
CutFrameIsKnown ==
    pc = "done" =>
        \/ yielded = Sent(FramesFed)
        \/ FramesFed < Len(script.kinds) /\ yielded = Sent(FramesFed + 1)
        \/ /\ FramesFed < Len(script.kinds)
           /\ \E kind \in CutKinds(script.kinds[FramesFed + 1]) :
                 yielded = Append(Sent(FramesFed), [kind |-> kind, seq |-> FramesFed])
=============================================================================
