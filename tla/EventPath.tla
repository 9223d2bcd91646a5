------------------------------ MODULE EventPath ------------------------------
(***************************************************************************)
(* Events on their way: threads of the process under test emit events      *)
(* through emit_raw, whose writer may take a call's bytes in two parts;    *)
(* the host reads what is there, cut anywhere, and feeds its codec.        *)
(***************************************************************************)
EXTENDS Wire

VARIABLES
    setup,    \* how the program was built and configured
    thread,   \* thread[t]: the emit_raw calls it has still to make, and how many events it began
    lock,     \* the thread inside emit_raw's lock, 0 for none
    begun,    \* what the writer has still to take of each thread's current call
    pipe,     \* all bytes written
    got,      \* how many of them were fed to the codec
    codec,    \* CobsCodec or TextCodec: its buffer, and whether it returned an Err
    decoded,  \* the events it returned
    emitted,  \* ghost: the events begun, in the order of their first byte
    dropped   \* ghost: the events of which nothing was to be written

vars == <<setup, thread, lock, begun, pipe, got, codec, decoded, emitted, dropped>>

Threads == {1, 2}
Begun == thread[1].count + thread[2].count
FramesOf == [m \in Messages |-> FrameCalls(m)]
LinesOf == [m \in Messages |-> LineCalls(m)]
Calls(m) == IF setup.format = "cobs" THEN FramesOf[m] ELSE LinesOf[m]

-----------------------------------------------------------------------------
(* An event is emitted: pot_fail_at in any thread, run_filtered in one.    *)
Emit(t) ==
    /\ t \in setup.threads
    /\ thread[t].calls = <<>> /\ begun[t] = <<>> /\ Begun < MaxMsgs
    /\ \E m \in Messages :
         /\ thread' = [thread EXCEPT ![t] = [calls |-> Calls(m), of |-> m, count |-> @.count + 1]]
         /\ dropped' = IF Calls(m) = <<>> THEN dropped \cup {m} ELSE dropped
    /\ UNCHANGED <<setup, lock, begun, pipe, got, codec, decoded, emitted>>

FirstCall(t) == thread[t].calls = Calls(thread[t].of)

(* pt_lock, which does nothing when no hook is set, and the writer.  A     *)
(* writer that is atomic by itself, as fwrite is, is a build with locks.   *)
EmitRaw(t) ==
    /\ begun[t] = <<>> /\ thread[t].calls # <<>>
    /\ setup.locks => lock = 0
    /\ lock' = IF setup.locks THEN t ELSE lock
    /\ begun' = [begun EXCEPT ![t] = Head(thread[t].calls)]
    /\ thread' = [thread EXCEPT ![t].calls = Tail(@)]
    /\ emitted' = IF FirstCall(t) THEN Append(emitted, thread[t].of) ELSE emitted
    /\ UNCHANGED <<setup, pipe, got, codec, decoded, dropped>>

(* The writer takes half of a long call, or what is left.                  *)
WriterTakes(t) ==
    /\ begun[t] # <<>>
    /\ \E n \in {Len(begun[t]) \div 2, Len(begun[t])} \ {0} :
         /\ pipe' = pipe \o SubSeq(begun[t], 1, n)
         /\ begun' = [begun EXCEPT ![t] = SubSeq(@, n + 1, Len(@))]
         /\ lock' = IF n = Len(begun[t]) /\ lock = t THEN 0 ELSE lock
    /\ UNCHANGED <<setup, thread, got, codec, decoded, emitted, dropped>>

-----------------------------------------------------------------------------
(* decode_feed.  The first frame that fails makes the call an Err: what    *)
(* the chunk held before it is lost, and the caller gives up.              *)
FeedCobs(chunk) ==
    LET cut == Cut(codec.buf \o chunk, Delim)
        results == [k \in DOMAIN cut.done |-> DecodeFrame(cut.done[k])]
    IN  IF \A k \in DOMAIN results : results[k].ok
        THEN /\ codec' = [codec EXCEPT !.buf = cut.rest]
             /\ decoded' = decoded \o FlattenSeq([k \in DOMAIN results |-> results[k].data])
        ELSE codec' = [codec EXCEPT !.ok = FALSE] /\ UNCHANGED decoded

ParsedLines(cut) == [k \in DOMAIN cut.done |-> ParseText(Trimmed(cut.done[k]))]

(* Mistake: the unfinished line at the end of a chunk is thrown away.      *)
FeedText_NoBuffer(chunk) ==
    LET cut == Cut(Lossy(chunk), Newline)
    IN  /\ UNCHANGED codec
        /\ decoded' = decoded \o FlattenSeq(ParsedLines(cut))

FeedText(chunk) ==
    LET cut == Cut(codec.buf \o Lossy(chunk), Newline)
    IN  /\ codec' = [codec EXCEPT !.buf = cut.rest]
        /\ decoded' = decoded \o FlattenSeq(ParsedLines(cut))

ReadChunk ==
    /\ codec.ok
    /\ \E upto \in got + 1 .. Len(pipe) :
         LET chunk == SubSeq(pipe, got + 1, upto)
         IN  /\ IF setup.format = "cobs" THEN FeedCobs(chunk) ELSE FeedText(chunk)
             /\ got' = upto
    /\ UNCHANGED <<setup, thread, lock, begun, pipe, emitted, dropped>>

Init ==
    /\ setup \in Setups
    /\ thread = [t \in Threads |-> [calls |-> <<>>, of |-> 0, count |-> 0]]
    /\ lock = 0 /\ begun = [t \in Threads |-> <<>>]
    /\ pipe = <<>> /\ got = 0
    /\ codec = [buf |-> <<>>, ok |-> TRUE] /\ decoded = <<>>
    /\ emitted = <<>> /\ dropped = {}

Next ==
    \/ \E t \in Threads : Emit(t) \/ EmitRaw(t) \/ WriterTakes(t)
    \/ ReadChunk

Spec == Init /\ [][Next]_vars

-----------------------------------------------------------------------------
(* What the harness means by an event, for the format of the target.       *)
Meant(m) ==
    LET leaf == IF OfCase(m) THEN m.group \o <<Dot>> \o m.name ELSE <<>>
        line == IF setup.format = "cobs" THEN m.nums ELSE <<0, 0, 0>>   \* in file:line
    IN  EventOf(m.type, m.suite, leaf, m.text, IF m.type = AssertFailT THEN line ELSE m.nums)

(* Events that need no cutting, in strings that are UTF-8.                 *)
PayloadSize(m) ==
    LET s == Strings(m) IN 4 + 3 + Len(s[1]) + Len(s[2]) + Len(s[3]) + 3 * Word

Fits(m) ==
    /\ PayloadSize(m) <= BufSize
    /\ \A k \in 1 .. 3 : Len(Strings(m)[k]) <= Full
    /\ OfCase(m) => Len(m.group \o m.name) + 1 < LeafSize

Utf8(m) == \A k \in 1 .. 3 : Lossy(Strings(m)[k]) = Strings(m)[k]

(* t is what arrives of s or of its beginning, cut inside a character or   *)
(* not.                                                                    *)
Begins(t, s) == t = Lossy(Prefix(s, Len(t)))

(* Lines that are not cut, and that the host can take apart again: no      *)
(* newline or return anywhere, no blank but in the text, no dot in the     *)
(* suite, a name where the suite ends, and nothing beyond ASCII.           *)
Unprintable == {Newline, Return, Lead, Cont}
Plain(m) ==
    /\ Len(Line(m)) < LineSizes[m.type]
    /\ ~HasDot(m.suite)
    /\ m.type = SuiteEndT => m.suite # <<>>
    /\ \A s \in {m.suite, m.group, m.name, m.file} :
          \A k \in DOMAIN s : s[k] \notin Unprintable \cup {Space, PassK}
    /\ \A k \in DOMAIN m.text : m.text[k] \notin Unprintable

(* One call of emit_raw at a time reaches the pipe.                        *)
CallsStayWhole == setup.locks \/ setup.threads = {1}

(* Binary form, events that fit emit_msg's buffer: whatever the threads,   *)
(* however the bytes are cut, the host decodes each event as it was meant, *)
(* in the order of emission, and has them all once it read all.            *)
FramesRoundTrip ==
    (/\ setup.format = "cobs" /\ CallsStayWhole
     /\ \A k \in DOMAIN emitted : Fits(emitted[k]) /\ Utf8(emitted[k]))
    => /\ codec.ok
       /\ IsPrefix(decoded, [k \in DOMAIN emitted |-> Meant(emitted[k])])
       /\ (got = Len(pipe) /\ lock = 0 /\ \A t \in Threads : begun[t] = <<>>)
             => Len(decoded) = Len(emitted)

(* What arrives of an event whose names and text a buffer or a length byte *)
(* may have cut.                                                           *)
ArrivesAs(event, meant) ==
    /\ event.type = meant.type /\ event.nums = meant.nums
    /\ Begins(event.suite, meant.suite)
    /\ Begins(event.leaf, meant.leaf)
    /\ Begins(event.text, meant.text)

(* Binary form, any event: only one that is too long is dropped by         *)
(* emit_msg, or makes the host give up; what the host decodes is what was  *)
(* written, event by event and in order, but for the ends of names and     *)
(* texts that are cut; and a host that does not give up decodes it all.    *)
LongEventsOnlyGoMissing ==
    (setup.format = "cobs" /\ CallsStayWhole)
    => /\ \A m \in dropped : ~Fits(m)
       /\ ~codec.ok => \E k \in DOMAIN emitted : ~Fits(emitted[k])
       /\ Len(decoded) <= Len(emitted)
       /\ \A d \in DOMAIN decoded : ArrivesAs(decoded[d], Meant(emitted[d]))
       /\ (codec.ok /\ got = Len(pipe) /\ lock = 0 /\ \A t \in Threads : begun[t] = <<>>)
             => Len(decoded) = Len(emitted)

(* Text form, one thread, events that Plain admits: each is decoded as it  *)
(* was meant, in order, and all of them once all is read.                  *)
LinesRoundTrip ==
    (/\ setup.format = "text" /\ setup.threads = {1}
     /\ \A k \in DOMAIN emitted : Plain(emitted[k]))
    => /\ IsPrefix(decoded, [k \in DOMAIN emitted |-> Meant(emitted[k])])
       /\ (got = Len(pipe) /\ \A t \in Threads : begun[t] = <<>> /\ thread[t].calls = <<>>)
             => Len(decoded) = Len(emitted)

=============================================================================
