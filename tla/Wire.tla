-------------------------------- MODULE Wire --------------------------------
(***************************************************************************)
(* The bytes between the harness and the host.  On one side emit_msg,      *)
(* put_str, cobs_encode, emit_line and emit_raw of                         *)
(* harness/c/polytest_core.c, called by the threads of the process under   *)
(* test; on the other CobsCodec and TextCodec of                           *)
(* crates/polyontest-builtins/src/codec.rs, fed chunks cut anywhere.       *)
(*                                                                         *)
(* The sizes of the program are constants, so that TLC can use small ones. *)
(* A byte is a number up to Full.  A line of text is a sequence of such    *)
(* numbers and of symbols beyond Full, each of which stands for a keyword  *)
(* with its blank or for "passed=1" and the like.  One keyword is a byte,  *)
(* so that the strings of a test may hold it, behind a newline or not.     *)
(***************************************************************************)
EXTENDS Naturals, Sequences, FiniteSets, SequencesExt, FiniteSetsExt

CONSTANTS Full,       \* 255: the largest byte and the longest string
          BufSize,    \* 384: the payload buffer of emit_msg
          FrameSize,  \* 512: the buffer of emit_frame
          LeafSize,   \* 128: the buffer for "group.name"
          Word,       \* 4: the bytes of an integer
          LineSizes,  \* the line buffer of each type of event
          Messages,   \* the events the harness may emit, see Message
          Setups,     \* the builds and hosts to look at, see Setup
          MaxMsgs     \* bound: events emitted in all

P == 1  T == 2  Version == 1   \* the header; any three bytes will do
Newline == 1  Return == 2      \* '\n' and '\r'
Dot == 3  Space == 4           \* '.' and ' '
Lead == 5  Cont == 6           \* a character of two bytes
PassK == 7                     \* "PASS "
Delim == 0                     \* the zero that ends a frame
Replacement == Full + 9        \* U+FFFD

SuiteStartT == 1  CaseStartT == 2  AssertFailT == 3  CaseEndT == 4
SuiteEndT == 5  LogT == 6  DoneT == 7
EventTypes == {SuiteStartT, CaseStartT, AssertFailT, CaseEndT, SuiteEndT, DoneT}
PassedS == 0  FailedS == 1  SkippedS == 2

Text == Seq(1 .. Full)                   \* any bytes but the zero that ends it
Message == [type : EventTypes, suite : Text, group : Text, name : Text, file : Text,
            text : Text, nums : Seq(Nat)]
Setup == [format : {"cobs", "text"},       \* POT_EMIT_TEXT and the codec of the target
          threads : {{1}, {1, 2}},         \* who calls pot_fail_at and the like
          locks : BOOLEAN]                 \* pot_set_locks was called, or the writer is atomic

(* What is left of v when its lowest k bytes are shifted out.              *)
Shifted(v) ==
    LET after[k \in 0 .. Word] == IF k = 0 THEN v ELSE after[k - 1] \div (Full + 1)
    IN  after

(* What emit_msg can ask for fits the buffer of emit_frame when encoded,   *)
(* and the bytes of an integer hold all of it.                             *)
ASSUME WireAssumption ==
    /\ Full \in Nat /\ Full > DoneT
    /\ BufSize \in Nat /\ FrameSize \in Nat /\ LeafSize \in Nat \ {0} /\ Word \in Nat \ {0}
    /\ BufSize >= 4
    /\ BufSize + BufSize \div (Full - 1) + 2 <= FrameSize
    /\ LineSizes \in [EventTypes -> Nat \ {0, 1}]
    /\ Messages \subseteq Message
    /\ \A m \in Messages :
          /\ Len(m.nums) = 3
          /\ \A k \in 1 .. 3 : Shifted(m.nums[k])[Word] = 0
    /\ Setups \subseteq Setup
    /\ MaxMsgs \in Nat

Shorter(a, b) == IF a < b THEN a ELSE b
Prefix(s, n) == SubSeq(s, 1, Shorter(n, Len(s)))

-----------------------------------------------------------------------------
(* The harness, binary form.                                               *)

(* append_str keeps room for a final zero.                                 *)
Leaf(m) == Prefix(m.group \o <<Dot>> \o m.name, LeafSize - 1)

(* A string that does not fit is left out, its length byte with it.        *)
PutStr(buf, s) ==
    LET n == Shorter(Len(s), Full)
    IN  IF Len(buf) + 1 + n > BufSize THEN buf ELSE Append(buf, n) \o Prefix(s, n)

LittleEndian(v) == [k \in 1 .. Word |-> Shifted(v)[k - 1] % (Full + 1)]

(* The strings a, b and c that each caller of emit_msg passes.             *)
OfCase(m) == m.type \in {CaseStartT, AssertFailT, CaseEndT}
Strings(m) ==
    << IF m.type = DoneT THEN <<>> ELSE m.suite,
       IF OfCase(m) THEN Leaf(m) ELSE <<>>,
       IF m.type = AssertFailT THEN m.text ELSE <<>> >>

(* Mistake: an event that fills the buffer exactly is dropped.             *)
Payload_Strict(m) ==
    LET s == Strings(m)
        buf == PutStr(PutStr(PutStr(<<P, T, Version, m.type>>, s[1]), s[2]), s[3])
    IN  IF Len(buf) + 3 * Word >= BufSize THEN <<>>
        ELSE buf \o LittleEndian(m.nums[1]) \o LittleEndian(m.nums[2])
                 \o LittleEndian(m.nums[3])

(* emit_msg; <<>> for an event that is dropped.                            *)
Payload(m) ==
    LET s == Strings(m)
        buf == PutStr(PutStr(PutStr(<<P, T, Version, m.type>>, s[1]), s[2]), s[3])
    IN  IF Len(buf) + 3 * Word > BufSize THEN <<>>
        ELSE buf \o LittleEndian(m.nums[1]) \o LittleEndian(m.nums[2])
                 \o LittleEndian(m.nums[3])

(* The state of cobs_encode: `at` is code_index.                           *)
Close(enc) == [enc.out EXCEPT ![enc.at] = enc.code]
NextBlock(out) == [out |-> Append(out, 0), at |-> Len(out) + 1, code |-> 1]

(* Mistake: a full block is closed one byte too late.                      *)
EncodeByte_LateBlock(enc, b) ==
    IF b = 0 THEN NextBlock(Close(enc))
    ELSE LET longer == [enc EXCEPT !.out = Append(@, b), !.code = @ + 1]
         IN  IF enc.code = Full THEN NextBlock(Close(longer)) ELSE longer

EncodeByte(enc, b) ==
    IF b = 0 THEN NextBlock(Close(enc))
    ELSE LET longer == [enc EXCEPT !.out = Append(@, b), !.code = @ + 1]
         IN  IF longer.code = Full THEN NextBlock(Close(longer)) ELSE longer

Encoder(payload) ==
    LET after[k \in 0 .. Len(payload)] ==
            IF k = 0 THEN NextBlock(<<>>) ELSE EncodeByte(after[k - 1], payload[k])
    IN  after[Len(payload)]

CobsEncode(payload) == Append(Close(Encoder(payload)), Delim)

(* emit_frame, as the calls of emit_raw it makes.                          *)
FrameCalls(m) ==
    LET frame == CobsEncode(Payload(m))
    IN  IF Payload(m) = <<>> \/ Len(frame) > FrameSize THEN <<>> ELSE <<frame>>

-----------------------------------------------------------------------------
(* The harness, text form.                                                 *)
Keyword(k) == Full + k            \* "SUITE_START ", "CASE_START ", "FAIL ", ...
SkipK == Keyword(6)  FailK == Keyword(AssertFailT)
Location == Full + 8                                    \* ":line"
Counter(k, n) == Full + 10 + 3 * n + k                  \* "passed=n", k = 1, ...
Counters(nums) == <<Space, Counter(1, nums[1]), Space, Counter(2, nums[2]),
                    Space, Counter(3, nums[3])>>

CaseId(m) == m.suite \o <<Dot>> \o m.group \o <<Dot>> \o m.name

Line(m) ==
    CASE m.type = SuiteStartT -> <<Keyword(SuiteStartT)>> \o m.suite
      [] m.type = CaseStartT  -> <<Keyword(CaseStartT)>> \o CaseId(m)
      [] m.type = AssertFailT -> <<FailK>> \o CaseId(m) \o <<Space>> \o m.file
                                 \o <<Location, Space>> \o m.text
      [] m.type = CaseEndT    ->
            <<IF m.nums[1] = PassedS THEN PassK
              ELSE IF m.nums[1] = SkippedS THEN SkipK ELSE FailK>> \o CaseId(m)
      [] m.type = SuiteEndT   -> <<Keyword(SuiteEndT)>> \o m.suite \o Counters(m.nums)
      [] m.type = DoneT       -> <<Keyword(DoneT)>> \o Tail(Counters(m.nums))

(* emit_line: the line, cut to its buffer, and the newline, in two calls.  *)
(* A newline in a name or a text goes out as it is.                        *)
LineCalls(m) == << Prefix(Line(m), LineSizes[m.type] - 1), <<Newline>> >>

-----------------------------------------------------------------------------
(* The host.                                                               *)
Nothing == [type |-> 0, suite |-> <<>>, leaf |-> <<>>, text |-> <<>>, nums |-> <<>>]

NameEvent(type, suite) == [Nothing EXCEPT !.type = type, !.suite = suite]
CaseEvent(type, suite, leaf, text, nums) ==
    [type |-> type, suite |-> suite, leaf |-> leaf, text |-> text, nums |-> nums]

(* String::from_utf8_lossy                                                 *)
Lossy(s) ==
    [k \in DOMAIN s |->
        IF \/ s[k] = Lead /\ (k = Len(s) \/ s[k + 1] # Cont)
           \/ s[k] = Cont /\ (k = 1 \/ s[k - 1] # Lead)
        THEN Replacement ELSE s[k]]

(* The pieces of s that end in d, without it, and the rest.                *)
CutAt(cut, b, d) ==
    IF b = d THEN [done |-> Append(cut.done, cut.rest), rest |-> <<>>]
    ELSE [cut EXCEPT !.rest = Append(@, b)]

Cut(s, d) ==
    LET after[k \in 0 .. Len(s)] ==
            IF k = 0 THEN [done |-> <<>>, rest |-> <<>>] ELSE CutAt(after[k - 1], s[k], d)
    IN  after[Len(s)]

(* trim_end_matches('\r')                                                  *)
Trimmed(line) == SubSeq(line, 1, Max({0} \cup {k \in DOMAIN line : line[k] # Return}))

(* Results: ok is FALSE for an Err, and data is empty for Ok(None).        *)
Failure == [ok |-> FALSE, data |-> <<>>]
Success(data) == [ok |-> TRUE, data |-> data]

(* A zero follows each block but a full one and the last.                  *)
Gap(code, end, frame) == IF code # Full /\ end <= Len(frame) THEN <<0>> ELSE <<>>

CobsDecode(frame) ==
    LET From[i \in 1 .. Len(frame) + 1] ==
            IF i > Len(frame) THEN Success(<<>>)
            ELSE LET code == frame[i]
                     end == i + code
                     rest == From[end]
                 IN  IF code = 0 \/ end > Len(frame) + 1 THEN Failure
                     ELSE IF ~rest.ok THEN Failure
                     ELSE Success(SubSeq(frame, i + 1, end - 1)
                                  \o Gap(code, end, frame) \o rest.data)
    IN  From[1]

(* read_str and read_u32 at a position; `at` is where they leave off.      *)
ReadStr(data, at) ==
    IF at > Len(data) \/ at + data[at] > Len(data)
    THEN [ok |-> FALSE, at |-> Len(data) + 1, value |-> <<>>]
    ELSE [ok |-> TRUE, at |-> at + 1 + data[at],
          value |-> Lossy(SubSeq(data, at + 1, at + data[at]))]

ReadWord(data, at) ==
    IF at + Word - 1 > Len(data) THEN [ok |-> FALSE, value |-> 0]
    ELSE LET from[k \in 0 .. Word] ==
                IF k = Word THEN 0 ELSE data[at + k] + (Full + 1) * from[k + 1]
         IN  [ok |-> TRUE, value |-> from[0]]

Status(n) == IF n \in {PassedS, SkippedS} THEN n ELSE FailedS

(* The event of a payload's type, strings and integers.                    *)
EventOf(type, a, b, c, u) ==
    CASE type = SuiteStartT            -> NameEvent(type, a)
      [] type = CaseStartT             -> CaseEvent(type, a, b, <<>>, <<>>)
      [] type = AssertFailT            -> CaseEvent(type, a, b, c, <<u[1]>>)
      [] type = CaseEndT               -> CaseEvent(type, a, b, <<>>, <<Status(u[1])>>)
      [] type = SuiteEndT              -> [NameEvent(type, a) EXCEPT !.nums = u]
      [] type = DoneT                  -> [Nothing EXCEPT !.type = DoneT, !.nums = u]
      [] type = LogT                   -> [Nothing EXCEPT !.type = LogT, !.text = a]

DecodePayload(data) ==
    LET a == ReadStr(data, 5)
        b == ReadStr(data, a.at)
        c == ReadStr(data, b.at)
        u == [k \in 1 .. 3 |-> ReadWord(data, c.at + (k - 1) * Word)]
    IN  IF Len(data) < 4 THEN Success(<<>>)
        ELSE IF SubSeq(data, 1, 3) # <<P, T, Version>> THEN Success(<<>>)
        ELSE IF data[4] \notin 1 .. DoneT \/ ~a.ok \/ ~b.ok \/ ~c.ok \/ ~u[3].ok THEN Failure
        ELSE Success(<<EventOf(data[4], a.value, b.value, c.value,
                               [k \in 1 .. 3 |-> u[k].value])>>)

DecodeFrame(frame) ==
    LET payload == CobsDecode(frame)
    IN  IF frame = <<>> THEN Success(<<>>)
        ELSE IF ~payload.ok THEN Failure ELSE DecodePayload(payload.data)

(* line.split_once(sep), with line itself where there is no sep.           *)
First(s, Sep(_)) == LET at == {k \in DOMAIN s : Sep(s[k])} IN IF at = {} THEN 0 ELSE Min(at)

HasDot(s) == \E k \in DOMAIN s : s[k] = Dot
SuiteOf(s) == SubSeq(s, 1, First(s, LAMBDA x : x = Dot) - 1)
LeafOf(s) == SubSeq(s, First(s, LAMBDA x : x = Dot) + 1, Len(s))

(* A keyword ends in a blank, which stays with it in a token.              *)
Keywords == {PassK} \cup {Keyword(k) : k \in 1 .. 7}
Blank(x) == x \in {Space} \cup Keywords               \* where splitn splits
White(x) == Blank(x) \/ x = Return                     \* where split_whitespace does

Token(s, Sep(_)) ==
    LET k == First(s, Sep)
    IN  IF k = 0 THEN s ELSE SubSeq(s, 1, IF s[k] \in Keywords THEN k ELSE k - 1)
AfterToken(s, Sep(_)) ==
    LET k == First(s, Sep) IN IF k = 0 THEN <<>> ELSE SubSeq(s, k + 1, Len(s))

(* The last of several counters of one kind.                               *)
Held(counter) == (counter - Full - 11) \div 3
CounterIn(s, k) ==
    LET at == {j \in DOMAIN s : s[j] > Full + 10 /\ s[j] = Counter(k, Held(s[j]))}
    IN  IF at = {} THEN 0 ELSE Held(s[Max(at)])
CountersIn(s) == [k \in 1 .. 3 |-> CounterIn(s, k)]

(* The first word is the name, be it a counter behind an empty name.       *)
ParseSuiteEnd(s) ==
    LET from == First(s, LAMBDA x : x \notin {Space, Return})
        words == SubSeq(s, from, Len(s))
    IN  IF from = 0 THEN <<>>
        ELSE <<[NameEvent(SuiteEndT, Token(words, White))
                   EXCEPT !.nums = CountersIn(AfterToken(words, White))]>>

(* parse_text_line                                                         *)
ParseText(line) ==
    IF line = <<>> THEN <<>>
    ELSE LET key == Head(line)
             rest == Tail(line)
             Case(type, id, text, nums) ==
                IF HasDot(id) THEN <<CaseEvent(type, SuiteOf(id), LeafOf(id), text, nums)>>
                ELSE <<>>
         IN  IF key = Keyword(SuiteStartT) THEN <<NameEvent(SuiteStartT, rest)>>
             ELSE IF key = Keyword(CaseStartT) THEN Case(CaseStartT, rest, <<>>, <<>>)
             ELSE IF key = Keyword(SuiteEndT) THEN ParseSuiteEnd(rest)
             ELSE IF key = Keyword(DoneT)
                  THEN <<[Nothing EXCEPT !.type = DoneT, !.nums = CountersIn(rest)]>>
             ELSE IF key = PassK THEN Case(CaseEndT, rest, <<>>, <<PassedS>>)
             ELSE IF key = SkipK THEN Case(CaseEndT, rest, <<>>, <<SkippedS>>)
             ELSE IF key = FailK
                  THEN IF First(rest, Blank) = 0
                       THEN Case(CaseEndT, rest, <<>>, <<FailedS>>)
                       ELSE Case(AssertFailT, Token(rest, Blank),
                                 AfterToken(AfterToken(rest, Blank), Blank), <<0>>)
             ELSE <<>>

=============================================================================
