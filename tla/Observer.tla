------------------------------ MODULE Observer ------------------------------
(***************************************************************************)
(* The response observer of observation.rs: SSE framing under a byte cap,     *)
(* merging of usage, finish reasons and tool calls over the events of a       *)
(* stream, and what is reported for each way a stream can end.               *)
(*                                                                         *)
(* Bytes are tokens: LF, CR, Prefix and Colon (the "data:" of a data line,    *)
(* with its optional space: longer than the LF it is replaced by when data    *)
(* lines are joined), a Json document, or Text.  Doc gives what a document     *)
(* holds; a number or reason in it is Absent if missing or null, a list if    *)
(* missing, and either is Invalid if of the wrong type.  What the observer    *)
(* reports is compared with a definition over the whole input.               *)
(***************************************************************************)
EXTENDS Integers, Sequences, FiniteSets, SequencesExt

CONSTANTS
  LF, CR, Prefix, Colon, Text, Json,
  Doc,                  \* what each Json token holds
  Chunk,                \* the chunks an upstream may send
  Absent, Invalid, None,
  MaxEvent,             \* MAX_EVENT_BYTES
  MaxIndexed,           \* MAX_INDEXED_STREAM_OBSERVATIONS
  MaxCount,             \* u64::MAX
  MaxChunks             \* bound on the chunks of a stream

Byte == {LF, CR, Prefix, Colon, Text} \cup Json
Outcome == {"completed", "deadline", "disconnected", "truncated"}
Field == {"prompt", "completion", "total", "cached", "reasoning"}

\* What a document may hold.
Choice == [index : Nat \cup {Invalid}, finish : STRING \cup {Absent, Invalid},
           tools : Seq(Nat \cup {Invalid}) \cup {Absent, Invalid}, text : BOOLEAN]
Document == [usage : [Field -> Nat \cup {Absent, Invalid}] \cup {Absent, Invalid},
             choices : Seq(Choice \cup {Invalid}) \cup {Absent, Invalid}]

Constants ==
  /\ LF # CR /\ Prefix # CR /\ Absent # Invalid /\ {LF, None} \cap Json = {}
  /\ {Absent, Invalid} \cap (Nat \cup STRING) = {}
  /\ DOMAIN Doc = Json /\ \A j \in Json : Doc[j] \in Document
  /\ Chunk \subseteq Seq(Byte)
  /\ None \notin Outcome \cup {"body"}
  /\ MaxEvent \in Nat \ {0} /\ MaxIndexed \in Nat \ {0} /\ MaxCount \in Nat
  /\ MaxChunks \in Nat
ASSUME ConstantsAssumption == Constants

VARIABLES
  obs,         \* the SseObserver
  fed,         \* history: every byte pushed
  chunks,
  outcome,     \* StreamOutcome, "body" for a buffered response, None before
  result       \* ResponseObservations

vars == <<obs, fed, chunks, outcome, result>>

-----------------------------------------------------------------------------
\* What is seen of a field: Absent, Invalid, or the one value every sight of
\* it agreed on.  SeenNumber and SeenFinish merge alike.

See(seen, v) ==
  IF v = Absent THEN seen ELSE IF seen \in {Absent, v} THEN v ELSE Invalid

SeeUsage(usage, u) ==
  IF u = Absent THEN usage
  ELSE [f \in Field |-> IF u = Invalid THEN Invalid ELSE See(usage[f], u[f])]

Nothing == [usage |-> [f \in Field |-> Absent], order |-> <<>>, finish |-> <<>>,
            overflowed |-> FALSE, toolsInvalid |-> FALSE, toolsPresent |-> FALSE,
            pairs |-> {}]

\* finish_for: at most MaxIndexed choices are followed; order keeps their
\* indexes as they came, finish what each has shown.
SeeFinish(s, index, reason) ==
  IF \E i \in DOMAIN s.order : s.order[i] = index
  THEN [s EXCEPT !.finish = [i \in DOMAIN @ |->
                               IF s.order[i] = index THEN See(@[i], reason) ELSE @[i]]]
  ELSE IF Len(s.order) < MaxIndexed
  THEN [s EXCEPT !.order = Append(@, index), !.finish = Append(@, reason)]
  ELSE [s EXCEPT !.overflowed = TRUE]

\* remember_tool_pair.
SeePair(s, pair) ==
  IF pair \in s.pairs \/ Cardinality(s.pairs) < MaxIndexed
  THEN [s EXCEPT !.pairs = @ \cup {pair}]
  ELSE [s EXCEPT !.toolsInvalid = TRUE]

BadTools(s) == [s EXCEPT !.toolsInvalid = TRUE]

SeeCall(s, index, c) == IF c = Invalid THEN BadTools(s) ELSE SeePair(s, <<index, c>>)
SeeCalls(s, index, tools) ==
  LET After[n \in 0..Len(tools)] ==
        IF n = 0 THEN s ELSE SeeCall(After[n - 1], index, tools[n])
  IN  IF tools = Absent THEN s ELSE IF tools = Invalid THEN BadTools(s)
      ELSE After[Len(tools)]

SeeChoice(s, c) ==
  IF c = Invalid \/ c.index = Invalid THEN BadTools(s)
  ELSE SeeCalls(SeeFinish(s, c.index, c.finish), c.index, c.tools)

SeeChoices(s, choices) ==
  LET After[n \in 0..Len(choices)] ==
        IF n = 0 THEN s ELSE SeeChoice(After[n - 1], choices[n])
  IN  After[Len(choices)]

\* observe_stream.
SeeEvent(s, d) ==
  LET t == [s EXCEPT !.usage = SeeUsage(@, d.usage)] IN
  IF d.choices = Absent THEN t ELSE IF d.choices = Invalid THEN BadTools(t)
  ELSE SeeChoices([t EXCEPT !.toolsPresent = TRUE], d.choices)

\* An event is a completion event if it has choices and all are plain deltas.
Countable(d) ==
  /\ d.choices \notin {Absent, Invalid} /\ d.choices # <<>>
  /\ \A i \in DOMAIN d.choices :
       LET c == d.choices[i] IN c # Invalid /\ c.index # Invalid /\ c.finish = Absent

-----------------------------------------------------------------------------
\* SSE framing.

NewObserver == [data |-> <<>>, line |-> <<>>, discarding |-> FALSE, content |-> FALSE,
                endsCr |-> FALSE, events |-> 0, state |-> Nothing]

Retained(o) == Len(o.data) + Len(o.line)
Parse(data) ==
  LET text == SelectSeq(data, LAMBDA b : b # LF)
  IN  IF Len(text) = 1 /\ Head(text) \in Json THEN Head(text) ELSE None

\* Mutant of Discard: the buffers keep what was read of the event.
DiscardKeeping(o) == [o EXCEPT !.discarding = TRUE, !.content = TRUE, !.endsCr = FALSE]

Discard(o) == [o EXCEPT !.data = <<>>, !.line = <<>>, !.discarding = TRUE,
                        !.content = TRUE, !.endsCr = FALSE]

\* classify_event.
Classify(o) ==
  LET j == Parse(o.data)
      cleared == [o EXCEPT !.data = <<>>, !.line = <<>>]
  IN  IF j = None THEN cleared
      ELSE [cleared EXCEPT !.state = SeeEvent(@, Doc[j]),
                           !.events = IF Countable(Doc[j]) THEN @ + 1 ELSE @]

Stripped(line) == IF line # <<>> /\ Last(line) = CR THEN Front(line) ELSE line
Payload(line) == SubSeq(line, 3, Len(line))
IsData(line) == Len(line) >= 2 /\ line[1] = Prefix /\ line[2] = Colon
Joined(data, more) == IF data = <<>> THEN more ELSE data \o <<LF>> \o more

FinishLine(o) ==
  LET line == Stripped(o.line)
      data == IF IsData(line) THEN Joined(o.data, Payload(line)) ELSE o.data
  IN  IF o.discarding
      THEN [o EXCEPT !.line = <<>>, !.discarding = o.content, !.content = FALSE,
                     !.endsCr = FALSE]
      ELSE IF line = <<>> THEN Classify(o)
      ELSE IF Len(data) > MaxEvent THEN Discard(o)
      ELSE [o EXCEPT !.data = data, !.line = <<>>]

\* Mutant of SkipByte: the CR of a blank line counts as content.
SkipByteCr(o, b) == [o EXCEPT !.content = TRUE, !.endsCr = (b = CR)]

\* A line being discarded is blank if it is empty but for one closing CR.
SkipByte(o, b) ==
  [o EXCEPT !.content = @ \/ b # CR \/ o.endsCr, !.endsCr = (b = CR)]

\* Mutant of Full: the cap is looked at on the line alone.
FullLine(o) == Len(o.line) = MaxEvent

Full(o) == Retained(o) = MaxEvent

PushByte(o, b) ==
  IF b = LF THEN FinishLine(o)
  ELSE IF o.discarding THEN SkipByte(o, b)
  ELSE IF Full(o) THEN Discard(o)
  ELSE [o EXCEPT !.line = Append(@, b)]

PushBytes(o, bytes) ==
  LET After[n \in 0..Len(bytes)] ==
        IF n = 0 THEN o ELSE PushByte(After[n - 1], bytes[n])
  IN  After[Len(bytes)]

-----------------------------------------------------------------------------
\* Reports.

Report(seen) ==
  IF seen = Absent THEN [kind |-> "unavailable"]
  ELSE IF seen = Invalid THEN [kind |-> "invalid"]
  ELSE [kind |-> "measured", value |-> seen]

Measured(r) == r.kind = "measured"
Within(part, whole) == Measured(whole) /\ part.value <= whole.value

\* UsageState::finish: fields that contradict each other are invalid.
Total(r) ==
  LET sum == r.prompt.value + r.completion.value IN
  IF /\ Measured(r.prompt) /\ Measured(r.completion)
     /\ sum > MaxCount \/ (Measured(r.total) /\ r.total.value < sum)
  THEN [kind |-> "invalid"] ELSE r.total

\* Mutant of Part: a part is held against its whole only if that is measured.
PartLoose(part, whole) ==
  IF Measured(part) /\ Measured(whole) /\ part.value > whole.value
  THEN [kind |-> "invalid"] ELSE part

Part(part, whole) ==
  IF Measured(part) /\ ~Within(part, whole) THEN [kind |-> "invalid"] ELSE part

FinishUsage(usage, estimate) ==
  LET r == [f \in Field |-> Report(usage[f])] IN
  [r EXCEPT !.total = Total(r), !.cached = Part(@, r.prompt),
            !.reasoning = Part(@, r.completion),
            !.completion = IF @.kind = "unavailable" /\ estimate > 0
                           THEN [kind |-> "estimated", value |-> estimate] ELSE @]

UnavailableUsage == [f \in Field |-> [kind |-> "unavailable"]]

\* The only labels the usage metrics have.
UsageMetrics(usage) == [f \in Field |-> usage[f].kind]

\* ObservationState::finish.
FinishState(s, how, incomplete, estimate, calls) ==
  [usage |-> IF how \in {"disconnected", "truncated"} THEN UnavailableUsage
             ELSE FinishUsage(s.usage, estimate),
   tools |-> Report(IF incomplete THEN Absent ELSE IF s.toolsInvalid THEN Invalid
                    ELSE IF ~s.toolsPresent THEN Absent ELSE calls),
   finish |-> [index \in ToSet(s.order) |->
                 LET i == CHOOSE i \in DOMAIN s.order : s.order[i] = index IN
                 Report(IF incomplete THEN Absent ELSE IF s.overflowed THEN Invalid
                        ELSE s.finish[i])]]

\* remember_choice_indexes.
SeeIndex(s, c) ==
  IF c = Invalid \/ c.index = Invalid THEN s ELSE SeeFinish(s, c.index, Absent)
SeeIndexes(s, j) ==
  LET After[n \in 0..Len(Doc[j].choices)] ==
        IF n = 0 THEN s ELSE SeeIndex(After[n - 1], Doc[j].choices[n])
  IN  IF j = None \/ Doc[j].choices \in {Absent, Invalid} THEN s
      ELSE After[Len(Doc[j].choices)]

\* Mutant of Unterminated: what was discarded is not missed.
UnterminatedKept(o) == o.data # <<>> \/ o.line # <<>>

Unterminated(o) == o.discarding \/ o.data # <<>> \/ o.line # <<>>

\* SseObserver::finish.
FinishStream(o, how) ==
  LET cut == Unterminated(o)
      tail == IF IsData(o.line) THEN Parse(Payload(o.line)) ELSE None
      state == IF how = "completed" /\ cut
               THEN SeeIndexes(SeeIndexes(o.state, Parse(o.data)), tail) ELSE o.state
      incomplete == how # "completed" \/ cut
  IN  FinishState(state, how, incomplete, IF incomplete THEN 0 ELSE o.events,
                  Cardinality(state.pairs))

\* observe_buffered: calls are counted per choice, whatever their elements.
BodyChoice(s, c) ==
  IF c = Invalid \/ c.index = Invalid \/ c.tools = Invalid
  THEN BadTools(IF c = Invalid \/ c.index = Invalid THEN s
                ELSE SeeFinish(s, c.index, c.finish))
  ELSE SeeFinish(s, c.index, c.finish)

BodyChoices(s, choices) ==
  LET After[n \in 0..Len(choices)] ==
        IF n = 0 THEN s ELSE BodyChoice(After[n - 1], choices[n])
  IN  After[Len(choices)]

CallsIn(c) == IF c = Invalid \/ c.index = Invalid \/ c.tools \in {Absent, Invalid}
              THEN 0 ELSE Len(c.tools)
BodyCalls(choices) ==
  LET Sum[n \in 0..Len(choices)] ==
        IF n = 0 THEN 0 ELSE Sum[n - 1] + CallsIn(choices[n])
  IN  Sum[Len(choices)]

ObserveBuffered(b) ==
  LET d == Doc[b]
      s == [Nothing EXCEPT !.usage = SeeUsage(@, d.usage)] IN
  IF b \notin Json THEN FinishState(Nothing, "completed", FALSE, 0, 0)
  ELSE IF d.choices = Absent THEN FinishState(s, "completed", FALSE, 0, 0)
  ELSE IF d.choices = Invalid THEN FinishState(BadTools(s), "completed", FALSE, 0, 0)
  ELSE FinishState(BodyChoices([s EXCEPT !.toolsPresent = TRUE], d.choices),
                   "completed", FALSE, 0, BodyCalls(d.choices))

\* Mutant of HasSubstance: only text counts.
HasSubstanceText(b) ==
  \/ b \notin Json
  \/ Doc[b].choices \in {Absent, Invalid}
  \/ \E i \in DOMAIN Doc[b].choices : Doc[b].choices[i] # Invalid /\ Doc[b].choices[i].text

\* has_substance: the router's empty-completion guard.
HasSubstance(b) ==
  \/ b \notin Json
  \/ Doc[b].choices \in {Absent, Invalid}
  \/ \E i \in DOMAIN Doc[b].choices :
       LET c == Doc[b].choices[i] IN
         c # Invalid /\ (c.text \/ (c.tools \notin {Absent, Invalid} /\ c.tools # <<>>))

-----------------------------------------------------------------------------
Push ==
  /\ outcome = None /\ chunks < MaxChunks
  /\ \E c \in Chunk : obs' = PushBytes(obs, c) /\ fed' = fed \o c
  /\ chunks' = chunks + 1
  /\ UNCHANGED <<outcome, result>>

Finish ==
  /\ outcome = None
  /\ \E how \in Outcome : outcome' = how /\ result' = FinishStream(obs, how)
  /\ UNCHANGED <<obs, fed, chunks>>

Body ==
  /\ outcome = None /\ fed = <<>>
  /\ \E b \in Json \cup {Text} : fed' = <<b>> /\ result' = ObserveBuffered(b)
  /\ outcome' = "body"
  /\ UNCHANGED <<obs, chunks>>

Init == obs = NewObserver /\ fed = <<>> /\ chunks = 0 /\ outcome = None /\ result = None
Next == Push \/ Finish \/ Body
Spec == Init /\ [][Next]_vars

-----------------------------------------------------------------------------
\* The reference: a definition over all the bytes f of a stream.

Ends(f) == {i \in DOMAIN f : f[i] = LF}
LastBefore(S, i) == LET T == {x \in S : x < i} IN
                    IF T = {} THEN 0 ELSE CHOOSE x \in T : \A y \in T : y <= x
LineAt(f, i) == Stripped(SubSeq(f, LastBefore(Ends(f), i) + 1, i - 1))
Blanks(f) == {i \in Ends(f) : LineAt(f, i) = <<>>}

\* The data of the lines that end after byte p and not after byte q.
DataBetween(f, p, q) ==
  LET Data[i \in 0..Len(f)] ==
        IF i <= p THEN <<>>
        ELSE IF i \in Ends(f) /\ IsData(LineAt(f, i))
        THEN Joined(Data[i - 1], Payload(LineAt(f, i))) ELSE Data[i - 1]
  IN  Data[q]

\* An event is dropped if a byte of it would have been retained past the cap.
TooLong(f, p, q) ==
  \E i \in (p + 1)..q : f[i] # LF /\
    LET start == LastBefore(Ends(f), i) IN
      Len(DataBetween(f, p, start)) + (i - 1 - start) >= MaxEvent

\* The document of the event that the blank line at i ends.
EventAt(f, i) == LET p == LastBefore(Blanks(f), i) IN
                 IF TooLong(f, p, i) THEN None ELSE Parse(DataBetween(f, p, i))
Parsed(f) == {i \in Blanks(f) : EventAt(f, i) # None}

\* Bytes of an event that no blank line has ended.
Cut(f) ==
  LET rest == LastBefore(Blanks(f), Len(f) + 1) IN
    \/ LastBefore(Ends(f), Len(f) + 1) < Len(f)
    \/ TooLong(f, rest, Len(f)) \/ DataBetween(f, rest, Len(f)) # <<>>

Agreed(S) == LET T == S \ {Absent} IN
             IF T = {} THEN Absent ELSE IF \E v \in T : T = {v} THEN CHOOSE v \in T : TRUE
             ELSE Invalid

ChoicesOf(d) == IF d.choices \in {Absent, Invalid} THEN {} ELSE ToSet(d.choices)

\* What the events of a stream say.
Reference(bytes) ==
  LET docs == {Doc[EventAt(bytes, i)] : i \in Parsed(bytes)}
      choices == UNION {ChoicesOf(d) : d \in docs}
      good == {c \in choices : c # Invalid /\ c.index # Invalid}
      indexes == {c.index : c \in good}
      pairs == UNION {{<<c.index, t>> : t \in ToSet(c.tools)} :
                        c \in {c \in good : c.tools \notin {Absent, Invalid}}}
      seen(f) == Agreed({IF d.usage = Invalid THEN Invalid ELSE d.usage[f] :
                           d \in {d \in docs : d.usage # Absent}})
      badTools == \/ \E d \in docs : d.choices = Invalid
                  \/ choices # good \/ \E c \in good : c.tools = Invalid
                  \/ \E p \in pairs : p[2] = Invalid
                  \/ Cardinality(pairs) > MaxIndexed
  IN  [usage |-> FinishUsage([f \in Field |-> seen(f)],
                             Cardinality({i \in Parsed(bytes) : Countable(Doc[EventAt(bytes, i)])})),
       tools |-> Report(IF badTools THEN Invalid
                        ELSE IF \A d \in docs : d.choices = Absent THEN Absent
                        ELSE Cardinality(pairs)),
       finish |-> [i \in indexes |->
                     Report(IF Cardinality(indexes) > MaxIndexed THEN Invalid
                            ELSE Agreed({c.finish : c \in {c \in good : c.index = i}}))]]

-----------------------------------------------------------------------------
\* Properties.

\* Type invariant.
TypeOK ==
  /\ outcome \in Outcome \cup {"body", None}
  /\ outcome = None => result = None
  /\ outcome # None => UsageMetrics(result.usage) \in
       [Field -> {"measured", "estimated", "unavailable", "invalid"}]
  /\ obs.discarding => Retained(obs) = 0
  /\ obs.events \in Nat /\ Len(obs.state.order) = Len(obs.state.finish)

\* However the stream is cut into chunks and lines, a complete stream is
\* reported as its parsed events say, each event once, oversized ones not at
\* all, and conflicting sights of a field as invalid.
CompleteIsExact ==
  outcome = "completed" /\ ~Cut(fed) =>
    LET ref == Reference(fed) IN
      /\ result.usage = ref.usage /\ result.tools = ref.tools
      /\ \A i \in DOMAIN result.finish : result.finish[i] = ref.finish[i]
      /\ Cardinality(DOMAIN result.finish) =
           IF Cardinality(DOMAIN ref.finish) > MaxIndexed THEN MaxIndexed
           ELSE Cardinality(DOMAIN ref.finish)

\* A stream that did not complete claims no tool calls, no finish reasons and
\* no estimate, and without a deadline no usage either.
PartialClaimsNothing ==
  outcome # None /\ outcome # "body" /\ (outcome # "completed" \/ Cut(fed)) =>
    /\ result.tools.kind = "unavailable"
    /\ \A i \in DOMAIN result.finish : result.finish[i].kind = "unavailable"
    /\ result.usage.completion.kind # "estimated"
    /\ outcome \in {"disconnected", "truncated"} => result.usage = UnavailableUsage

\* Usage that is published adds up.
UsageConsistent ==
  outcome # None =>
    LET u == result.usage IN
      /\ Measured(u.cached) => Measured(u.prompt) /\ u.cached.value <= u.prompt.value
      /\ Measured(u.reasoning) => Measured(u.completion) /\ u.reasoning.value <= u.completion.value
      /\ Measured(u.total) /\ Measured(u.prompt) /\ Measured(u.completion) =>
           u.prompt.value + u.completion.value <= u.total.value

\* The observer never holds more than MAX_EVENT_BYTES of a stream.
RetainedBounded == Retained(obs) <= MaxEvent

\* A buffered answer with counted tool calls is never discarded as empty.
CallsAreSubstance ==
  outcome = "body" /\ Measured(result.tools) /\ result.tools.value > 0
    => HasSubstance(fed[1])

\* What is published of an answer is what the answer says, whole, consistent and
\* independent of how it was cut into chunks; of a part of one, nothing is.
ReportedExactly ==
  /\ CompleteIsExact /\ PartialClaimsNothing /\ UsageConsistent /\ CallsAreSubstance

\* The observer's memory of a stream is sound and bounded: never more than
\* MAX_EVENT_BYTES of it, nothing of an event it discards.
MemoryBounded == TypeOK /\ RetainedBounded
=============================================================================
