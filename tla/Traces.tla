------------------------------- MODULE Traces -------------------------------
(***************************************************************************)
(* Agent traces, on the device: an export of one of four tools is read     *)
(* line by line into one canonical shape, counted and cut to a preview;    *)
(* the server checks what it is sent with the same limits.  A line is what *)
(* the parser tells apart: the tool it is marked by, who speaks, and the   *)
(* tool calls and results it carries; wording, models and redaction are    *)
(* left out.  The file is written piece by piece, a line's beginning or a  *)
(* further block of it, and the loop of each parser reads along; parseTrace *)
(* takes the trace of the tool that detection names.                       *)
(***************************************************************************)
EXTENDS Naturals, Sequences, FiniteSets

CONSTANTS
  Lines,        \* the ways in which lines of a file begin
  Blocks,       \* what lines go on with
  Names,        \* tool names of at most MAX_TOOL_NAME_CHARS
  None,         \* no usable role or name, no marker, no result yet
  MaxMessages,  \* MAX_MESSAGES
  MaxPreview,   \* MAX_PREVIEW_MESSAGES
  MaxNames,     \* MAX_TOOL_NAMES
  MaxText,      \* MAX_TEXT_CHARS, in pieces of a message's text
  MaxPieces     \* bound on the pieces of a file

Roles == {"system", "user", "assistant", "tool"}

Formats == {"hermes", "openclaw", "codex", "claude_code"}

Outcomes == {"success", "failure", "unknown"}

\* by: the tool that writes such lines; "any" for a bookkeeping line.  A
\* conversation begins with its first turn, an entry with its role.
LineTypes ==
  [by : {"claude_code"}, kind : {"entry"}, role : Roles \cup {None}]
    \cup [by : {"hermes"}, kind : {"conversation"}, role : Roles \cup {None}]
    \cup [by : {"openclaw", "codex"}, kind : {"message"}, role : Roles \cup {None}]
    \cup [by : {"openclaw", "codex"}, kind : {"call"}, name : Names \cup {None}]
    \cup [by : {"openclaw", "codex"}, kind : {"result"}, ok : BOOLEAN]
    \cup [by : Formats \ {"hermes"}, kind : {"end"}, outcome : Outcomes]
    \cup [by : {"any"}, kind : {"note", "broken"}]

\* tool_use and tool_result blocks, tool_calls; further turns, and the pieces of
\* their text: prose, and <tool_call> blocks whose JSON is valid or is not.
BlockTypes ==
  [kind : {"call", "embedded"}, name : Names \cup {None}]
    \cup [kind : {"result"}, ok : BOOLEAN]
    \cup [kind : {"turn"}, role : Roles \cup {None}]
    \cup [kind : {"prose", "garbled"}]

ASSUME TracesAssumption ==
  /\ Lines \subseteq LineTypes /\ Blocks \subseteq BlockTypes
  /\ None \notin Names \cup Roles \cup Formats /\ None \notin BOOLEAN
  /\ MaxMessages \in Nat \ {0} /\ MaxPreview \in Nat \ {0, 1} /\ MaxNames \in Nat
  /\ MaxText \in Nat /\ MaxPieces \in Nat

VARIABLES
  file,   \* the lines so far, as they began
  text,   \* pieces in the text of the last turn
  read,   \* read[f]: what the parser of format f has made of them
  tally,  \* history: calls in the lines, and their results, whoever wrote them
  size    \* pieces, counted for MaxPieces

tracesVars == <<file, text, read, tally, size>>

\* CanonicalTrace.  The calls of all messages are in one list, in the order of
\* the messages; of: the message a call belongs to.
Traces ==
  [roles : Seq(Roles),
   calls : Seq([of : Nat, name : Names, ok : BOOLEAN \cup {None}]),
   outcome : Outcomes, refused : BOOLEAN]

\* calls: with a usable name, in text that is kept; left: the others; open: not
\* answered; own: those of the last line; failed: answered by a failure.
Tallies == [calls : Nat, left : Nat, open : Nat, own : Nat, failed : Nat]

\* Every variable has its type.
TracesTypeOK ==
  /\ file \in Seq(Lines) /\ text \in Nat
  /\ read \in [Formats -> Traces]
  /\ tally \in Tallies
  /\ size \in 0..MaxPieces

-----------------------------------------------------------------------------
\* Formats.

\* recordFormat: a Hermes line carries no marker, nor does Claude Code's last.
Marker(line) ==
  IF line.by \in {"hermes", "any"} \/ (line.by = "claude_code" /\ line.kind = "end") THEN None ELSE line.by

Markers == {Marker(file[i]) : i \in DOMAIN file}

\* detectTraceFormat: a document is Hermes; a file of lines goes by its markers.
Detected ==
  IF file = <<>> \/ (\E i \in DOMAIN file : file[i].kind = "broken") THEN None
  ELSE IF "claude_code" \in Markers THEN "claude_code"
  ELSE IF "codex" \in Markers THEN "codex"
  ELSE IF "openclaw" \in Markers THEN "openclaw"
  ELSE IF file[1].by = "hermes" THEN "hermes" ELSE None

\* Mutant: whatever the detected tool did not write is passed over.
MixedIgnored(format) == FALSE

\* assertSingleFormat.
Mixed(format) == Markers \ {None, format} # {}

-----------------------------------------------------------------------------
\* Messages.

Blank == [roles |-> <<>>, calls |-> <<>>, outcome |-> "unknown", refused |-> FALSE]

Refuse(t) == [t EXCEPT !.refused = TRUE]

Said(t, role) == IF role = None THEN Refuse(t) ELSE [t EXCEPT !.roles = Append(@, role)]

Called(t, of, name) == [t EXCEPT !.calls = Append(@, [of |-> of, name |-> name, ok |-> None])]

Latest(S) == CHOOSE k \in S : \A j \in S : j <= k

\* attachToolCall: to the last assistant message, or to one of its own.
Attach(t, name) ==
  LET assistants == {i \in DOMAIN t.roles : t.roles[i] = "assistant"} IN
  IF assistants = {} THEN Called(Said(t, "assistant"), Len(t.roles) + 1, name)
  ELSE Called(t, Latest(assistants), name)

\* The calls of the first n messages that have no result.
Unanswered(t, n) == {k \in DOMAIN t.calls : t.calls[k].ok = None /\ t.calls[k].of <= n}

\* Mutant: the last call takes the result, answered or not.
MarkNewest(t, n, ok) ==
  IF t.calls = <<>> THEN t ELSE [t EXCEPT !.calls = [t.calls EXCEPT ![Len(t.calls)].ok = ok]]

\* markLastToolCall: the last call without a result takes it.
Mark(t, n, ok) ==
  IF Unanswered(t, n) = {} THEN t
  ELSE [t EXCEPT !.calls = [t.calls EXCEPT ![Latest(Unanswered(t, n))].ok = ok]]

Ended(t, outcome) == [t EXCEPT !.outcome = outcome]

\* fromOpenClaw and fromCodex: one event.
ReadEvent(t, line) ==
  CASE line.kind = "message" -> Said(t, line.role)
    [] line.kind = "call"    -> IF line.name = None THEN Refuse(t) ELSE Attach(t, line.name)
    [] line.kind = "result"  -> Said(Mark(t, Len(t.roles), line.ok), "tool")
    [] line.kind = "end"     -> Ended(t, line.outcome)

\* fromClaudeCode: an entry, and one block of it.  The entry's own calls are
\* not among the messages yet, so its results answer earlier entries.
ReadEntry(t, line) == IF line.kind = "end" THEN Ended(t, line.outcome) ELSE Said(t, line.role)

ReadBlock(t, block) ==
  CASE block.kind = "call"   -> IF block.name = None THEN Refuse(t) ELSE Called(t, Len(t.roles), block.name)
    [] block.kind = "result" -> Mark(t, Len(t.roles) - 1, block.ok)

\* The text of a message is cut before it is searched for calls: a block that
\* does not end before the cut is not found.
TextKept == text < MaxText

\* fromHermes: a further turn, a declared call, or a block of its text.  A call
\* without a usable name is passed over.
ReadTurn(t, block) ==
  CASE block.kind = "turn" -> Said(t, block.role)
    [] block.kind = "call" /\ block.name # None -> Called(t, Len(t.roles), block.name)
    [] block.kind = "embedded" /\ block.name # None /\ TextKept -> Called(t, Len(t.roles), block.name)
    [] block.kind = "garbled" /\ TextKept -> Refuse(t)
    [] OTHER -> t

ReadLine(f, t, line) ==
  CASE f = "claude_code" -> ReadEntry(t, line)
    [] f = "hermes" -> Said(t, line.role)
    [] f \in {"openclaw", "codex"} -> ReadEvent(t, line)

\* Each parser throws once and for all, reads the lines of its tool (a line
\* without a marker is passed over) and, of a Hermes file, the first one.
Reads(f, i, line) == ~read[f].refused /\ line.by = f /\ (f = "hermes" => i = 1)

-----------------------------------------------------------------------------
\* The file.

\* Calls that a Hermes conversation loses; no other tool's file is accepted that
\* has a call without a name.
PassedOver(x) == x.name = None \/ (x.kind = "embedded" /\ ~TextKept)

\* A call or a result in the reference counts: which call a result belongs to
\* is not asked, only that one was open when its line began.
Counted(n, x) ==
  IF x.kind \in {"call", "embedded"} THEN
    IF PassedOver(x) THEN [n EXCEPT !.left = @ + 1] ELSE [n EXCEPT !.calls = @ + 1, !.open = @ + 1, !.own = @ + 1]
  ELSE IF x.kind = "result" /\ n.open > n.own
  THEN [n EXCEPT !.open = @ - 1, !.failed = @ + (IF x.ok THEN 0 ELSE 1)]
  ELSE n

TracesInit ==
  /\ file = <<>> /\ text = 0
  /\ read = [f \in Formats |-> Blank]
  /\ tally = [calls |-> 0, left |-> 0, open |-> 0, own |-> 0, failed |-> 0]
  /\ size = 0

BeginLine(line) ==
  /\ size < MaxPieces
  /\ file' = Append(file, line) /\ text' = 0
  /\ read' = [f \in Formats |-> IF Reads(f, Len(file) + 1, line) THEN ReadLine(f, read[f], line) ELSE read[f]]
  /\ tally' = Counted([tally EXCEPT !.own = 0], line)
  /\ size' = size + 1

InText == {"prose", "embedded", "garbled"}

\* Entries go on with calls and results, conversations with turns, their declared
\* calls, which the parser takes first, and then their text.
Takes(line, block) ==
  \/ line.kind = "entry" /\ block.kind \in {"call", "result"}
  \/ line.kind = "conversation" /\ block.kind \in {"turn"} \cup InText
  \/ line.kind = "conversation" /\ block.kind = "call" /\ text = 0

AddBlock(block) ==
  /\ size < MaxPieces
  /\ file # <<>> /\ Takes(file[Len(file)], block)
  /\ read' = [f \in Formats |->
                IF ~Reads(f, Len(file), file[Len(file)]) THEN read[f]
                ELSE IF f = "hermes" THEN ReadTurn(read[f], block) ELSE ReadBlock(read[f], block)]
  /\ tally' = Counted(tally, block)
  /\ text' = IF block.kind \in InText THEN text + 1 ELSE 0
  /\ size' = size + 1
  /\ file' = file

TracesNext == (\E line \in Lines : BeginLine(line)) \/ (\E block \in Blocks : AddBlock(block))

TracesSpec == TracesInit /\ [][TracesNext]_tracesVars

-----------------------------------------------------------------------------
\* What leaves the device.

\* finalize.
Finalized(t) == IF t.roles = <<>> \/ Len(t.roles) > MaxMessages THEN Refuse(t) ELSE t

\* parseTrace, of the file as it is.
Parsed ==
  IF Detected = None \/ Len(file) > MaxMessages \/ (Detected # "hermes" /\ Mixed(Detected)) THEN Refuse(Blank)
  ELSE Finalized(read[Detected])

TurnCount(t) == Cardinality({i \in DOMAIN t.roles : t.roles[i] = "assistant"})

\* The names of the first n calls.
NamesOf(t, n) == {t.calls[k].name : k \in {k \in DOMAIN t.calls : k <= n}}

\* A name is added while the set has less than MAX_TOOL_NAMES.
ToolNames(t) ==
  {t.calls[k].name : k \in {k \in DOMAIN t.calls : Cardinality(NamesOf(t, k - 1)) < MaxNames}}

Failed(t) == {k \in DOMAIN t.calls : t.calls[k].ok = FALSE}

\* traceStructure.
Structure(t) ==
  [turnCount |-> TurnCount(t), toolCallsCount |-> Len(t.calls), toolNames |-> ToolNames(t),
   failedToolCalls |-> Cardinality(Failed(t)), outcome |-> t.outcome, messageCount |-> Len(t.roles)]

\* Mutant: the first messages only.
KeptHead(n) == [k \in 1..(IF n <= MaxPreview THEN n ELSE MaxPreview) |-> k]

\* redactTrace: the places of the messages kept of n, the first and the last.
Kept(n) ==
  LET head == (MaxPreview + 1) \div 2 IN
  IF n <= MaxPreview THEN [k \in 1..n |-> k]
  ELSE [k \in 1..MaxPreview |-> IF k <= head THEN k ELSE n - (MaxPreview - k)]

Preview(t) == [k \in DOMAIN Kept(Len(t.roles)) |-> t.roles[Kept(Len(t.roles))[k]]]

\* validateTraceStructure.  Its limit on counts is out of a file's reach.
StructureAccepted(s) ==
  /\ s.outcome \in Outcomes
  /\ Cardinality(s.toolNames) <= MaxNames
  /\ s.toolNames \subseteq Names

\* validateRedactedTrace.
PreviewAccepted(p) ==
  /\ Len(p) \in 1..MaxPreview
  /\ \A k \in DOMAIN p : p[k] \in Roles

\* buildTraceSpec: all that the server is sent.
JobSpec(t) == [structure |-> Structure(t), preview |-> Preview(t)]

-----------------------------------------------------------------------------
\* Files in which a Hermes conversation stands alone.
HermesAlone == \A i \in DOMAIN file : file[i].by = "hermes" => Len(file) = 1

\* assertSingleFormat, "confident but wrong counts": a file that is accepted has
\* the calls of every line counted (Hermes conversations standing alone), each
\* once: every call that has a usable name and, where it is embedded in the text
\* of a Hermes turn, ends before the text is cut.
CallsCounted == ~Parsed.refused /\ HermesAlone => Structure(Parsed).toolCallsCount = tally.calls

\* Although results are attributed by position, last open call first, the
\* number of failed calls is that of the failing results that had an open call
\* before them, and a call is failed once.
FailuresCounted == ~Parsed.refused /\ HermesAlone => Structure(Parsed).failedToolCalls = tally.failed

\* labels.ts, "a trace the browser could produce is never rejected here": what
\* is derived on the device passes the server's validation.  The judge sees the
\* task and its resolution: the preview is a part of the session in its order,
\* without repetition, with its first and last message.
SubmissionServes ==
  LET n == Len(Parsed.roles)
      kept == Kept(n) IN
  ~Parsed.refused =>
    /\ StructureAccepted(JobSpec(Parsed).structure) /\ PreviewAccepted(JobSpec(Parsed).preview)
    /\ \A j, k \in DOMAIN kept : j < k => kept[j] < kept[k]
    /\ kept[1] = 1 /\ kept[Len(kept)] = n
    /\ Len(kept) = IF n <= MaxPreview THEN n ELSE MaxPreview

\* Not guaranteed (parse.ts: "callers never receive a half-parsed trace"):
\* Hermes conversations after the first, or among the lines of another tool,
\* are dropped without a word; so are, in the one that is read, the calls that
\* have no usable name and those beyond the cut of their turn's text.
NeverHalfParsed == ~Parsed.refused => Structure(Parsed).toolCallsCount = tally.calls + tally.left
=============================================================================
