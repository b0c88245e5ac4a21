------------------------------- MODULE Session -------------------------------
(***************************************************************************)
(* The two servers over stdio: the language server behind its              *)
(* Content-Length frames (lsp-server.ts FrameCodec, lsp.ts LspHandler) and *)
(* the tool server behind its lines (mcp-server.ts LineCodec, mcp.ts       *)
(* handle).  A client writes messages, the pipe hands the bytes over in    *)
(* chunks cut anywhere, and what a chunk completes is handled before the   *)
(* next one is read.                                                       *)
(*                                                                         *)
(* Bytes are units: what is looked for in them is told apart, the rest of  *)
(* a message is so many units that name it.  What is computed of a text is *)
(* the text and the settings it is computed under.                         *)
(***************************************************************************)
EXTENDS Naturals, FiniteSets, FiniteSetsExt, Sequences, SequencesExt

CONSTANTS
  Uri,        \* the documents an editor opens
  Text,       \* what they hold, and what a tool is called on
  Wide,       \* the texts with a character of two bytes
  Setting,    \* what `initialize` can ask for: the trust, the provenance
  Wires,      \* the servers looked at: "frame", "line"
  MaxSent,    \* BOUND: messages of a session
  MaxOdd,     \* BOUND: of them, those written in an unusual way
  MaxAhead    \* BOUND: messages written that no chunk has brought whole

ASSUME SessionAssumption ==
  /\ Wide \subseteq Text
  /\ Wires \subseteq {"frame", "line"}
  /\ MaxSent \in Nat /\ MaxOdd \in Nat /\ MaxAhead \in Nat

VARIABLES
  wire,      \* which server
  sent,      \* what the client wrote, in order
  pipe,      \* the units not yet handed over
  buffer,    \* the codec's: the units it has not used
  docs,      \* the handler's: open document |-> its text
  setting,   \* the handler's: what `initialize` asked for
  shutdown,  \* the handler's: shutdown came
  running,   \* the process has not exited
  out,       \* what the server wrote
  handled,   \* history: <<message, text it was read with>>
  cut        \* history: a chunk of lines ended inside a character

server == <<docs, setting, shutdown, running>>
vars == <<wire, sent, pipe, buffer, docs, setting, shutdown, running, out, handled, cut>>

(***************************************************************************)
(* Messages.  A change carries a list of contents; a request has an id,    *)
(* which is its place in the session.                                      *)
(***************************************************************************)
Message(op, uri, texts) == [op |-> op, uri |-> uri, texts |-> texts]
NoUri == "no uri"
Started == "started"
Plain(op) == Message(op, NoUri, <<>>)

Requests == {"initialize", "shutdown", "hover", "definition", "completion", "unknown", "call", "unnamed"}

FrameMessages ==
  {Message("initialize", NoUri, <<s>>) : s \in Setting}
    \union {Message("open", u, <<t>>) : u \in Uri, t \in Text}
    \union {Message("change", u, ts) : u \in Uri, ts \in {<<>>} \union {<<t>> : t \in Text}
                                             \union {<<s, t>> : s \in Text, t \in Wide}}
    \union {Message(op, u, <<>>) : op \in {"close", "hover", "definition", "completion"}, u \in Uri}
    \union {Plain(op) : op \in {"unknown", "notice", "shutdown", "exit"}}
LineMessages ==
  {Message("call", NoUri, <<t>>) : t \in Text} \union {Plain(op) : op \in {"unnamed", "unknown", "notice"}}

(***************************************************************************)
(* What the client knows of its own session: the text a document has once  *)
(* the first n messages are written, if it is open.                        *)
(***************************************************************************)
Touches(m, u) == m.uri = u /\ (m.op \in {"open", "close"} \/ (m.op = "change" /\ m.texts # <<>>))

TextAsOf(n, u) ==
  LET touching == {i \in 1 .. n : Touches(sent[i], u)}
  IN  IF touching = {} \/ sent[Max(touching)].op = "close" THEN <<>>
      ELSE <<Last(sent[Max(touching)].texts)>>

SettingAsOf(n) ==
  IF n > 0 /\ sent[1].op = "initialize" THEN sent[1].texts[1] ELSE Started

\* The client keeps to the protocol: initialize first, changes to open
\* documents alone, nothing after shutdown but exit.
Legal(m) ==
  LET n == Len(sent)
      over == \E i \in 1 .. n : sent[i].op = "shutdown"
  IN  /\ \A i \in 1 .. n : sent[i].op # "exit"
      /\ (m.op = "initialize") <=> (wire = "frame" /\ n = 0)
      /\ over => m.op = "exit"
      /\ m.op = "open" => TextAsOf(n, m.uri) = <<>>
      /\ m.op \in {"change", "close"} => TextAsOf(n, m.uri) # <<>>

(***************************************************************************)
(* Units.  "length" says how many follow the blank line, "field" is any    *)
(* other text before it.                                                   *)
(***************************************************************************)
Unit(is, n) == [is |-> is, n |-> n]
Blank == Unit("blank", 0)
Field == Unit("field", 0)
Newline(i) == Unit("newline", i)

Body(i, m) ==
  <<Unit("open", i)>>
    \o (IF ToSet(m.texts) \intersect Wide # {} THEN <<Unit("lead", i), Unit("trail", i)>> ELSE <<>>)
    \o <<Unit("end", i)>>

\* A frame, as it is usually written and as it may be.
Frames(i, m) ==
  LET body   == Body(i, m)
      length == Unit("length", Len(body))
  IN  {<<length, Blank>> \o body, <<Field, length, Blank>> \o body,
       <<length, Field, Blank>> \o body, <<Field, Blank, length, Blank>> \o body}
Lines(i, m) ==
  LET line == Body(i, m) \o <<Newline(i)>>
  IN  {line, <<Newline(0)>> \o line, <<Field, Newline(0)>> \o line}

Usual(i, m) ==
  IF wire = "frame" THEN <<Unit("length", Len(Body(i, m))), Blank>> \o Body(i, m)
  ELSE Body(i, m) \o <<Newline(i)>>
Written(i, m) == IF wire = "frame" THEN Frames(i, m) ELSE Lines(i, m)

Init ==
  /\ wire \in Wires
  /\ sent = <<>> /\ pipe = <<>> /\ buffer = <<>>
  /\ docs = <<>> /\ setting = Started /\ shutdown = FALSE /\ running = TRUE
  /\ out = <<>> /\ handled = <<>> /\ cut = FALSE

Ahead == Cardinality({k \in 1 .. Len(pipe) : pipe[k].is = "end"})
Odd == Cardinality({i \in 1 .. Len(sent) : sent[i].odd})

Send(m) ==
  /\ running /\ Len(sent) < MaxSent /\ Ahead < MaxAhead /\ Legal(m)
  /\ LET i == Len(sent) + 1
     IN  \E units \in Written(i, m) :
           LET odd == units # Usual(i, m)
           IN  /\ odd => Odd < MaxOdd
               /\ sent' = Append(sent, [op |-> m.op, uri |-> m.uri, texts |-> m.texts, odd |-> odd])
               /\ pipe' = pipe \o units
  /\ UNCHANGED <<wire, buffer, docs, setting, shutdown, running, out, handled, cut>>

(***************************************************************************)
(* The codecs.  A frame is ready when its blank line and so many units     *)
(* after it are here; a block without a length is passed over.  A line is  *)
(* ready when its newline is.                                              *)
(***************************************************************************)
Ends == {j \in 1 .. Len(buffer) : buffer[j].is = IF wire = "frame" THEN "blank" ELSE "newline"}
End == Min(Ends)
Lengths == {j \in 1 .. End : buffer[j].is = "length"}
Size == buffer[Min(Lengths)].n

Ready ==
  /\ Ends # {}
  /\ wire = "frame" /\ Lengths # {} => Len(buffer) >= End + Size

Taken ==
  IF wire = "line" THEN SubSeq(buffer, 1, End - 1)
  ELSE IF Lengths = {} THEN <<>> ELSE SubSeq(buffer, End + 1, End + Size)
\* MUTANT of Rest: what came with the end of a message is dropped.
RestDropped == <<>>

Rest ==
  SubSeq(buffer, IF wire = "frame" /\ Lengths # {} THEN End + Size + 1 ELSE End + 1, Len(buffer))

\* The message the units spell, with what a character cut in two reads as.
Spelled(units) ==
  {i \in 1 .. Len(sent) :
     LET body == Body(i, sent[i])
     IN  Len(units) = Len(body)
         /\ \A k \in 1 .. Len(body) : units[k] \in {body[k], Unit("replaced", i)}}
Read(units, i) ==
  IF \E k \in 1 .. Len(units) : units[k].is = "replaced" THEN <<"altered">> ELSE sent[i].texts

\* The bytes of a chunk of lines are decoded by themselves: half a
\* character is not one.
Decoded(chunk) ==
  [k \in 1 .. Len(chunk) |->
     IF wire = "line" /\ ((chunk[k].is = "trail" /\ k = 1) \/ (chunk[k].is = "lead" /\ k = Len(chunk)))
       THEN Unit("replaced", chunk[k].n) ELSE chunk[k]]

\* A chunk arrives, when nothing of the one before is left to do.
Push ==
  /\ running /\ ~Ready
  /\ \E k \in 1 .. Len(pipe) :
       /\ buffer' = buffer \o Decoded(SubSeq(pipe, 1, k))
       /\ pipe' = SubSeq(pipe, k + 1, Len(pipe))
       /\ cut' = (cut \/ (wire = "line" /\ pipe[k].is = "lead"))
  /\ UNCHANGED <<wire, sent, docs, setting, shutdown, running, out, handled>>

\* The next message, and what it is handled as.
Arrives(i) ==
  /\ running /\ Ready /\ i \in Spelled(Taken)
  /\ buffer' = Rest
  /\ handled' = Append(handled, <<i, Read(Taken, i)>>)
  /\ UNCHANGED <<wire, sent, pipe, cut>>

Reply(i, of) == out' = Append(out, [is |-> "reply", to |-> i, of |-> of])
Publish(u, of) == out' = Append(out, [is |-> "diagnostics", to |-> u, of |-> of])

\* What spells no message: a frame's body is ignored, a line is answered.
Unreadable ==
  /\ running /\ Ready /\ Spelled(Taken) = {}
  /\ buffer' = Rest
  /\ IF wire = "line" /\ Taken # <<>> THEN Reply(0, <<"parse error">>) ELSE UNCHANGED out
  /\ UNCHANGED <<wire, sent, pipe, docs, setting, shutdown, running, handled, cut>>

(***************************************************************************)
(* The language server's handler.                                          *)
(***************************************************************************)
Initialize(i) ==
  /\ wire = "frame" /\ sent[i].op = "initialize" /\ Arrives(i)
  /\ setting' = sent[i].texts[1]
  /\ Reply(i, <<"capabilities">>)
  /\ UNCHANGED <<docs, shutdown, running>>

Shutdown(i) ==
  /\ sent[i].op = "shutdown" /\ Arrives(i)
  /\ shutdown' = TRUE
  /\ Reply(i, <<>>)
  /\ UNCHANGED <<docs, setting, running>>

Exit(i) ==
  /\ sent[i].op = "exit" /\ Arrives(i)
  /\ running' = FALSE
  /\ out' = Append(out, [is |-> "exit", to |-> i, of |-> <<shutdown>>])
  /\ UNCHANGED <<docs, setting, shutdown>>

Computed(text) == <<text, setting>>

\* MUTANT of NewText: the first of the contents is taken.
NewTextFirst(m) == Head(m.texts)

\* Each content is the whole text: the last one stands.
NewText(m) == Last(m.texts)

DidOpenOrChange(i) ==
  /\ sent[i].op \in {"open", "change"} /\ sent[i].texts # <<>> /\ Arrives(i)
  /\ LET text == NewText(sent[i])
     IN  /\ docs' = [u \in DOMAIN docs \union {sent[i].uri} |->
                       IF u = sent[i].uri THEN text ELSE docs[u]]
         /\ Publish(sent[i].uri, Computed(text))
  /\ UNCHANGED <<setting, shutdown, running>>

\* MUTANT of Closed: the document keeps an entry.
ClosedKept(u) == [d \in DOMAIN docs |-> IF d = u THEN Started ELSE docs[d]]

Closed(u) == [d \in DOMAIN docs \ {u} |-> docs[d]]

DidClose(i) ==
  /\ sent[i].op = "close" /\ Arrives(i)
  /\ docs' = Closed(sent[i].uri)
  /\ Publish(sent[i].uri, <<>>)
  /\ UNCHANGED <<setting, shutdown, running>>

\* A hover is computed under the settings, a definition (or a signature)
\* and a completion are not; a document not open has none of the first two,
\* and the completions of the empty text.
Answer(m) ==
  CASE m.uri \in DOMAIN docs /\ m.op = "hover" -> Computed(docs[m.uri])
    [] m.uri \in DOMAIN docs /\ m.op # "hover" -> <<docs[m.uri]>>
    [] OTHER -> IF m.op = "completion" THEN <<"">> ELSE <<>>

Ask(i) ==
  /\ sent[i].op \in {"hover", "definition", "completion"} /\ Arrives(i)
  /\ Reply(i, Answer(sent[i]))
  /\ UNCHANGED server

(***************************************************************************)
(* Both: a method nobody knows is refused by its id, what has none is not  *)
(* answered.  The tool server: a call is computed of its own arguments.    *)
(***************************************************************************)
Unknown(i) ==
  /\ sent[i].op \in {"unknown", "unnamed"} /\ Arrives(i)
  /\ Reply(i, <<sent[i].op>>)
  /\ UNCHANGED server

\* MUTANT of Notice: what has no id is answered too.
NoticeAnswered(i) ==
  /\ sent[i].op = "notice" \/ (sent[i].op = "change" /\ sent[i].texts = <<>>)
  /\ Arrives(i)
  /\ Reply(i, <<"unknown">>)
  /\ UNCHANGED <<docs, setting, shutdown, running>>

Notice(i) ==
  /\ sent[i].op = "notice" \/ (sent[i].op = "change" /\ sent[i].texts = <<>>)
  /\ Arrives(i)
  /\ UNCHANGED <<docs, setting, shutdown, running, out>>

Call(i) ==
  /\ sent[i].op = "call" /\ Arrives(i)
  /\ Reply(i, Read(Taken, i))
  /\ UNCHANGED server

\* The client closes its end: both servers stop.
HangUp ==
  /\ running /\ ~Ready /\ pipe = <<>>
  /\ running' = FALSE
  /\ out' = Append(out, [is |-> "exit", to |-> 0, of |-> <<wire = "line" \/ shutdown>>])
  /\ UNCHANGED <<wire, sent, pipe, buffer, docs, setting, shutdown, handled, cut>>

Handle(i) ==
  \/ Initialize(i) \/ Shutdown(i) \/ Exit(i) \/ DidOpenOrChange(i) \/ DidClose(i)
  \/ Ask(i) \/ Unknown(i) \/ Notice(i) \/ Call(i)

Next ==
  \/ \E m \in IF wire = "frame" THEN FrameMessages ELSE LineMessages : Send(m)
  \/ Push
  \/ Unreadable
  \/ HangUp
  \/ \E i \in 1 .. Len(sent) : Handle(i)

Spec == Init /\ [][Next]_vars

Delivered == {i \in 1 .. Len(sent) : \A k \in 1 .. Len(pipe) : pipe[k].n # i \/ pipe[k].is = "length"}
Idle == ~Ready

TypeOK ==
  /\ wire \in Wires
  /\ docs \in UNION {[us -> Text] : us \in SUBSET Uri}
  /\ setting \in Setting \union {Started}
  /\ shutdown \in BOOLEAN /\ running \in BOOLEAN /\ cut \in BOOLEAN
  /\ Ready => Cardinality(Spelled(Taken)) <= 1

(***************************************************************************)
(* Chunks leave no trace: between two of them the server has handled the   *)
(* messages it was handed whole, each once, in order and as they were      *)
(* written - but for the tool server, whose texts are as they were written *)
(* only where no chunk ended inside a character.                           *)
(***************************************************************************)
HandledAsSent ==
  Idle =>
    /\ Delivered = 1 .. Len(handled)
    /\ \A k \in 1 .. Len(handled) : handled[k][1] = k
    /\ ~cut => \A k \in 1 .. Len(handled) : handled[k][2] = sent[handled[k][1]].texts

\* The same of every text, cut or not: SplitCharacter.cfg.
ReadAsSent == \A k \in 1 .. Len(handled) : handled[k][2] = sent[handled[k][1]].texts

(***************************************************************************)
(* Once the pipe is empty an editor is shown, for each document, what its  *)
(* own text and settings say, and nothing for one it closed.               *)
(***************************************************************************)
ShownFor(u) ==
  LET published == {k \in 1 .. Len(out) : out[k].is = "diagnostics" /\ out[k].to = u}
  IN  IF published = {} THEN <<>> ELSE out[Max(published)].of

ShownIsCurrent ==
  pipe = <<>> /\ Idle =>
    \A u \in Uri :
      LET text == TextAsOf(Len(sent), u)
      IN  ShownFor(u) = IF text = <<>> THEN <<>> ELSE text \o <<SettingAsOf(Len(sent))>>

(***************************************************************************)
(* Every request is answered once, in the order they were written, of the  *)
(* text the document had where the request was written: what is sent while *)
(* it is under way does not change its answer.                             *)
(***************************************************************************)
AnswerDue(i) ==
  LET m == sent[i]
      text == TextAsOf(i, m.uri)
  IN  CASE m.op = "initialize" -> <<"capabilities">>
        [] m.op = "shutdown" -> <<>>
        [] m.op \in {"unknown", "unnamed"} -> <<m.op>>
        [] m.op = "call" -> m.texts
        [] m.op = "hover" -> IF text = <<>> THEN <<>> ELSE text \o <<SettingAsOf(i)>>
        [] m.op = "definition" -> text
        [] m.op = "completion" -> IF text = <<>> THEN <<"">> ELSE text

Replies == {k \in 1 .. Len(out) : out[k].is = "reply" /\ out[k].to # 0}

AnsweredAsAsked ==
  Idle /\ ~cut =>
    /\ {out[k].to : k \in Replies} = {i \in Delivered : sent[i].op \in Requests}
    /\ \A k, l \in Replies : k < l => out[k].to < out[l].to
    /\ \A k \in Replies : out[k].of = AnswerDue(out[k].to)
=============================================================================
