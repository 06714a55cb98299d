---------------------------- MODULE ShellStream ----------------------------
(***************************************************************************)
(* What comes out of a remote shell on its way to the terminal: the        *)
(* replies to its requests, the filter that hides the installation of the  *)
(* hook (remcmd-ssh shell.rs), the shell that is recognised                *)
(* (shell_integration.rs), and the directories the hook reports            *)
(* (remcmd-terminal cwd.rs).                                               *)
(*                                                                         *)
(* Output is a sequence of bytes, each a string: a printable one, or one   *)
(* named below. The marker that the hook is ready is two bytes here, the   *)
(* beginning of a report behind its ESC ] one.                             *)
(***************************************************************************)
EXTENDS Naturals, Sequences, SequencesExt

CONSTANTS
  StartupLimit,   \* MAX_INTEGRATION_STARTUP_BYTES
  PayloadLimit,   \* MAX_OSC_PAYLOAD_BYTES
  Absent

-----------------------------------------------------------------------------
(* SshShell::open: two requests are sent at once, their replies awaited.   *)

\* What wait_for_request_success makes of a message; others are ignored.
Reply(n, message) ==
  CASE n \notin 0..1 -> n
    [] n \in 0..1 /\ message = "success" -> n + 1
    [] n \in 0..1 /\ message = "failure" -> 8
    [] n \in 0..1 /\ message \in {"eof", "close"} -> 9
    [] OTHER -> n

\* A channel that ends answers nothing more.
OpenShell(replies) ==
  LET n == FoldLeft(Reply, 0, replies) IN
  CASE n = 2 -> "open" [] n = 8 -> "Protocol" [] n \in {0, 1, 9} -> "Network"

-----------------------------------------------------------------------------
(* SshShellReader: startup_output while the filter is on.                  *)

Marker == <<"rea", "dy">>
Erase == <<"CR", "clear">>

Reader == [startup |-> Absent, said |-> <<>>]
\* begin_integration_filter.
BeginFilter(r) == [r EXCEPT !.startup = <<>>]

Say(r, event) == [r EXCEPT !.said = Append(@, event)]
Output(data) == [kind |-> "output", data |-> data]

\* What is behind the last line feed: the prompt, or what was typed of the hook.
LastLine(output) ==
  LET ends == {i \in DOMAIN output : output[i] = "LF"}
      start == IF ends = {} THEN 0 ELSE CHOOSE i \in ends : \A j \in ends : j <= i
  IN SubSeq(output, start + 1, Len(output))

\* finish_startup_filter: the marker did not come.
FinishFilter(r) ==
  IF r.startup = Absent THEN r
  ELSE LET prompt == LastLine(r.startup) IN
       Say([r EXCEPT !.startup = Absent], Output(IF prompt = <<>> THEN Erase ELSE prompt))

FinishIfFull(r) == IF Len(r.startup) >= StartupLimit THEN FinishFilter(r) ELSE r

\* find_bytes: where the first marker ends, or 0.
MarkerEnd(output) ==
  LET ends == {i \in Len(Marker)..Len(output) : SubSeq(output, i + 1 - Len(Marker), i) = Marker} IN
  IF ends = {} THEN 0 ELSE CHOOSE i \in ends : \A j \in ends : i <= j
Behind(output) == SubSeq(output, MarkerEnd(output) + 1, Len(output))

HearData(r, data) ==
  IF r.startup = Absent THEN Say(r, Output(data))
  ELSE LET all == r.startup \o data  heard == [r EXCEPT !.startup = all] IN
       IF MarkerEnd(all) = 0 THEN FinishIfFull(heard)
       ELSE LET open == [r EXCEPT !.startup = Absent] IN
            IF Behind(all) = <<>> THEN open ELSE Say(open, Output(Behind(all)))

\* The marker is not looked for in what arrives as an error.
HearError(r, data) ==
  IF r.startup = Absent THEN Say(r, [kind |-> "error", data |-> data])
  ELSE FinishIfFull([r EXCEPT !.startup = @ \o data])

\* next_event: a message of the channel, or the deadline of the filter. What ends the shell
\* is said behind what the filter held (finish_startup_before, pending_event).
Hear(r, message) ==
  CASE message.kind = "data" -> HearData(r, message.data)
    [] message.kind = "extended" -> HearError(r, message.data)
    [] message.kind = "deadline" -> FinishFilter(r)
    [] message.kind \in {"status", "signal", "eof", "close"} -> Say(FinishFilter(r), message)
    [] OTHER -> r

-----------------------------------------------------------------------------
(* detect_shell: the words of the answer, each a path.                     *)

KnownShells == {"bash", "zsh", "ash"}

\* A login shell's name begins with dashes.
ShellName(path) == LET name == Last(path) IN SelectSeq(name, LAMBDA c : c # "-")[1]

DetectShell(words) ==
  LET known == SelectSeq(words, LAMBDA w : ShellName(w) \in KnownShells) IN
  IF known = <<>> THEN Absent ELSE ShellName(Head(known))

-----------------------------------------------------------------------------
(* Osc7Parser: directories reported within the output.                     *)

Parser == [state |-> "Ground", payload |-> <<>>, overflowed |-> FALSE, events |-> <<>>]

StartOsc(p) == [p EXCEPT !.payload = <<>>, !.overflowed = FALSE, !.state = "Osc"]
PushPayload(p, byte) ==
  IF Len(p.payload) < PayloadLimit THEN [p EXCEPT !.payload = Append(@, byte)]
  ELSE [p EXCEPT !.overflowed = TRUE]

\* A letter outside ASCII is two bytes; the second may be the byte that begins an OSC, the
\* one that ends it, or another.
Second == {"OSC8", "ST8", "second"}
IsUtf8(text) ==
  /\ \A i \in DOMAIN text : text[i] \in Second <=> i > 1 /\ text[i - 1] = "letter"
  /\ text # <<>> => Last(text) # "letter"
  /\ ~Contains(text, "byte")

HexDigits == {"0", "2", "f"}
Decoded(high, low) ==
  CASE high = "0" -> "LF"
    [] high = "f" -> "byte"
    [] high = "2" -> (CASE low = "0" -> " " [] low = "2" -> "quote" [] low = "f" -> "/")

\* percent_decode.
DecodeStep(d, byte) ==
  CASE ~d.ok -> d
    [] d.ok /\ d.open = <<>> /\ byte # "%" -> [d EXCEPT !.path = Append(@, byte)]
    [] d.ok /\ d.open = <<>> /\ byte = "%" -> [d EXCEPT !.open = <<"%">>]
    [] d.ok /\ d.open # <<>> /\ byte \notin HexDigits -> [d EXCEPT !.ok = FALSE]
    [] d.ok /\ Len(d.open) = 1 /\ byte \in HexDigits -> [d EXCEPT !.open = Append(@, byte)]
    [] d.ok /\ Len(d.open) = 2 /\ byte \in HexDigits ->
         [d EXCEPT !.path = Append(@, Decoded(d.open[2], byte)), !.open = <<>>]

\* parse_osc7_path: the path behind the host, or nothing.
ParsePath(payload) ==
  LET location == Tail(payload)
      slashes == {i \in DOMAIN location : location[i] = "/"}
      start == CHOOSE i \in slashes : \A j \in slashes : i <= j
      d == FoldLeft(DecodeStep, [path |-> <<>>, open |-> <<>>, ok |-> TRUE],
                    SubSeq(location, start, Len(location)))
  IN IF payload = <<>> \/ Head(payload) # "7;file://" \/ ~IsUtf8(payload) \/ slashes = {} THEN Absent
     ELSE IF ~d.ok \/ d.open # <<>> \/ ~IsUtf8(d.path) \/ ToSet(d.path) \cap {"LF", "ESC"} # {} THEN Absent
     ELSE d.path

FinishOsc(p) ==
  [p EXCEPT !.events = IF p.overflowed \/ ParsePath(p.payload) = Absent THEN @
                       ELSE Append(@, ParsePath(p.payload)),
            !.payload = <<>>, !.overflowed = FALSE, !.state = "Ground"]

\* advance, one byte.
Advance(p, byte) ==
  CASE p.state = "Ground" ->
         (CASE byte = "ESC" -> [p EXCEPT !.state = "Escape"]
            [] byte = "OSC8" -> StartOsc(p)
            [] OTHER -> p)
    [] p.state = "Escape" ->
         (CASE byte = "]" -> StartOsc(p)
            [] byte = "ESC" -> p
            [] OTHER -> [p EXCEPT !.state = "Ground"])
    [] p.state = "Osc" ->
         (CASE byte \in {"BEL", "ST8"} -> FinishOsc(p)
            [] byte = "ESC" -> [p EXCEPT !.state = "OscEscape"]
            [] OTHER -> PushPayload(p, byte))
    [] p.state = "OscEscape" ->
         IF byte = "\\" THEN FinishOsc(p)
         ELSE [PushPayload(PushPayload(p, "ESC"), byte) EXCEPT !.state = "Osc"]

AdvanceAll(p, bytes) == FoldLeft(Advance, p, bytes)

\* TerminalEngine::process: the emulator is advanced to the end of each report before that is
\* told, so that what it tells itself comes in its place. What happens, in order: the emulator
\* is given a byte, as <<byte>>, or a report is told. Wrong: the reports are told first.
Ends(p, bytes) ==
  LET Known(i) == Len(AdvanceAll(p, SubSeq(bytes, 1, i)).events) IN
  SelectSeq([i \in DOMAIN bytes |-> i], LAMBDA i : Known(i) > Known(i - 1))
NewReports(p, bytes) ==
  LET events == AdvanceAll(p, bytes).events IN SubSeq(events, Len(p.events) + 1, Len(events))
Given(bytes) == [i \in DOMAIN bytes |-> <<bytes[i]>>]
ReportsFirst(p, bytes) == NewReports(p, bytes) \o Given(bytes)
Process(p, bytes) ==
  LET ends == Ends(p, bytes)
      stops == <<0>> \o ends \o <<Len(bytes)>>
      Piece(k) == SubSeq(bytes, stops[k] + 1, stops[k + 1])
  IN FlattenSeq([k \in 1..(Len(ends) + 1) |->
       Given(Piece(k)) \o (IF k \in DOMAIN ends THEN <<NewReports(p, bytes)[k]>> ELSE <<>>)])
=============================================================================
