------------------------------ MODULE LogStream ------------------------------
(***************************************************************************)
(* GET /parser/stream: a websocket over which a client sees what the       *)
(* server logs.                                                            *)
(*                                                                         *)
(* The handler starts the goroutine LogChan and relays the lines it sends. *)
(* LogChan makes itself the destination of the two loggers there are, the  *)
(* default one of the program and the one of the mssql driver: a logger    *)
(* that writes to the console and to a buffer.  Every half second it reads *)
(* the buffer, sends it line by line and resets it.  The handler of a      *)
(* websocket never returns (the errors of Send are ignored): LogChan is    *)
(* told to quit only when the handshake has failed, as it does for a plain *)
(* GET.                                                                    *)
(*                                                                         *)
(* The n-th line logged is the number n, 0 is text that is no line: the    *)
(* empty string after the last line break, or what a torn read has found.  *)
(* go-log serialises the writers of a logger; LogChan reads and resets the *)
(* buffer without that lock.                                               *)
(***************************************************************************)
EXTENDS Integers, Sequences, SequencesExt

CONSTANTS
  Streams,      \* the requests to /parser/stream
  Stdout,       \* the console
  MaxLines      \* bound: lines logged

ASSUME ConstantsAssumption ==
  /\ Stdout \notin Streams
  /\ MaxLines \in Nat

Loggers == {"program", "driver"}

VARIABLES
  lines,        \* how many lines were logged
  logger,       \* the stream, or the console, each logger writes to
  handler,      \* where streamStdout stands
  chan,         \* where LogChan stands
  buffer,       \* b, the lines in the buffer
  data,         \* what LogChan has still to send of the last String
  sent,         \* what the client was sent
  (* history *)
  setBy,        \* the stream that has set each logger last
  routed,       \* the lines written to the buffer of the stream
  late          \* those written while LogChan was between String and Reset

vars == <<lines, logger, handler, chan, buffer, data, sent, setBy, routed, late>>

Handlers == {"unused", "handshake", "relaying", "quitting", "returned"}

\* "program", "driver": about to set that logger; "select"; "sending" from
\* String to Reset; "quit", "quitDriver": about to restore a logger.
Chans == {"unused", "program", "driver", "select", "sending", "quit",
          "quitDriver", "ended"}

NoLine == 0

Init ==
  /\ lines = 0
  /\ logger = [k \in Loggers |-> Stdout]
  /\ setBy = [k \in Loggers |-> Stdout]
  /\ handler = [s \in Streams |-> "unused"]
  /\ chan = [s \in Streams |-> "unused"]
  /\ buffer = [s \in Streams |-> <<>>]
  /\ data = [s \in Streams |-> <<>>]
  /\ sent = [s \in Streams |-> <<>>]
  /\ routed = [s \in Streams |-> {}]
  /\ late = [s \in Streams |-> {}]

Goto(s, place) == chan' = [chan EXCEPT ![s] = place]

\* LogChan of s makes logger k write to a stream or to the console.
SetLogger(s, k, to) ==
  /\ logger' = [logger EXCEPT ![k] = to]
  /\ setBy' = [setBy EXCEPT ![k] = s]

-----------------------------------------------------------------------------
(* Any goroutine logs a line.                                              *)

\* The line is written by logger k, and the buffer of its stream becomes b.
Write(k, b) ==
  /\ lines < MaxLines
  /\ lines' = lines + 1
  /\ \E s \in Streams :
       /\ logger[k] = s
       /\ buffer' = [buffer EXCEPT ![s] = b]
       /\ routed' = [routed EXCEPT ![s] = @ \cup {lines + 1}]

LogToConsole(k) ==
  /\ logger[k] = Stdout
  /\ lines < MaxLines
  /\ lines' = lines + 1
  /\ UNCHANGED <<logger, setBy, handler, chan, buffer, data, sent, routed, late>>

Log(k) ==
  /\ \E s \in Streams :
       /\ logger[k] = s
       /\ Write(k, Append(buffer[s], lines + 1))
       /\ late' = [late EXCEPT
            ![s] = IF chan[s] = "sending" THEN @ \cup {lines + 1} ELSE @]
  /\ UNCHANGED <<logger, setBy, handler, chan, data, sent>>

-----------------------------------------------------------------------------
(* streamStdout.                                                           *)

Stream(s) ==
  /\ handler[s] = "unused"
  /\ handler' = [handler EXCEPT ![s] = "handshake"]
  /\ Goto(s, "program")
  /\ UNCHANGED <<lines, logger, setBy, buffer, data, sent, routed, late>>

Handshake(s) ==
  /\ handler[s] = "handshake"
  /\ \E end \in {"relaying", "quitting"} : handler' = [handler EXCEPT ![s] = end]
  /\ UNCHANGED <<lines, logger, setBy, chan, buffer, data, sent, routed, late>>

-----------------------------------------------------------------------------
(* LogChan: the two loggers are switched one after the other.              *)

\* Slip: the old logger is passed to SetDefaultLogger.
SetOldLogger(s) ==
  /\ chan[s] = "program"
  /\ SetLogger(s, "program", Stdout)
  /\ Goto(s, "driver")
  /\ UNCHANGED <<lines, handler, buffer, data, sent, routed, late>>

SetDefaultLogger(s) ==
  /\ chan[s] = "program"
  /\ SetLogger(s, "program", s)
  /\ Goto(s, "driver")
  /\ UNCHANGED <<lines, handler, buffer, data, sent, routed, late>>

\* SetLogger does not look at the syncer it is called on, which may be nil.
SetDriverLogger(s) ==
  /\ chan[s] = "driver"
  /\ SetLogger(s, "driver", s)
  /\ Goto(s, "select")
  /\ UNCHANGED <<lines, handler, buffer, data, sent, routed, late>>

\* Slip: a single line is left for the next tick.
TickOnTwo(s) ==
  /\ chan[s] = "select"
  /\ Len(buffer[s]) > 1
  /\ data' = [data EXCEPT ![s] = Append(buffer[s], NoLine)]
  /\ Goto(s, "sending")
  /\ UNCHANGED <<lines, logger, setBy, handler, buffer, sent, routed, late>>

\* The ticker fires and the buffer is not empty.
Tick(s) ==
  /\ chan[s] = "select"
  /\ buffer[s] # <<>>
  /\ data' = [data EXCEPT ![s] = Append(buffer[s], NoLine)]
  /\ Goto(s, "sending")
  /\ UNCHANGED <<lines, logger, setBy, handler, buffer, sent, routed, late>>

\* A data race: String reads the length of a line that is being written, and
\* not its bytes.
TickWhileWriting(s, k) ==
  /\ chan[s] = "select"
  /\ buffer[s] # <<>>
  /\ logger[k] = s
  /\ Write(k, Append(buffer[s], lines + 1))
  /\ late' = [late EXCEPT ![s] = @ \cup {lines + 1}]
  /\ data' = [data EXCEPT ![s] = buffer[s] \o <<NoLine, NoLine>>]
  /\ Goto(s, "sending")
  /\ UNCHANGED <<logger, setBy, handler, sent>>

\* Slip: a send that does not wait for the client.
SendOrDrop(s) ==
  /\ chan[s] = "sending"
  /\ data[s] # <<>>
  /\ data' = [data EXCEPT ![s] = Tail(@)]
  /\ sent' = IF handler[s] = "relaying"
             THEN [sent EXCEPT ![s] = Append(@, Head(data[s]))]
             ELSE sent
  /\ UNCHANGED <<lines, logger, setBy, handler, chan, buffer, routed, late>>

\* The channel is unbuffered: the handler takes the line and sends it.
Send(s) ==
  /\ chan[s] = "sending"
  /\ data[s] # <<>>
  /\ handler[s] = "relaying"
  /\ data' = [data EXCEPT ![s] = Tail(@)]
  /\ sent' = [sent EXCEPT ![s] = Append(@, Head(data[s]))]
  /\ UNCHANGED <<lines, logger, setBy, handler, chan, buffer, routed, late>>

\* Slip: the buffer is reset after the first line.
ResetInLoop(s) ==
  /\ chan[s] = "sending"
  /\ sent[s] # <<>>
  /\ buffer' = [buffer EXCEPT ![s] = <<>>]
  /\ Goto(s, "select")
  /\ UNCHANGED <<lines, logger, setBy, handler, data, sent, routed, late>>

Reset(s) ==
  /\ chan[s] = "sending"
  /\ data[s] = <<>>
  /\ buffer' = [buffer EXCEPT ![s] = <<>>]
  /\ Goto(s, "select")
  /\ UNCHANGED <<lines, logger, setBy, handler, data, sent, routed, late>>

\* A data race: the line that is being written is lost, or it undoes the
\* reset, and all that was in the buffer is there again.
ResetWhileWriting(s, k) ==
  /\ chan[s] = "sending"
  /\ data[s] = <<>>
  /\ logger[k] = s
  /\ \E b \in {<<>>, Append(buffer[s], lines + 1)} : Write(k, b)
  /\ late' = [late EXCEPT ![s] = @ \cup {lines + 1}]
  /\ Goto(s, "select")
  /\ UNCHANGED <<logger, setBy, handler, data, sent>>

\* Slip: only the stream that owns the default logger quits.
QuitIfCurrent(s) ==
  /\ chan[s] = "select"
  /\ handler[s] = "quitting"
  /\ logger["program"] = s
  /\ handler' = [handler EXCEPT ![s] = "returned"]
  /\ Goto(s, "quit")
  /\ UNCHANGED <<lines, logger, setBy, buffer, data, sent, routed, late>>

Quit(s) ==
  /\ chan[s] = "select"
  /\ handler[s] = "quitting"
  /\ handler' = [handler EXCEPT ![s] = "returned"]
  /\ Goto(s, "quit")
  /\ UNCHANGED <<lines, logger, setBy, buffer, data, sent, routed, late>>

\* Whichever stream the loggers belong to by now.
RestoreDefaultLogger(s) ==
  /\ chan[s] = "quit"
  /\ SetLogger(s, "program", Stdout)
  /\ Goto(s, "quitDriver")
  /\ UNCHANGED <<lines, handler, buffer, data, sent, routed, late>>

RestoreDriverLogger(s) ==
  /\ chan[s] = "quitDriver"
  /\ SetLogger(s, "driver", Stdout)
  /\ buffer' = [buffer EXCEPT ![s] = <<>>]
  /\ Goto(s, "ended")
  /\ UNCHANGED <<lines, handler, data, sent, routed, late>>

-----------------------------------------------------------------------------
LogChan(s) ==
  \/ SetDefaultLogger(s)
  \/ SetDriverLogger(s)
  \/ Tick(s)
  \/ Send(s)
  \/ Reset(s)
  \/ RestoreDefaultLogger(s)
  \/ RestoreDriverLogger(s)

Next ==
  \/ \E k \in Loggers : Log(k) \/ LogToConsole(k)
  \/ \E s \in Streams : Stream(s) \/ Handshake(s) \/ LogChan(s) \/ Quit(s)
  \/ \E s \in Streams, k \in Loggers :
       TickWhileWriting(s, k) \/ ResetWhileWriting(s, k)

Spec == Init /\ [][Next]_vars

(***************************************************************************)
(* The runtime schedules both goroutines of a stream, the ticker ticks,    *)
(* and a handshake comes to an end.  A LogChan that cannot send any more   *)
(* never comes back to its select, so Quit needs no strong fairness.       *)
(***************************************************************************)
FairSpec ==
  /\ Spec
  /\ \A s \in Streams :
       WF_vars(LogChan(s)) /\ WF_vars(Handshake(s)) /\ WF_vars(Quit(s))

-----------------------------------------------------------------------------
Lines == 1 .. MaxLines
Texts == Lines \cup {NoLine}

TypeOK ==
  /\ lines \in 0 .. MaxLines
  /\ {logger, setBy} \subseteq [Loggers -> Streams \cup {Stdout}]
  /\ handler \in [Streams -> Handlers]
  /\ chan \in [Streams -> Chans]
  /\ {buffer, data, sent} \subseteq [Streams -> Seq(Texts)]
  /\ {routed, late} \subseteq [Streams -> SUBSET Lines]
  /\ \A s \in Streams : chan[s] # "sending" => data[s] = <<>>

\* The loggers were set by s, at least the one of the program.
Started(s) == chan[s] \notin {"unused", "program"}

Serving(s) == chan[s] \in {"select", "sending"}

(***************************************************************************)
(* A line written to the buffer of a stream is sent, or will be, unless it *)
(* came while the lines before it were being sent: those are reset away.   *)
(***************************************************************************)
OnlyLateLinesAreLost ==
  \A s \in Streams : Serving(s) =>
    routed[s] \ late[s] \subseteq
      ToSet(sent[s]) \cup ToSet(data[s]) \cup ToSet(buffer[s])

(***************************************************************************)
(* A stream that serves a client hears both loggers until another one sets *)
(* them: the last to set a logger it has lost is another stream, which has *)
(* taken the logger over, or which has given it back to the console as its *)
(* own handshake has failed, even if it was started, and has lost its      *)
(* loggers, before the stream that serves.                                 *)
(***************************************************************************)
GaveBack(s, k) ==
  /\ logger[k] = Stdout
  /\ handler[s] = "returned"
  /\ chan[s] \in (IF k = "program" THEN {"quitDriver", "ended"} ELSE {"ended"})

CutOffByAnother ==
  \A s \in Streams : \A k \in Loggers : Serving(s) /\ logger[k] # s =>
    \E other \in Streams \ {s} :
      setBy[k] = other /\ (logger[k] = other \/ GaveBack(other, k))

(***************************************************************************)
(* What is in the buffer of a connected client eventually reaches it.      *)
(***************************************************************************)
Relayed ==
  \A s \in Streams : \A n \in Lines :
    (handler[s] = "relaying" /\ n \in ToSet(buffer[s]))
      ~> (n \in ToSet(sent[s]) \/ n \in late[s])

(***************************************************************************)
(* A request whose handshake has failed returns, unless a line was logged  *)
(* to it before: handler and LogChan may then wait for each other forever. *)
(***************************************************************************)
FailedHandshakeReturns ==
  \A s \in Streams :
    (handler[s] = "quitting") ~> (handler[s] = "returned" \/ routed[s] # {})
=============================================================================
