--------------------------- MODULE LogStreamProofs ---------------------------
(***************************************************************************)
(* Theorems about LogStream, for any number of streams and of lines: no    *)
(* line is lost but one that was written while LogChan was sending, and no *)
(* stream is cut off but by another one, that has set the logger last.     *)
(***************************************************************************)
EXTENDS LogStream, TLAPS

\* Where a line of stream s is that is not late: nowhere before LogChan has
\* set a logger, in the buffer until it is read, in what was read after that.
Kept(s) ==
  /\ ~Started(s) => routed[s] = {}
  /\ chan[s] \in {"driver", "select"} =>
       routed[s] \ late[s] \subseteq ToSet(sent[s]) \cup ToSet(buffer[s])
  /\ chan[s] = "sending" =>
       routed[s] \ late[s] \subseteq ToSet(sent[s]) \cup ToSet(data[s])

\* A logger that was given to LogChan is still given to it.
Owns(s, k) == IF k = "program" THEN chan[s] = "driver" \/ Serving(s) ELSE Serving(s)

\* Who has set a logger last has it, or has given it back.
SetByIsKnown(k) ==
  setBy[k] \in Streams => logger[k] = setBy[k] \/ GaveBack(setBy[k], k)

\* A stream loses a logger to another one.
CutOff(s, k) == Owns(s, k) /\ logger[k] # s => setBy[k] \in Streams \ {s}

\* LogChan quits when the handler has told it to.
QuitIsReturned(s) ==
  chan[s] \in {"quit", "quitDriver", "ended"} => handler[s] = "returned"

\* LogChan runs only after the handler has started it.
TypeInv ==
  /\ TypeOK
  /\ \A s \in Streams : handler[s] = "unused" => chan[s] = "unused"

LogInv ==
  /\ TypeInv
  /\ \A s \in Streams : \A k \in Loggers : logger[k] = s => Started(s)
  /\ \A s \in Streams : Kept(s)
  /\ \A s \in Streams : QuitIsReturned(s)
  /\ \A k \in Loggers : SetByIsKnown(k)
  /\ \A s \in Streams : \A k \in Loggers : CutOff(s, k)

-----------------------------------------------------------------------------
(* Sequences.                                                              *)

LEMMA ToSetOfAppend ==
  ASSUME NEW S, NEW q \in Seq(S), NEW x
  PROVE  ToSet(Append(q, x)) = ToSet(q) \cup {x}
<1>1. DOMAIN Append(q, x) = 1 .. Len(q) + 1 /\ DOMAIN q = 1 .. Len(q)
  OBVIOUS
<1>2. \A i \in 1 .. Len(q) : Append(q, x)[i] = q[i]
  OBVIOUS
<1>3. Append(q, x)[Len(q) + 1] = x
  OBVIOUS
<1> QED
  BY <1>1, <1>2, <1>3 DEF ToSet

LEMMA ToSetOfTail ==
  ASSUME NEW S, NEW q \in Seq(S), q # <<>>
  PROVE  ToSet(q) \subseteq {Head(q)} \cup ToSet(Tail(q))
<1> SUFFICES ASSUME NEW i \in 1 .. Len(q), i # 1
             PROVE  q[i] \in ToSet(Tail(q))
  BY DEF ToSet
<1>1. i - 1 \in 1 .. Len(Tail(q)) /\ Tail(q)[i - 1] = q[i]
  OBVIOUS
<1>2. DOMAIN Tail(q) = 1 .. Len(Tail(q))
  OBVIOUS
<1> QED
  BY <1>1, <1>2 DEF ToSet

LEMMA ToSetOfConcat ==
  ASSUME NEW S, NEW q \in Seq(S), NEW r \in Seq(S)
  PROVE  ToSet(q) \subseteq ToSet(q \o r)
<1>1. \A i \in 1 .. Len(q) : i \in DOMAIN (q \o r) /\ (q \o r)[i] = q[i]
  OBVIOUS
<1> QED
  BY <1>1 DEF ToSet

LEMMA ToSetOfEmpty == ToSet(<<>>) = {}
BY DEF ToSet

-----------------------------------------------------------------------------
(* Types.                                                                  *)

\* A logger writes its lines to the buffer it was started for.
LEMMA WriteTypes ==
  ASSUME TypeOK, NEW k \in Loggers, NEW s \in Streams, logger[k] = s,
         NEW b \in Seq(Texts), Write(k, b)
  PROVE  /\ lines + 1 \in Lines
         /\ lines' \in 0 .. MaxLines
         /\ buffer' \in [Streams -> Seq(Texts)]
         /\ routed' \in [Streams -> SUBSET Lines]
<1>1. /\ lines < MaxLines /\ lines' = lines + 1
      /\ buffer' = [buffer EXCEPT ![s] = b]
      /\ routed' = [routed EXCEPT ![s] = @ \cup {lines + 1}]
  BY DEF Write
<1>2. lines + 1 \in Lines /\ lines' \in 0 .. MaxLines
  BY <1>1, ConstantsAssumption DEF TypeOK, Lines
<1> QED
  BY <1>1, <1>2 DEF TypeOK

\* What a line leaves in the buffer, and what a racing String makes of it.
LEMMA TextTypes ==
  ASSUME TypeOK, NEW s \in Streams
  PROVE  /\ lines < MaxLines => Append(buffer[s], lines + 1) \in Seq(Texts)
         /\ Append(buffer[s], NoLine) \in Seq(Texts)
         /\ buffer[s] \o <<NoLine, NoLine>> \in Seq(Texts)
         /\ <<>> \in Seq(Texts)
<1>1. buffer[s] \in Seq(Texts) /\ NoLine \in Texts
  BY DEF TypeOK, Texts
<1>2. lines < MaxLines => lines + 1 \in Texts
  BY ConstantsAssumption DEF TypeOK, Texts, Lines
<1>3. <<NoLine, NoLine>> \in Seq(Texts)
  BY <1>1
<1> QED
  BY <1>1, <1>2, <1>3

LEMMA TypesPreserved ==
  ASSUME TypeInv, [Next]_vars
  PROVE  TypeOK'
<1> USE DEF TypeInv
<1>1. CASE UNCHANGED vars
  BY <1>1 DEF TypeOK, vars
<1>2. ASSUME NEW k \in Loggers, Log(k)
      PROVE  TypeOK'
  <2>1. PICK s \in Streams : logger[k] = s /\ Write(k, Append(buffer[s], lines + 1))
          /\ late' = [late EXCEPT
               ![s] = IF chan[s] = "sending" THEN @ \cup {lines + 1} ELSE @]
    BY <1>2 DEF Log
  <2>2. Append(buffer[s], lines + 1) \in Seq(Texts)
    BY <2>1, TextTypes DEF Write
  <2>3. /\ lines + 1 \in Lines /\ lines' \in 0 .. MaxLines
        /\ buffer' \in [Streams -> Seq(Texts)]
        /\ routed' \in [Streams -> SUBSET Lines]
    BY <2>1, <2>2, WriteTypes
  <2>4. late' \in [Streams -> SUBSET Lines]
    BY <2>1, <2>3 DEF TypeOK
  <2> QED
    BY <1>2, <2>3, <2>4 DEF Log, TypeOK
<1>3. ASSUME NEW k \in Loggers, LogToConsole(k)
      PROVE  TypeOK'
  BY <1>3, ConstantsAssumption DEF LogToConsole, TypeOK
<1>4. ASSUME NEW s \in Streams, Stream(s) \/ Handshake(s) \/ Quit(s)
      PROVE  TypeOK'
  <2>1. CASE Stream(s)
    BY <2>1 DEF Stream, Goto, TypeOK, Handlers, Chans
  <2>2. CASE Handshake(s)
    BY <2>2 DEF Handshake, TypeOK, Handlers
  <2>3. CASE Quit(s)
    BY <2>3 DEF Quit, Goto, TypeOK, Handlers, Chans
  <2> QED
    BY <1>4, <2>1, <2>2, <2>3
<1>5. ASSUME NEW s \in Streams, SetDefaultLogger(s) \/ SetDriverLogger(s)
      PROVE  TypeOK'
  <2>1. CASE SetDefaultLogger(s)
    BY <2>1 DEF SetDefaultLogger, SetLogger, Goto, TypeOK, Chans, Loggers
  <2>2. CASE SetDriverLogger(s)
    BY <2>2 DEF SetDriverLogger, SetLogger, Goto, TypeOK, Chans, Loggers
  <2> QED
    BY <1>5, <2>1, <2>2
<1>6. ASSUME NEW s \in Streams, Tick(s)
      PROVE  TypeOK'
  <2>1. data' \in [Streams -> Seq(Texts)]
    BY <1>6, TextTypes DEF Tick, TypeOK
  <2> QED
    BY <1>6, <2>1 DEF Tick, Goto, TypeOK, Chans
<1>7. ASSUME NEW s \in Streams, Send(s)
      PROVE  TypeOK'
  <2>1. data[s] \in Seq(Texts) /\ data[s] # <<>> /\ sent[s] \in Seq(Texts)
    BY <1>7 DEF Send, TypeOK
  <2>2. Tail(data[s]) \in Seq(Texts) /\ Append(sent[s], Head(data[s])) \in Seq(Texts)
    BY <2>1
  <2>3. /\ data' = [data EXCEPT ![s] = Tail(data[s])]
        /\ sent' = [sent EXCEPT ![s] = Append(sent[s], Head(data[s]))]
    BY <1>7 DEF Send
  <2>4. data' \in [Streams -> Seq(Texts)] /\ sent' \in [Streams -> Seq(Texts)]
    BY <2>2, <2>3 DEF TypeOK
  <2> QED
    BY <1>7, <2>3, <2>4 DEF Send, TypeOK
<1>8. ASSUME NEW s \in Streams, Reset(s)
      PROVE  TypeOK'
  BY <1>8 DEF Reset, Goto, TypeOK, Chans
<1>9. ASSUME NEW s \in Streams, RestoreDefaultLogger(s) \/ RestoreDriverLogger(s)
      PROVE  TypeOK'
  <2>1. CASE RestoreDefaultLogger(s)
    BY <2>1 DEF RestoreDefaultLogger, SetLogger, Goto, TypeOK, Chans, Loggers
  <2>2. CASE RestoreDriverLogger(s)
    <3>1. buffer' \in [Streams -> Seq(Texts)]
      BY <2>2, TextTypes DEF RestoreDriverLogger, TypeOK
    <3> QED
      BY <2>2, <3>1 DEF RestoreDriverLogger, SetLogger, Goto, TypeOK, Chans, Loggers
  <2> QED
    BY <1>9, <2>1, <2>2
<1>10. ASSUME NEW s \in Streams, NEW k \in Loggers, TickWhileWriting(s, k)
       PROVE  TypeOK'
  <2>1. Append(buffer[s], lines + 1) \in Seq(Texts)
    BY <1>10, TextTypes DEF TickWhileWriting, Write
  <2>2. /\ lines + 1 \in Lines /\ lines' \in 0 .. MaxLines
        /\ buffer' \in [Streams -> Seq(Texts)]
        /\ routed' \in [Streams -> SUBSET Lines]
    BY <1>10, <2>1, WriteTypes DEF TickWhileWriting
  <2>3. late' \in [Streams -> SUBSET Lines] /\ data' \in [Streams -> Seq(Texts)]
    BY <1>10, <2>2, TextTypes DEF TickWhileWriting, TypeOK
  <2> QED
    BY <1>10, <2>2, <2>3 DEF TickWhileWriting, Goto, TypeOK, Chans
<1>11. ASSUME NEW s \in Streams, NEW k \in Loggers, ResetWhileWriting(s, k)
       PROVE  TypeOK'
  <2>1. PICK b \in {<<>>, Append(buffer[s], lines + 1)} : Write(k, b)
    BY <1>11 DEF ResetWhileWriting
  <2>2. b \in Seq(Texts)
    BY <2>1, TextTypes DEF Write
  <2>3. /\ lines + 1 \in Lines /\ lines' \in 0 .. MaxLines
        /\ buffer' \in [Streams -> Seq(Texts)]
        /\ routed' \in [Streams -> SUBSET Lines]
    BY <1>11, <2>1, <2>2, WriteTypes DEF ResetWhileWriting
  <2>4. late' \in [Streams -> SUBSET Lines]
    BY <1>11, <2>3 DEF ResetWhileWriting, TypeOK
  <2> QED
    BY <1>11, <2>3, <2>4 DEF ResetWhileWriting, Goto, TypeOK, Chans
<1> QED
  BY <1>1, <1>2, <1>3, <1>4, <1>5, <1>6, <1>7, <1>8, <1>9, <1>10, <1>11
     DEF Next, LogChan

LEMMA StartPreserved ==
  ASSUME TypeInv, [Next]_vars
  PROVE  TypeInv'
<1>1. CASE UNCHANGED vars
  BY <1>1, TypesPreserved DEF TypeInv, vars
<1>2. ASSUME NEW k \in Loggers, Log(k) \/ LogToConsole(k)
      PROVE  TypeInv'
  BY <1>2, TypesPreserved DEF TypeInv, Log, LogToConsole
<1>3. ASSUME NEW s \in Streams, Stream(s) \/ Handshake(s) \/ Quit(s)
      PROVE  TypeInv'
  <2>1. \A o \in Streams \ {s} : handler'[o] = handler[o] /\ chan'[o] = chan[o]
    BY <1>3 DEF Stream, Handshake, Quit, Goto, TypeInv, TypeOK
  <2>2. handler'[s] # "unused"
    BY <1>3 DEF Stream, Handshake, Quit, TypeInv, TypeOK
  <2> QED
    BY <2>1, <2>2, TypesPreserved DEF TypeInv
<1>4. ASSUME NEW s \in Streams, LogChan(s)
      PROVE  TypeInv'
  <2>1. chan[s] # "unused" /\ handler' = handler
        /\ \A o \in Streams \ {s} : chan'[o] = chan[o]
    BY <1>4 DEF LogChan, SetDefaultLogger, SetDriverLogger, Tick, Send, Reset,
         RestoreDefaultLogger, RestoreDriverLogger, SetLogger, Goto, TypeInv, TypeOK
  <2> QED
    BY <2>1, TypesPreserved DEF TypeInv
<1>5. ASSUME NEW s \in Streams, NEW k \in Loggers,
             TickWhileWriting(s, k) \/ ResetWhileWriting(s, k)
      PROVE  TypeInv'
  BY <1>5, TypesPreserved
     DEF TypeInv, TypeOK, TickWhileWriting, ResetWhileWriting, Goto
<1> QED
  BY <1>1, <1>2, <1>3, <1>4, <1>5 DEF Next

-----------------------------------------------------------------------------
(* No line is lost but a late one.                                         *)

LEMMA OwnersPreserved ==
  ASSUME LogInv, [Next]_vars
  PROVE  \A s \in Streams : \A k \in Loggers : logger'[k] = s => Started(s)'
<1> SUFFICES ASSUME NEW s \in Streams, NEW k \in Loggers, logger'[k] = s
             PROVE  Started(s)'
  OBVIOUS
<1>1. ASSUME UNCHANGED <<logger, chan>>
      PROVE  Started(s)'
  BY <1>1 DEF LogInv, Started
<1>2. ASSUME NEW t \in Streams, SetDefaultLogger(t) \/ SetDriverLogger(t)
      PROVE  Started(s)'
  BY <1>2 DEF LogInv, TypeInv, TypeOK, Started, SetDefaultLogger, SetDriverLogger,
       SetLogger, Goto, Loggers
<1>3. ASSUME NEW t \in Streams, RestoreDefaultLogger(t) \/ RestoreDriverLogger(t)
      PROVE  Started(s)'
  <2>1. /\ chan'[t] \in {"quitDriver", "ended"}
        /\ \A o \in Streams \ {t} : chan'[o] = chan[o]
        /\ logger'[k] \in {Stdout, logger[k]}
    BY <1>3 DEF LogInv, TypeInv, TypeOK, RestoreDefaultLogger, RestoreDriverLogger,
         SetLogger, Goto
  <2>2. Started(s)
    BY <2>1, ConstantsAssumption DEF LogInv
  <2> QED
    BY <2>1, <2>2 DEF Started
<1>4. ASSUME NEW t \in Streams, UNCHANGED logger, chan'[t] \notin {"unused", "program"},
             \A o \in Streams \ {t} : chan'[o] = chan[o]
      PROVE  Started(s)'
  BY <1>4 DEF LogInv, Started
<1>5. ASSUME NEW t \in Streams, Stream(t)
      PROVE  Started(s)'
  BY <1>5 DEF LogInv, TypeInv, TypeOK, Started, Stream, Goto
<1>6. CASE UNCHANGED vars
  BY <1>6, <1>1 DEF vars
<1>7. ASSUME NEW l \in Loggers, Log(l) \/ LogToConsole(l)
      PROVE  Started(s)'
  BY <1>7, <1>1 DEF Log, LogToConsole
<1>8. ASSUME NEW t \in Streams, Handshake(t) \/ Send(t)
      PROVE  Started(s)'
  BY <1>8, <1>1 DEF Handshake, Send
<1>9. ASSUME NEW t \in Streams, Tick(t) \/ Reset(t) \/ Quit(t)
      PROVE  Started(s)'
  BY <1>9, <1>4 DEF Tick, Reset, Quit, Goto, LogInv, TypeInv, TypeOK
<1>10. ASSUME NEW t \in Streams, NEW l \in Loggers,
              TickWhileWriting(t, l) \/ ResetWhileWriting(t, l)
       PROVE  Started(s)'
  BY <1>10, <1>4 DEF TickWhileWriting, ResetWhileWriting, Goto, LogInv, TypeInv, TypeOK
<1> QED
  BY <1>2, <1>3, <1>5, <1>6, <1>7, <1>8, <1>9, <1>10 DEF Next, LogChan

\* What another stream does, and what logs to another one, is no matter.
LEMMA KeptFrame ==
  ASSUME NEW s \in Streams, Kept(s),
         chan'[s] = chan[s], routed'[s] = routed[s], late'[s] = late[s],
         sent'[s] = sent[s], data'[s] = data[s], buffer'[s] = buffer[s]
  PROVE  Kept(s)'
BY DEF Kept, Started

\* A line logged to s: while LogChan sends it is late, else it is in the buffer.
LEMMA KeptByLog ==
  ASSUME LogInv, NEW k \in Loggers, Log(k), NEW s \in Streams
  PROVE  Kept(s)'
<1>1. PICK t \in Streams : logger[k] = t /\ Write(k, Append(buffer[t], lines + 1))
        /\ late' = [late EXCEPT
             ![t] = IF chan[t] = "sending" THEN @ \cup {lines + 1} ELSE @]
  BY DEF Log
<1>2. /\ buffer' = [buffer EXCEPT ![t] = Append(buffer[t], lines + 1)]
      /\ routed' = [routed EXCEPT ![t] = @ \cup {lines + 1}]
  BY <1>1 DEF Write
<1>3. UNCHANGED <<chan, sent, data>>
  BY DEF Log
<1>4. CASE s # t
  BY <1>1, <1>2, <1>3, <1>4, KeptFrame DEF LogInv, TypeInv, TypeOK
<1>5. CASE s = t
  <2>1. ToSet(Append(buffer[s], lines + 1)) = ToSet(buffer[s]) \cup {lines + 1}
    BY ToSetOfAppend DEF LogInv, TypeInv, TypeOK
  <2>2. buffer'[s] = Append(buffer[s], lines + 1)
        /\ routed'[s] = routed[s] \cup {lines + 1}
        /\ late'[s] = IF chan[s] = "sending" THEN late[s] \cup {lines + 1} ELSE late[s]
    BY <1>1, <1>2, <1>5 DEF LogInv, TypeInv, TypeOK
  <2>3. Started(s) /\ Kept(s)
    BY <1>1, <1>5 DEF LogInv
  <2> QED
    BY <1>3, <2>1, <2>2, <2>3 DEF Kept, Started
<1> QED
  BY <1>4, <1>5

LEMMA KeptPreserved ==
  ASSUME LogInv, [Next]_vars, NEW s \in Streams
  PROVE  Kept(s)'
<1> USE DEF LogInv, TypeInv, TypeOK
<1>1. CASE UNCHANGED vars
  BY <1>1, KeptFrame DEF vars
<1>2. ASSUME NEW k \in Loggers, LogToConsole(k)
      PROVE  Kept(s)'
  BY <1>2, KeptFrame DEF LogToConsole
<1>3. ASSUME NEW t \in Streams, Stream(t)
      PROVE  Kept(s)'
  BY <1>3, KeptFrame DEF Stream, Goto, Kept, Started
<1>4. ASSUME NEW t \in Streams, Handshake(t)
      PROVE  Kept(s)'
  BY <1>4, KeptFrame DEF Handshake
<1>5. ASSUME NEW t \in Streams, Quit(t)
      PROVE  Kept(s)'
  BY <1>5, KeptFrame DEF Quit, Goto, Kept, Started
<1>6. ASSUME NEW t \in Streams, SetDefaultLogger(t)
      PROVE  Kept(s)'
  BY <1>6, KeptFrame DEF SetDefaultLogger, SetLogger, Goto, Kept, Started
<1>7. ASSUME NEW t \in Streams, SetDriverLogger(t)
      PROVE  Kept(s)'
  BY <1>7, KeptFrame DEF SetDriverLogger, SetLogger, Goto, Kept, Started
<1>8. ASSUME NEW t \in Streams, RestoreDefaultLogger(t)
      PROVE  Kept(s)'
  BY <1>8, KeptFrame DEF RestoreDefaultLogger, SetLogger, Goto, Kept, Started
<1>9. ASSUME NEW t \in Streams, RestoreDriverLogger(t)
      PROVE  Kept(s)'
  BY <1>9, KeptFrame DEF RestoreDriverLogger, SetLogger, Goto, Kept, Started
<1>10. ASSUME NEW t \in Streams, Tick(t)
       PROVE  Kept(s)'
  <2>1. CASE s # t
    BY <1>10, <2>1, KeptFrame DEF Tick, Goto
  <2>2. CASE s = t
    <3>1. ToSet(Append(buffer[s], NoLine)) = ToSet(buffer[s]) \cup {NoLine}
      BY ToSetOfAppend
    <3> QED
      BY <1>10, <2>2, <3>1 DEF Tick, Goto, Kept, Started
  <2> QED
    BY <2>1, <2>2
<1>11. ASSUME NEW t \in Streams, Send(t)
       PROVE  Kept(s)'
  <2>1. CASE s # t
    BY <1>11, <2>1, KeptFrame DEF Send
  <2>2. CASE s = t
    <3>1. /\ chan[s] = "sending" /\ data[s] # <<>>
          /\ chan' = chan /\ routed' = routed /\ late' = late
          /\ data'[s] = Tail(data[s])
          /\ sent'[s] = Append(sent[s], Head(data[s]))
      BY <1>11, <2>2 DEF Send
    <3>2. ToSet(data[s]) \subseteq {Head(data[s])} \cup ToSet(Tail(data[s]))
      BY <3>1, ToSetOfTail
    <3>3. ToSet(Append(sent[s], Head(data[s]))) = ToSet(sent[s]) \cup {Head(data[s])}
      BY ToSetOfAppend
    <3> QED
      BY <3>1, <3>2, <3>3 DEF Kept, Started
  <2> QED
    BY <2>1, <2>2
<1>12. ASSUME NEW t \in Streams, Reset(t)
       PROVE  Kept(s)'
  <2>1. CASE s # t
    BY <1>12, <2>1, KeptFrame DEF Reset, Goto
  <2>2. CASE s = t
    BY <1>12, <2>2, ToSetOfEmpty DEF Reset, Goto, Kept, Started
  <2> QED
    BY <2>1, <2>2
<1>13. ASSUME NEW t \in Streams, NEW k \in Loggers, TickWhileWriting(t, k)
       PROVE  Kept(s)'
  <2>1. /\ buffer' = [buffer EXCEPT ![t] = Append(buffer[t], lines + 1)]
        /\ routed' = [routed EXCEPT ![t] = @ \cup {lines + 1}]
    BY <1>13 DEF TickWhileWriting, Write
  <2>2. CASE s # t
    BY <1>13, <2>1, <2>2, KeptFrame DEF TickWhileWriting, Goto
  <2>3. CASE s = t
    <3>1. ToSet(buffer[s]) \subseteq ToSet(buffer[s] \o <<NoLine, NoLine>>)
      <4>1. <<NoLine, NoLine>> \in Seq(Texts)
        BY DEF Texts
      <4> QED
        BY <4>1, ToSetOfConcat
    <3>2. /\ chan[s] = "select" /\ chan'[s] = "sending" /\ sent' = sent
          /\ data'[s] = buffer[s] \o <<NoLine, NoLine>>
          /\ routed'[s] = routed[s] \cup {lines + 1}
          /\ late'[s] = late[s] \cup {lines + 1}
      BY <1>13, <2>1, <2>3 DEF TickWhileWriting, Goto
    <3> QED
      BY <3>1, <3>2 DEF Kept, Started
  <2> QED
    BY <2>2, <2>3
<1>14. ASSUME NEW t \in Streams, NEW k \in Loggers, ResetWhileWriting(t, k)
       PROVE  Kept(s)'
  <2>1. PICK b \in {<<>>, Append(buffer[t], lines + 1)} : Write(k, b)
    BY <1>14 DEF ResetWhileWriting
  <2>2. /\ buffer' = [buffer EXCEPT ![t] = b]
        /\ routed' = [routed EXCEPT ![t] = @ \cup {lines + 1}]
    BY <1>14, <2>1 DEF ResetWhileWriting, Write
  <2>3. CASE s # t
    BY <1>14, <2>2, <2>3, KeptFrame DEF ResetWhileWriting, Goto
  <2>4. CASE s = t
    <3>1. /\ chan[s] = "sending" /\ chan'[s] = "select" /\ sent' = sent
          /\ data[s] = <<>>
          /\ routed'[s] = routed[s] \cup {lines + 1}
          /\ late'[s] = late[s] \cup {lines + 1}
      BY <1>14, <2>2, <2>4 DEF ResetWhileWriting, Goto
    <3> QED
      BY <3>1, ToSetOfEmpty DEF Kept, Started
  <2> QED
    BY <2>3, <2>4
<1> QED
  BY <1>1, <1>2, <1>3, <1>4, <1>5, <1>6, <1>7, <1>8, <1>9, <1>10, <1>11, <1>12,
     <1>13, <1>14, KeptByLog DEF Next, LogChan

-----------------------------------------------------------------------------
(* A stream is cut off by another one only.                                *)

LEMMA ReturnedPreserved ==
  ASSUME LogInv, [Next]_vars, NEW s \in Streams
  PROVE  QuitIsReturned(s)'
<1> USE DEF LogInv, TypeInv, TypeOK, QuitIsReturned
<1>1. CASE UNCHANGED <<chan, handler>>
  BY <1>1
<1>2. ASSUME NEW t \in Streams, Stream(t) \/ Handshake(t) \/ Quit(t)
      PROVE  QuitIsReturned(s)'
  BY <1>2 DEF Stream, Handshake, Quit, Goto
<1>3. ASSUME NEW t \in Streams, RestoreDefaultLogger(t) \/ RestoreDriverLogger(t)
      PROVE  QuitIsReturned(s)'
  BY <1>3 DEF RestoreDefaultLogger, RestoreDriverLogger, Goto
<1>4. ASSUME NEW t \in Streams,
             SetDefaultLogger(t) \/ SetDriverLogger(t) \/ Tick(t) \/ Reset(t)
      PROVE  QuitIsReturned(s)'
  BY <1>4 DEF SetDefaultLogger, SetDriverLogger, Tick, Reset, Goto
<1>5. ASSUME NEW t \in Streams, NEW k \in Loggers,
             TickWhileWriting(t, k) \/ ResetWhileWriting(t, k)
      PROVE  QuitIsReturned(s)'
  BY <1>5 DEF TickWhileWriting, ResetWhileWriting, Goto
<1>6. ASSUME NEW t \in Streams, Send(t)
      PROVE  QuitIsReturned(s)'
  BY <1>1, <1>6 DEF Send
<1>7. ASSUME NEW k \in Loggers, Log(k) \/ LogToConsole(k)
      PROVE  QuitIsReturned(s)'
  BY <1>1, <1>7 DEF Log, LogToConsole
<1>8. CASE UNCHANGED vars
  BY <1>1, <1>8 DEF vars
<1> QED
  BY <1>2, <1>3, <1>4, <1>5, <1>6, <1>7, <1>8 DEF Next, LogChan

LEMMA CutOffPreserved ==
  ASSUME LogInv, [Next]_vars, NEW k \in Loggers
  PROVE  SetByIsKnown(k)' /\ \A s \in Streams : CutOff(s, k)'
<1> DEFINE Goal == SetByIsKnown(k)' /\ \A s \in Streams : CutOff(s, k)'
<1> USE ConstantsAssumption
    DEF LogInv, TypeInv, TypeOK, QuitIsReturned, SetByIsKnown, CutOff, Owns, Serving,
        GaveBack, Loggers
<1>1. CASE UNCHANGED <<logger, setBy, chan, handler>>
  BY <1>1
<1>2. ASSUME NEW t \in Streams, Stream(t) \/ Handshake(t) \/ Quit(t)
      PROVE  Goal
  BY <1>2 DEF Stream, Handshake, Quit, Goto
\* A stream that serves goes on serving, and no logger is set.
<1>s. ASSUME NEW t \in Streams, UNCHANGED <<logger, setBy, handler>>, Serving(t),
             NEW place \in {"select", "sending"}, Goto(t, place)
      PROVE  Goal
  <2>1. chan' \in [Streams -> Chans] /\ \A s \in Streams \ {t} : chan'[s] = chan[s]
    BY <1>s DEF Goto, Chans
  <2>2. chan'[t] \in {"select", "sending"}
    BY <1>s DEF Goto
  <2>3. SetByIsKnown(k)'
    BY <1>s, <2>1
  <2>4. ASSUME NEW s \in Streams PROVE CutOff(s, k)'
    <3>1. CutOff(s, k) /\ (Owns(s, k)' => Owns(s, k))
      BY <1>s, <2>1
    <3> QED
      BY <1>s, <3>1
  <2> QED
    BY <2>3, <2>4
<1>3. ASSUME NEW t \in Streams, Tick(t) \/ Reset(t)
      PROVE  Goal
  BY <1>s, <1>3 DEF Tick, Reset
<1>4. ASSUME NEW t \in Streams, NEW l \in Loggers,
             TickWhileWriting(t, l) \/ ResetWhileWriting(t, l)
      PROVE  Goal
  BY <1>s, <1>4 DEF TickWhileWriting, ResetWhileWriting
<1>5. ASSUME NEW t \in Streams, SetDefaultLogger(t)
      PROVE  Goal
  BY <1>5 DEF SetDefaultLogger, SetLogger, Goto
<1>6. ASSUME NEW t \in Streams, SetDriverLogger(t)
      PROVE  Goal
  BY <1>6 DEF SetDriverLogger, SetLogger, Goto
<1>7. ASSUME NEW t \in Streams, RestoreDefaultLogger(t)
      PROVE  Goal
  BY <1>7 DEF RestoreDefaultLogger, SetLogger, Goto
<1>8. ASSUME NEW t \in Streams, RestoreDriverLogger(t)
      PROVE  Goal
  BY <1>8 DEF RestoreDriverLogger, SetLogger, Goto
<1>9. ASSUME NEW t \in Streams, Send(t)
      PROVE  Goal
  BY <1>1, <1>9 DEF Send
<1>10. ASSUME NEW l \in Loggers, Log(l) \/ LogToConsole(l)
       PROVE  Goal
  BY <1>1, <1>10 DEF Log, LogToConsole
<1>11. CASE UNCHANGED vars
  BY <1>1, <1>11 DEF vars
<1> QED
  BY <1>2, <1>3, <1>4, <1>5, <1>6, <1>7, <1>8, <1>9, <1>10, <1>11 DEF Next, LogChan

-----------------------------------------------------------------------------
LEMMA InitLogInv == Init => LogInv
<1> SUFFICES ASSUME Init
             PROVE  LogInv
  OBVIOUS
<1>1. TypeOK
  BY ConstantsAssumption DEF Init, TypeOK, Handlers, Chans
<1>2. \A s \in Streams : \A k \in Loggers : logger[k] # s /\ CutOff(s, k)
  BY ConstantsAssumption DEF Init, CutOff, Owns, Serving
<1>4. \A k \in Loggers : SetByIsKnown(k)
  BY ConstantsAssumption DEF Init, SetByIsKnown
<1>5. \A s \in Streams : QuitIsReturned(s)
  BY DEF Init, QuitIsReturned
<1>3. \A s \in Streams : Kept(s)
  BY DEF Init, Kept, Started
<1> QED
  BY <1>1, <1>2, <1>3, <1>4, <1>5 DEF Init, LogInv, TypeInv

LEMMA NextLogInv == LogInv /\ [Next]_vars => LogInv'
<1> SUFFICES ASSUME LogInv, [Next]_vars
             PROVE  LogInv'
  OBVIOUS
<1>1. TypeInv'
  BY StartPreserved DEF LogInv
<1> QED
  BY <1>1, ReturnedPreserved, CutOffPreserved, OwnersPreserved, KeptPreserved DEF LogInv

LEMMA LogInvHolds == Spec => []LogInv
BY InitLogInv, NextLogInv, PTL DEF Spec

(***************************************************************************)
(* The types of the log stream; data is empty unless LogChan is sending.   *)
(***************************************************************************)
THEOREM TypeCorrect == Spec => []TypeOK
<1>1. LogInv => TypeOK
  BY DEF LogInv, TypeInv
<1> QED
  BY <1>1, LogInvHolds, PTL

(***************************************************************************)
(* Whatever is written to the buffer of a stream reaches the client, or    *)
(* can still reach it, but for lines written between String and Reset: the *)
(* races of both with a writer lose no other line.                         *)
(***************************************************************************)
THEOREM OnlyLateLinesCorrect == Spec => []OnlyLateLinesAreLost
<1>1. LogInv => OnlyLateLinesAreLost
  BY DEF LogInv, Kept, OnlyLateLinesAreLost, Serving
<1> QED
  BY <1>1, LogInvHolds, PTL

(***************************************************************************)
(* A stream that serves keeps both loggers until another one sets them:    *)
(* that one has set the logger last, and has it or has given it back.      *)
(***************************************************************************)
THEOREM CutOffCorrect == Spec => []CutOffByAnother
<1>1. LogInv => CutOffByAnother
  BY DEF LogInv, CutOff, SetByIsKnown, Owns, Serving, CutOffByAnother, Loggers
<1> QED
  BY <1>1, LogInvHolds, PTL
=============================================================================
