----------------------------- MODULE BufferStream -----------------------------
(***************************************************************************)
(* What a DPI buffer promises to the applications that use it, without     *)
(* rings, segments, flags or requests: every appender has a stream of its  *)
(* own, the consumer receives a prefix of each stream, and it is told that *)
(* a stream has ended only when the appender has closed it and all of it   *)
(* has been received.  Byte i of a stream is the number i.                 *)
(***************************************************************************)
EXTENDS Integers, Sequences

CONSTANTS
  Appenders,   \* the appenders that joined the buffer
  Sizes        \* the sizes they append

VARIABLES
  appended,    \* appended[w]: bytes passed to append
  closed,      \* closed[w]: close has been called
  delivered,   \* delivered[w]: the bytes received
  open         \* the streams whose end has not been reported

vars == <<appended, closed, delivered, open>>

Init ==
  /\ appended  = [w \in Appenders |-> 0]
  /\ closed    = [w \in Appenders |-> FALSE]
  /\ delivered = [w \in Appenders |-> << >>]
  /\ open      = Appenders

AppendBytes(w) ==
  /\ ~closed[w]
  /\ \E n \in Sizes : appended' = [appended EXCEPT ![w] = @ + n]
  /\ UNCHANGED <<closed, delivered, open>>

CloseStream(w) ==
  /\ closed' = [closed EXCEPT ![w] = TRUE]
  /\ UNCHANGED <<appended, delivered, open>>

Deliver(w) ==
  /\ w \in open
  /\ \E n \in 0 .. appended[w] - Len(delivered[w]) :
       delivered' = [delivered EXCEPT ![w] = @ \o [i \in 1 .. n |-> Len(@) + i]]
  /\ UNCHANGED <<appended, closed, open>>

ReportEnd(w) ==
  /\ closed[w] /\ Len(delivered[w]) = appended[w]
  /\ open' = open \ {w}
  /\ UNCHANGED <<appended, closed, delivered>>

Next ==
  \E w \in Appenders : AppendBytes(w) \/ CloseStream(w) \/ Deliver(w) \/ ReportEnd(w)

SafeSpec == Init /\ [][Next]_vars

\* A stream that has been closed is received to its end.
Drained == \A w \in Appenders : closed[w] ~> w \notin open

Spec == SafeSpec /\ Drained

===============================================================================
