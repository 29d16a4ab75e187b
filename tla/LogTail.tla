------------------------------ MODULE LogTail -------------------------------
(***************************************************************************)
(* lstk logs: the backlog is read in passes over a growing suffix of the   *)
(* container's log until enough lines survive the filter, kept in a ring   *)
(* and printed; with --follow a second stream then shows what arrives. The *)
(* emulator writes all the while. A line of the log is its number.         *)
(***************************************************************************)
EXTENDS Naturals, FiniteSets, Sequences

CONSTANTS
  LogRequests,         \* what may be asked: [tail, follow, verbose, invalid]
  LineKinds,           \* the kinds of line the emulator writes
  MaxLines,            \* bound on the length of the log
  BacklogFetchFactor,  \* lines fetched per line asked for
  MaxBacklogFetch      \* beyond it, the whole log is fetched

ASSUME LogConstants ==
  /\ BacklogFetchFactor \in Nat \ {0, 1} /\ MaxBacklogFetch \in Nat /\ MaxLines \in Nat
  /\ \A r \in LogRequests : r.tail \in Nat

VARIABLES
  ltReq, ltAt, ltEnd,
  ltLog,      \* the kinds of the lines written so far
  ltFetch,    \* the suffix asked for; 0 is all of it
  ltRead,     \* the lines this pass has read: from, up to
  ltRing,     \* the ring buffer
  ltPrinted   \* the lines printed

ltVars == <<ltReq, ltAt, ltEnd, ltLog, ltFetch, ltRead, ltRing, ltPrinted>>

AllLines == MaxLines + 1   \* --tail all
ShouldFilter(kind) == kind \in {"no docker", "http", "handlers", "provider"}
Survivors(from, to) == {n \in from..to : ~ShouldFilter(ltLog[n])}
-----------------------------------------------------------------------------
\* The ring: slots 0..n-1, the next one to write, whether all are written.
NewLineRing(n) == [buf |-> [i \in 0..(n - 1) |-> 0], next |-> 0, full |-> FALSE]
Slots(r) == Cardinality(DOMAIN r.buf)
RingAdd(r, line) ==
  LET next == (r.next + 1) % Slots(r)
  IN  [buf |-> [r.buf EXCEPT ![r.next] = line], next |-> next, full |-> r.full \/ next = 0]
RingLen(r) == IF r.full THEN Slots(r) ELSE r.next
RingReset(r) == [r EXCEPT !.next = 0, !.full = FALSE]
RingLines(r) ==
  [i \in 1..RingLen(r) |-> r.buf[((IF r.full THEN r.next ELSE 0) + i - 1) % Slots(r)]]
-----------------------------------------------------------------------------
LogInit ==
  /\ ltReq \in LogRequests
  /\ \E n \in 0..MaxLines : n <= 2 /\ ltLog \in [1..n -> LineKinds]
  /\ ltAt = "begin" /\ ltEnd = "busy"
  /\ ltFetch = 0
  /\ ltRead = [from |-> 1, to |-> 0]
  /\ ltRing = NewLineRing(0)
  /\ ltPrinted = <<>>

LtAt(at) == ltAt = at /\ ltEnd = "busy"
LtStop(why) == ltEnd' = why /\ UNCHANGED ltAt
LtGo(at) == ltAt' = at /\ UNCHANGED ltEnd

\* The daemon resolves a tail when the stream is opened.
OpensAt(tail) ==
  ltRead' = [from |-> IF tail < Len(ltLog) THEN Len(ltLog) - tail + 1 ELSE 1,
             to |-> IF tail < Len(ltLog) THEN Len(ltLog) - tail ELSE 0]
Unbounded(fetch) == fetch = 0 \/ fetch > MaxBacklogFetch
TailOf(fetch) == IF Unbounded(fetch) THEN AllLines ELSE fetch

StartsLogs ==
  /\ LtAt("begin")
  /\ UNCHANGED <<ltReq, ltLog, ltPrinted>>
  /\ \/ ltReq.invalid /\ LtStop("refused") /\ UNCHANGED <<ltFetch, ltRead, ltRing>>
     \/ /\ ~ltReq.invalid
        /\ LtStop("not running") /\ UNCHANGED <<ltFetch, ltRead, ltRing>>
     \/ /\ ~ltReq.invalid /\ (ltReq.tail = AllLines \/ ltReq.verbose)
        /\ LtGo("stream") /\ OpensAt(ltReq.tail)
        /\ UNCHANGED <<ltFetch, ltRing>>
     \/ /\ ~ltReq.invalid /\ ltReq.tail # AllLines /\ ~ltReq.verbose
        /\ IF ltReq.tail = 0
           THEN (IF ltReq.follow THEN LtGo("follow") ELSE LtStop("done")) /\ UNCHANGED <<ltFetch, ltRead, ltRing>>
           ELSE /\ LtGo("pass")
                /\ ltFetch' = ltReq.tail * BacklogFetchFactor
                /\ ltRing' = NewLineRing(ltReq.tail)
                /\ OpensAt(TailOf(ltReq.tail * BacklogFetchFactor))

\* One line of the pass: it is counted, and kept if it survives.
ReadsLine ==
  LET n == ltRead.to + 1
  IN  /\ LtAt("pass") /\ n <= Len(ltLog)
      /\ ltRead' = [ltRead EXCEPT !.to = n]
      /\ ltRing' = IF ShouldFilter(ltLog[n]) THEN ltRing ELSE RingAdd(ltRing, n)
      /\ UNCHANGED <<ltReq, ltAt, ltEnd, ltLog, ltFetch, ltPrinted>>

\* The pass meets the end of the log. It is enough if it was unbounded, if
\* the ring is full, or if it came up short.
\* Mutant: a pass that read exactly what it asked for counts as short.
EnoughAtFetch(raw, ring) == Unbounded(ltFetch) \/ RingLen(ring) = ltReq.tail \/ raw <= ltFetch
Enough(raw, ring) == Unbounded(ltFetch) \/ RingLen(ring) = ltReq.tail \/ raw < ltFetch
PassEnds ==
  LET raw == ltRead.to - ltRead.from + 1
  IN  /\ LtAt("pass") /\ ltRead.to = Len(ltLog)
      /\ UNCHANGED <<ltReq, ltLog>>
      /\ \/ /\ Enough(raw, ltRing)
            /\ ltPrinted' = RingLines(ltRing)
            /\ IF ltReq.follow THEN LtGo("follow") ELSE LtStop("done")
            /\ UNCHANGED <<ltFetch, ltRead, ltRing>>
         \/ /\ ~Enough(raw, ltRing)
            /\ ltFetch' = ltFetch * BacklogFetchFactor
            /\ ltRing' = RingReset(ltRing)
            /\ OpensAt(TailOf(ltFetch * BacklogFetchFactor))
            /\ UNCHANGED <<ltAt, ltEnd, ltPrinted>>
         \/ LtStop("failed") /\ UNCHANGED <<ltFetch, ltRead, ltRing, ltPrinted>>

\* After the backlog the stream is opened anew, with a tail of 0; lines
\* written in between are not shown.
FollowsOn ==
  /\ LtAt("follow")
  /\ LtGo("stream") /\ OpensAt(0)
  /\ UNCHANGED <<ltReq, ltLog, ltFetch, ltRing, ltPrinted>>

StreamsLine ==
  LET n == ltRead.to + 1
  IN  /\ LtAt("stream") /\ n <= Len(ltLog)
      /\ ltRead' = [ltRead EXCEPT !.to = n]
      /\ ltPrinted' = IF ltReq.verbose \/ ~ShouldFilter(ltLog[n]) THEN Append(ltPrinted, n) ELSE ltPrinted
      /\ UNCHANGED <<ltReq, ltAt, ltEnd, ltLog, ltFetch, ltRing>>
StreamEnds ==
  /\ LtAt("stream")
  /\ ltReq.follow \/ ltRead.to = Len(ltLog)
  /\ LtStop("done")
  /\ UNCHANGED <<ltReq, ltLog, ltFetch, ltRead, ltRing, ltPrinted>>

EmulatorLogs(kind) ==
  /\ Len(ltLog) < MaxLines
  /\ ltLog' = Append(ltLog, kind)
  /\ UNCHANGED <<ltReq, ltAt, ltEnd, ltFetch, ltRead, ltRing, ltPrinted>>

LogNext ==
  \/ StartsLogs \/ ReadsLine \/ PassEnds \/ FollowsOn \/ StreamsLine \/ StreamEnds
  \/ \E k \in LineKinds : EmulatorLogs(k)
LogSpec == LogInit /\ [][LogNext]_ltVars

LogTypeOK ==
  /\ ltEnd \in {"busy", "done", "refused", "not running", "failed"}
  /\ ltFetch \in Nat /\ RingLen(ltRing) <= MaxLines
  /\ \A i \in DOMAIN ltPrinted : ltPrinted[i] \in 1..Len(ltLog)
-----------------------------------------------------------------------------
\* s, in ascending order, is the n greatest of S, or all there are.
Ascending(s) == \A i, j \in DOMAIN s : i < j => s[i] < s[j]
Members(s) == {s[i] : i \in DOMAIN s}
LastOf(s, S, n) ==
  /\ Ascending(s) /\ Members(s) \subseteq S /\ Len(s) <= n
  /\ \A x \in S \ Members(s) : Len(s) = n /\ \A y \in Members(s) : x < y

\* However the emulator writes between and during the passes, a backlog is
\* the last lines that survive the filter, as many as were asked for or all
\* there are up to where the reading ended, and what follows it is newer:
\* no line is shown twice or out of order. (logs.go)
TailExact ==
  /\ Ascending(ltPrinted)
  /\ ltFetch > 0 /\ (ltAt = "follow" \/ (ltAt = "pass" /\ ltEnd = "done")) =>
       LastOf(ltPrinted, Survivors(1, ltRead.to), ltReq.tail)
  /\ ltAt = "stream" /\ ltFetch = 0 /\ ltReq.tail = AllLines /\ ~ltReq.verbose =>
       Members(ltPrinted) = Survivors(1, ltRead.to)
=============================================================================
