-------------------------- MODULE ConsoleRawProofs --------------------------
(***************************************************************************)
(* Theorems about the raw console, for every length of its buffers, every   *)
(* amount of traffic and every number of sessions.                          *)
(***************************************************************************)
EXTENDS ConsoleRaw, SequenceTheorems, TLAPS

USE RawAssumption

(* The types that TypeOK leaves out.                                       *)
Typed ==
  /\ consoleToLocal \in Seq(Nat) /\ localToConsole \in Seq(Nat)
  /\ localWritten \in Seq(Nat) /\ consoleWritten \in Seq(Nat)
  /\ attaches \in 0 .. MaxAttach

(* A session leaves at most one source of a kind behind, and none of a      *)
(* pseudo-terminal where there is only a stream.                            *)
Forgotten ==
  /\ \A s \in Sources : stale[s] + Bit(attached) <= attaches
  /\ ~direct => stale["consoleInput"] = 0 /\ stale["consoleOutput"] = 0

(* detach empties the buffers and the pointers.                             *)
Cleared == ~attached => consoleToLocal = << >> /\ localToConsole = << >> /\ dead = {}

(* Until a session has failed its watch is there, and if it writes to       *)
(* stdout so is the source of that.                                         *)
Remembered ==
  attached /\ closed = << >> => "watch" \notin dead /\ (stdio => "output" \notin dead)

RawInv == /\ TypeOK /\ Typed /\ Forgotten /\ Cleared /\ Remembered
          /\ StreamForwards
-----------------------------------------------------------------------------
(* Bytes in buffers.                                                       *)

(* A stretch of numbered bytes is as long as it says.                      *)
LEMMA BytesEffect ==
  ASSUME NEW a \in Nat, NEW n \in Nat
  PROVE  /\ Bytes(a + 1, a + n) \in Seq(Nat) /\ Len(Bytes(a + 1, a + n)) = n
         /\ \A i \in 1 .. n : Bytes(a + 1, a + n)[i] = a + i
<1>1. (a + n) - (a + 1) + 1 = n
  OBVIOUS
<1>2. Bytes(a + 1, a + n) = [i \in 1 .. n |-> (a + 1) + i - 1]
  BY <1>1 DEF Bytes
<1>3. \A i \in 1 .. n : (a + 1) + i - 1 \in Nat
  OBVIOUS
<1> QED
  BY <1>2, <1>3

(* The bytes that follow those there are continue the count.                *)
LEMMA BytesContinue ==
  ASSUME NEW a \in Nat, NEW n \in Nat
  PROVE  Bytes(1, a) \o Bytes(a + 1, a + n) = Bytes(1, a + n)
<1> DEFINE s == Bytes(1, a)
           t == Bytes(a + 1, a + n)
           u == Bytes(1, a + n)
<1>0. ASSUME NEW m \in Nat
      PROVE  /\ Bytes(1, m) \in Seq(Nat) /\ Len(Bytes(1, m)) = m
             /\ \A i \in 1 .. m : Bytes(1, m)[i] = i
  BY DEF Bytes
<1>1. s \in Seq(Nat) /\ Len(s) = a /\ \A i \in 1 .. a : s[i] = i
  BY <1>0
<1>2. t \in Seq(Nat) /\ Len(t) = n /\ \A i \in 1 .. n : t[i] = a + i
  BY BytesEffect
<1>3. u \in Seq(Nat) /\ Len(u) = a + n /\ \A i \in 1 .. a + n : u[i] = i
  <2>1. a + n \in Nat
    OBVIOUS
  <2> QED
    BY ONLY <1>0, <2>1
<1> HIDE DEF s, t, u
<1>4. s \o t \in Seq(Nat) /\ Len(s \o t) = a + n
  BY <1>1, <1>2, ConcatProperties
<1>5. \A i \in 1 .. a + n : (s \o t)[i] = i
  BY <1>1, <1>2, ConcatProperties
<1>6. s \o t = u
  BY <1>3, <1>4, <1>5, SeqEqual
<1> QED
  BY <1>6 DEF s, t, u

(* Concatenation of bytes is associative.                                  *)
LEMMA BytesAssociate ==
  ASSUME NEW s \in Seq(Nat), NEW t \in Seq(Nat), NEW u \in Seq(Nat)
  PROVE  (s \o t) \o u = s \o (t \o u)
<1> DEFINE a == (s \o t) \o u
           b == s \o (t \o u)
<1>1. /\ s \o t \in Seq(Nat) /\ Len(s \o t) = Len(s) + Len(t)
      /\ \A i \in 1 .. Len(s) + Len(t) :
           (s \o t)[i] = IF i <= Len(s) THEN s[i] ELSE t[i - Len(s)]
  BY ConcatProperties
<1>2. /\ t \o u \in Seq(Nat) /\ Len(t \o u) = Len(t) + Len(u)
      /\ \A i \in 1 .. Len(t) + Len(u) :
           (t \o u)[i] = IF i <= Len(t) THEN t[i] ELSE u[i - Len(t)]
  BY ConcatProperties
<1>3. /\ a \in Seq(Nat) /\ Len(a) = Len(s \o t) + Len(u)
      /\ \A i \in 1 .. Len(s \o t) + Len(u) :
           a[i] = IF i <= Len(s \o t) THEN (s \o t)[i] ELSE u[i - Len(s \o t)]
  BY <1>1, ConcatProperties
<1>4. /\ b \in Seq(Nat) /\ Len(b) = Len(s) + Len(t \o u)
      /\ \A i \in 1 .. Len(s) + Len(t \o u) :
           b[i] = IF i <= Len(s) THEN s[i] ELSE (t \o u)[i - Len(s)]
  BY <1>2, ConcatProperties
<1>5. Len(s) \in Nat /\ Len(t) \in Nat /\ Len(u) \in Nat
  OBVIOUS
<1> HIDE DEF a, b
<1>6. Len(a) = Len(s) + Len(t) + Len(u) /\ Len(b) = Len(a)
  BY <1>1, <1>2, <1>3, <1>4, <1>5
<1>7. ASSUME NEW i \in 1 .. Len(s) + Len(t) + Len(u) PROVE a[i] = b[i]
  <2>0. i \in 1 .. Len(s \o t) + Len(u) /\ i \in 1 .. Len(s) + Len(t \o u)
    BY <1>1, <1>2, <1>5
  <2>1. CASE i <= Len(s)
    <3>1. i \in 1 .. Len(s) + Len(t) /\ i <= Len(s \o t)
      BY <1>1, <1>5, <2>1
    <3>2. a[i] = s[i]
      <4>1. a[i] = (s \o t)[i]
        BY ONLY <1>3, <2>0, <3>1
      <4> QED
        BY ONLY <1>1, <2>1, <3>1, <4>1
    <3>3. b[i] = s[i]
      BY <1>2, <1>4, <1>5, <2>1
    <3> QED
      BY <3>2, <3>3
  <2>2. CASE i > Len(s) /\ i <= Len(s) + Len(t)
    <3>1. /\ i \in 1 .. Len(s) + Len(t) /\ i <= Len(s \o t) /\ ~(i <= Len(s))
          /\ i - Len(s) \in 1 .. Len(t) + Len(u) /\ i - Len(s) <= Len(t)
      BY <1>1, <1>5, <2>2
    <3>2. a[i] = t[i - Len(s)]
      <4>1. a[i] = (s \o t)[i]
        BY ONLY <1>3, <2>0, <3>1
      <4> QED
        BY ONLY <1>1, <3>1, <4>1
    <3>3. b[i] = (t \o u)[i - Len(s)]
      BY ONLY <1>4, <2>0, <3>1
    <3>4. (t \o u)[i - Len(s)] = t[i - Len(s)]
      BY <1>2, <3>1
    <3> QED
      BY <3>2, <3>3, <3>4
  <2>3. CASE i > Len(s) + Len(t)
    <3>1. /\ ~(i <= Len(s \o t)) /\ ~(i <= Len(s))
          /\ i - Len(s) \in 1 .. Len(t) + Len(u) /\ ~(i - Len(s) <= Len(t))
          /\ (i - Len(s)) - Len(t) = i - (Len(s) + Len(t))
      BY <1>1, <1>5, <2>3
    <3>2. a[i] = u[i - (Len(s) + Len(t))]
      <4>1. a[i] = u[i - Len(s \o t)]
        BY ONLY <1>3, <2>0, <3>1
      <4>2. Len(s \o t) = Len(s) + Len(t)
        BY ONLY <1>1
      <4> QED
        BY ONLY <4>1, <4>2
    <3>3. b[i] = (t \o u)[i - Len(s)]
      BY ONLY <1>4, <2>0, <3>1
    <3>4. (t \o u)[i - Len(s)] = u[i - (Len(s) + Len(t))]
      BY <1>2, <3>1
    <3> QED
      BY <3>2, <3>3, <3>4
  <2> QED
    BY <1>5, <2>1, <2>2, <2>3
<1>8. a = b
  BY <1>3, <1>4, <1>6, <1>7, SeqEqual
<1> QED
  BY <1>8 DEF a, b

(* n bytes that leave a buffer: what has left it and what it holds are     *)
(* together what they were.                                                *)
LEMMA Moves ==
  ASSUME NEW out \in Seq(Nat), NEW buf \in Seq(Nat), NEW n \in 0 .. Len(buf)
  PROVE  /\ out \o SubSeq(buf, 1, n) \in Seq(Nat)
         /\ Rest(buf, n) \in Seq(Nat) /\ Len(Rest(buf, n)) = Len(buf) - n
         /\ (out \o SubSeq(buf, 1, n)) \o Rest(buf, n) = out \o buf
<1> DEFINE sent == SubSeq(buf, 1, n)
           kept == SubSeq(buf, n + 1, Len(buf))
<1>0. Len(buf) \in Nat /\ \A i \in 1 .. Len(buf) : buf[i] \in Nat
  BY LenProperties, ElementOfSeq
<1>1. sent \in Seq(Nat) /\ kept \in Seq(Nat) /\ Len(kept) = Len(buf) - n
  BY <1>0, SubSeqProperties
<1>2. sent \o kept = buf
  <2>1. 1 \in 1 .. Len(buf) + 1 /\ n \in 0 .. Len(buf) /\ Len(buf) \in n .. Len(buf)
    BY <1>0
  <2>2. n \in 1 - 1 .. Len(buf)
    BY <2>1
  <2>3. SubSeq(buf, 1, n) \o SubSeq(buf, n + 1, Len(buf)) = SubSeq(buf, 1, Len(buf))
    BY <2>1, <2>2, ConcatAdjacentSubSeq
  <2> QED
    BY <2>3, SubSeqFull
<1> HIDE DEF sent, kept
<1>3. out \o sent \in Seq(Nat)
  BY <1>1, ConcatProperties
<1>4. (out \o sent) \o kept = out \o (sent \o kept)
  BY <1>1, BytesAssociate, Zenon
<1> QED
  BY <1>1, <1>2, <1>3, <1>4 DEF sent, kept, Rest

(* n bytes that enter a buffer.                                            *)
LEMMA Takes ==
  ASSUME NEW buf \in Seq(Nat), NEW a \in Nat, NEW n \in Nat
  PROVE  /\ buf \o Bytes(a + 1, a + n) \in Seq(Nat)
         /\ Len(buf \o Bytes(a + 1, a + n)) = Len(buf) + n
<1> DEFINE t == Bytes(a + 1, a + n)
<1>1. t \in Seq(Nat) /\ Len(t) = n
  BY BytesEffect
<1> HIDE DEF t
<1>2. buf \o t \in Seq(Nat) /\ Len(buf \o t) = Len(buf) + n
  BY <1>1, ConcatProperties
<1> QED
  BY <1>2 DEF t

(* What has left a buffer and what it holds are the first a bytes.          *)
InOrder(out, buf, a) == out \o buf = Bytes(1, a)

(* The n bytes after the first a enter a buffer.                            *)
Extended(buf, a, n) == buf \o Bytes(a + 1, a + n)

(* They keep the order, if what the buffer holds follows what has left it.  *)
LEMMA TakesInOrder ==
  ASSUME NEW out \in Seq(Nat), NEW buf \in Seq(Nat), NEW a \in Nat, NEW n \in Nat,
         InOrder(out, buf, a)
  PROVE  InOrder(out, Extended(buf, a, n), a + n)
<1> DEFINE t == Bytes(a + 1, a + n)
<1>1. t \in Seq(Nat)
  BY BytesEffect
<1>2. Bytes(1, a) \o t = Bytes(1, a + n)
  BY BytesContinue
<1> HIDE DEF t
<1>3. (out \o buf) \o t = out \o (buf \o t)
  BY <1>1, BytesAssociate, Zenon
<1> QED
  BY <1>2, <1>3 DEF t, InOrder, Extended

-----------------------------------------------------------------------------
(* Event sources.                                                          *)

(* Where a callback has run, sources are forgotten only by detach.         *)
LEMMA UpdateEventsEffect ==
  ASSUME TypeOK, NEW s \in Sources \cup {"none"}, NEW viaStale \in BOOLEAN,
         viaStale => s \in Sources /\ stale[s] > 0,
         UpdateEvents(s, viaStale)
  PROVE  /\ stale' \in [Sources -> Nat] /\ \A t \in Sources : stale'[t] <= stale[t]
         /\ dead' \subseteq Sources
         /\ ~attached' => dead' = {}
         /\ "output" \in dead' => "output" \in dead \/ ~stdio
<1>1. stale' \in [Sources -> Nat] /\ \A t \in Sources : stale'[t] <= stale[t]
  <2>1. stale \in [Sources -> Nat]
    BY DEF TypeOK
  <2>2. CASE ~viaStale
    BY <2>1, <2>2 DEF UpdateEvents
  <2>3. CASE viaStale
    <3>1. PICK b \in {0, 1} : stale' = [stale EXCEPT ![s] = @ - 1 + b]
      BY <2>3 DEF UpdateEvents, Bit
    <3>2. s \in Sources /\ stale[s] - 1 + b \in Nat /\ stale[s] - 1 + b <= stale[s]
      BY <2>1, <2>3
    <3> QED
      BY <2>1, <3>1, <3>2
  <2> QED
    BY <2>2, <2>3
<1>2. dead' \subseteq Sources
  BY DEF TypeOK, UpdateEvents, Sources
<1>3. ~attached' => dead' = {}
  BY DEF UpdateEvents, Need
<1>4. "output" \in dead' => "output" \in dead \/ ~stdio
  BY DEF UpdateEvents, Resets
<1> QED
  BY <1>1, <1>2, <1>3, <1>4

(* Sources forgotten are counted against the calls of attach.              *)
LEMMA FewerForgotten ==
  ASSUME TypeOK, Typed, Forgotten, stale' \in [Sources -> Nat],
         \A s \in Sources : stale'[s] <= stale[s],
         UNCHANGED << direct, attached >>, attaches' \in {attaches, attaches + 1}
  PROVE  Forgotten'
<1>1. Bit(attached) \in Nat /\ attaches \in Nat /\ attaches' \in Nat /\ attaches <= attaches'
  BY DEF Bit, Typed
<1>2. \A s \in Sources : /\ stale[s] \in Nat /\ stale'[s] \in Nat
                         /\ stale[s] + Bit(attached) <= attaches
  BY DEF TypeOK, Forgotten
<1>3. \A s \in Sources : stale'[s] + Bit(attached') <= attaches'
  BY <1>1, <1>2
<1>4. ~direct' => stale'["consoleInput"] = 0 /\ stale'["consoleOutput"] = 0
  BY <1>2 DEF Forgotten, Sources
<1> QED
  BY <1>3, <1>4 DEF Forgotten

(* ... and stay within their bound.                                        *)
LEMMA FewerTyped ==
  ASSUME TypeOK, stale' \in [Sources -> Nat], \A s \in Sources : stale'[s] <= stale[s]
  PROVE  \A s \in Sources : stale'[s] \in 0 .. MaxAttach + 1
<1> SUFFICES ASSUME NEW s \in Sources PROVE stale'[s] \in 0 .. MaxAttach + 1
  OBVIOUS
<1>1. stale[s] \in 0 .. MaxAttach + 1 /\ stale'[s] \in Nat /\ stale'[s] <= stale[s]
  BY DEF TypeOK
<1> QED
  BY <1>1

(* What detach leaves behind.                                              *)
LEMMA DetachedEffect ==
  ASSUME TypeOK, Forgotten, attached, NEW running \in Sources \cup {"watch", "none"},
         running \in Sources => Live(running) \/ stale[running] > 0,
         Detached(running)
  PROVE  /\ stale' \in [Sources -> Nat]
         /\ \A s \in Sources : stale'[s] <= stale[s] + 1
         /\ ~direct => stale'["consoleInput"] = 0 /\ stale'["consoleOutput"] = 0
<1>1. stale \in [Sources -> Nat]
  BY DEF TypeOK
<1>2. ASSUME NEW s \in Sources
      PROVE  /\ stale'[s] \in Nat /\ stale'[s] <= stale[s] + 1
             /\ ~Live(s) => stale'[s] <= stale[s]
  <2>1. stale'[s] = stale[s] + Bit(Live(s)) - Bit(s = running)
    BY DEF Detached
  <2>2. s = running => Live(s) \/ stale[s] > 0
    OBVIOUS
  <2> QED
    BY <1>1, <2>1, <2>2 DEF Bit
<1>3. stale' \in [Sources -> Nat]
  BY <1>2 DEF Detached
<1>4. ~direct => ~Live("consoleInput") /\ ~Live("consoleOutput")
  BY DEF Live, Need
<1> QED
  BY <1>1, <1>2, <1>3, <1>4 DEF Forgotten, Sources

(* What a detach that is refused leaves behind.                             *)
LEMMA DetachIdleEffect ==
  ASSUME TypeOK, NEW running \in Sources \cup {"watch"}, NEW viaStale \in BOOLEAN,
         viaStale => running \in Sources /\ stale[running] > 0,
         DetachIdle(running, viaStale)
  PROVE  /\ stale' \in [Sources -> Nat] /\ \A s \in Sources : stale'[s] <= stale[s]
         /\ dead' \subseteq Sources \cup {"watch"} /\ (~attached => dead' = dead)
<1>1. stale \in [Sources -> Nat] /\ dead \subseteq Sources \cup {"watch"}
  BY DEF TypeOK
<1> QED
  BY <1>1 DEF DetachIdle
-----------------------------------------------------------------------------
(* The invariant, one lemma for each kind of step.                          *)

(* Steps that keep the console attached, or not attached, and move bytes.   *)
LEMMA TrafficStep ==
  ASSUME RawInv, NEW s \in Sources \cup {"none"}, NEW viaStale \in BOOLEAN,
         viaStale => s \in Sources /\ stale[s] > 0,
         UpdateEvents(s, viaStale),
         UNCHANGED << direct, attached, stdio, closed, attaches >>,
         localEOF' \in BOOLEAN,
         {consoleToLocal', localToConsole', localWritten', consoleWritten'} \subseteq Seq(Nat),
         consoleToLocalOffset' <= BufferLength, localToConsoleOffset' <= BufferLength,
         consoleRead' \in 0 .. ConsoleTotal, stdinRead' \in 0 .. StdinTotal,
         ~attached => UNCHANGED buffers,
         StreamForwards'
  PROVE  RawInv'
<1>1. /\ stale' \in [Sources -> Nat] /\ \A t \in Sources : stale'[t] <= stale[t]
      /\ dead' \subseteq Sources /\ (~attached' => dead' = {})
      /\ "output" \in dead' => "output" \in dead \/ ~stdio
  BY UpdateEventsEffect DEF RawInv
<1>2. Typed'
  BY DEF RawInv, Typed
<1>3. Forgotten'
  BY <1>1, FewerForgotten DEF RawInv
<1>4. TypeOK'
  <2>1. \A t \in Sources : stale'[t] \in 0 .. MaxAttach + 1
    BY <1>1, FewerTyped DEF RawInv
  <2> QED
    BY <1>1, <2>1 DEF RawInv, TypeOK
<1>5. Cleared'
  BY <1>1 DEF RawInv, Cleared, buffers
<1>6. Remembered'
  BY <1>1 DEF RawInv, Remembered, Sources
<1> QED
  BY <1>2, <1>3, <1>4, <1>5, <1>6 DEF RawInv

(* detach, whether a callback runs it or the user of the console.           *)
LEMMA DetachedStep ==
  ASSUME RawInv, attached, NEW running \in Sources \cup {"watch", "none"},
         running \in Sources => Live(running) \/ stale[running] > 0,
         Detached(running), closed' \in Seq({"clean", "error"}),
         UNCHANGED << attaches, traffic >>
  PROVE  RawInv'
<1>1. /\ stale' \in [Sources -> Nat]
      /\ \A s \in Sources : stale'[s] <= stale[s] + 1
      /\ ~direct => stale'["consoleInput"] = 0 /\ stale'["consoleOutput"] = 0
  BY DetachedEffect DEF RawInv
<1>2. /\ attached' = FALSE /\ dead' = {} /\ consoleToLocal' = << >> /\ localToConsole' = << >>
      /\ UNCHANGED << direct, stdio, localEOF >>
  BY DEF Detached
<1>3. \A s \in Sources : stale'[s] \in Nat /\ stale'[s] <= attaches
  <2>1. \A s \in Sources : stale[s] \in Nat /\ stale[s] + 1 <= attaches
    BY DEF RawInv, TypeOK, Forgotten, Bit
  <2>2. attaches \in Nat
    BY DEF RawInv, Typed
  <2>3. \A s \in Sources : stale'[s] \in Nat
    BY <1>1
  <2> QED
    BY <1>1, <2>1, <2>2, <2>3
<1>4. Forgotten' /\ Typed'
  BY <1>1, <1>2, <1>3 DEF RawInv, Typed, Forgotten, Bit, traffic
<1>5. TypeOK'
  <2>1. \A t \in Sources : stale'[t] \in 0 .. MaxAttach + 1
    BY <1>1, <1>3 DEF RawInv, Typed
  <2>2. Len(<< >>) <= BufferLength
    OBVIOUS
  <2> QED
    BY <1>1, <1>2, <2>1, <2>2 DEF RawInv, TypeOK, traffic, consoleToLocalOffset, localToConsoleOffset
<1> QED
  BY <1>2, <1>4, <1>5 DEF RawInv, Cleared, Remembered, StreamForwards

(* A close that detach refuses: the session has failed.                    *)
LEMMA DetachIdleStep ==
  ASSUME RawInv, NEW running \in Sources \cup {"watch"}, NEW viaStale \in BOOLEAN,
         viaStale => running \in Sources /\ stale[running] > 0,
         DetachIdle(running, viaStale),
         closed' \in Seq({"clean", "error"}), closed' # << >>,
         UNCHANGED << attaches, traffic >>
  PROVE  RawInv'
<1>1. /\ stale' \in [Sources -> Nat] /\ \A s \in Sources : stale'[s] <= stale[s]
      /\ dead' \subseteq Sources \cup {"watch"} /\ (~attached => dead' = dead)
  BY DetachIdleEffect DEF RawInv
<1>2. UNCHANGED << direct, attached, stdio, buffers, localEOF >>
  BY DEF DetachIdle
<1>3. Forgotten' /\ Typed'
  <2>1. Forgotten'
    BY <1>1, <1>2, FewerForgotten DEF RawInv
  <2>2. Typed'
    BY <1>2 DEF RawInv, Typed, traffic, buffers
  <2> QED
    BY <2>1, <2>2
<1>4. TypeOK'
  <2>1. \A t \in Sources : stale'[t] \in 0 .. MaxAttach + 1
    BY <1>1, FewerTyped DEF RawInv
  <2> QED
    BY <1>1, <1>2, <2>1 DEF RawInv, TypeOK, traffic, buffers,
                            consoleToLocalOffset, localToConsoleOffset
<1>5. Cleared' /\ StreamForwards'
  BY <1>1, <1>2 DEF RawInv, Cleared, StreamForwards, buffers, traffic
<1> QED
  BY <1>3, <1>4, <1>5 DEF RawInv, Remembered

(* Every callback that closes the console.                                 *)
LEMMA CloseStep ==
  ASSUME RawInv, NEW running \in Sources \cup {"watch"}, NEW viaStale \in BOOLEAN,
         running \in Sources => Fires(running, viaStale), running = "watch" => ~viaStale,
         NEW how \in {"clean", "error"}, Close(running, viaStale, how), UNCHANGED traffic
  PROVE  RawInv'
<1>1. closed' \in Seq({"clean", "error"}) /\ closed' # << >>
  BY AppendProperties DEF Close, RawInv, TypeOK
<1>2. viaStale => running \in Sources /\ stale[running] > 0
  BY DEF Fires
<1>3. running \in Sources => Live(running) \/ stale[running] > 0
  BY DEF Fires
<1> QED
  BY <1>1, <1>2, <1>3, DetachedStep, DetachIdleStep DEF Close

(* At the start nothing is open and nothing has been moved.                *)
LEMMA InitRaw == Init => RawInv
<1> SUFFICES ASSUME Init PROVE RawInv
  OBVIOUS
<1>1. Typed /\ Cleared /\ Remembered /\ StreamForwards
  BY DEF Init, Typed, Cleared, Remembered, StreamForwards
<1>3. TypeOK
  <2>1. << >> \in Seq({"clean", "error"}) /\ Len(<< >>) = 0 /\ 0 <= BufferLength
    OBVIOUS
  <2>2. 0 \in 0 .. MaxAttach + 1 /\ 0 \in 0 .. ConsoleTotal /\ 0 \in 0 .. StdinTotal
    OBVIOUS
  <2> QED
    BY <2>1, <2>2 DEF Init, TypeOK, consoleToLocalOffset, localToConsoleOffset
<1>2. Forgotten
  BY DEF Init, Forgotten, Bit, Sources
<1> QED
  BY <1>1, <1>2, <1>3 DEF RawInv

(* attach begins with empty buffers and with no pointer that is not live.   *)
LEMMA AttachStep ==
  ASSUME RawInv, Attach PROVE RawInv'
<1>1. /\ stale' \in [Sources -> Nat] /\ \A t \in Sources : stale'[t] <= stale[t]
      /\ dead' = {}
  <2>1. dead = {}
    BY DEF RawInv, Cleared, Attach
  <2>2. dead' = {}
    BY <2>1 DEF Attach, UpdateEvents
  <2> QED
    BY <2>2, UpdateEventsEffect DEF RawInv, Attach
<1>2. Bytes(1, 0) = << >>
  BY DEF Bytes
<1>3. Typed' /\ Cleared' /\ Remembered' /\ StreamForwards'
  BY <1>1, <1>2 DEF Attach, RawInv, Typed, Cleared, Remembered, StreamForwards, buffers
<1>4. Forgotten'
  <2>1. \A s \in Sources : stale'[s] + 1 <= attaches + 1
    <3>1. \A s \in Sources : stale[s] \in Nat /\ stale'[s] \in Nat /\ stale[s] <= attaches
      BY <1>1 DEF Attach, RawInv, TypeOK, Forgotten, Bit
    <3>2. attaches \in Nat
      BY DEF RawInv, Typed
    <3> QED
      BY <1>1, <3>1, <3>2
  <2>2. ~direct => stale'["consoleInput"] = 0 /\ stale'["consoleOutput"] = 0
    BY <1>1 DEF RawInv, TypeOK, Forgotten, Sources
  <2> QED
    BY <2>1, <2>2 DEF Attach, Forgotten, Bit
<1>5. TypeOK'
  <2>1. \A t \in Sources : stale'[t] \in 0 .. MaxAttach + 1
    BY <1>1, FewerTyped DEF RawInv
  <2> QED
    BY <1>1, <2>1 DEF Attach, RawInv, TypeOK, buffers, consoleToLocalOffset, localToConsoleOffset
<1> QED
  BY <1>3, <1>4, <1>5 DEF RawInv
-----------------------------------------------------------------------------
(* The steps that move bytes.                                              *)

(* Reading from the guest and writing to it, over a stream.                 *)
LEMMA StreamReadWriteStep ==
  ASSUME RawInv, StreamReadWrite PROVE RawInv'
<1>1. PICK n \in 0 .. BufferLength - consoleToLocalOffset, m \in 0 .. localToConsoleOffset :
        /\ n + m > 0
        /\ n > 0 => WatchReadable
        /\ m > 0 => WatchWritable
        /\ Receives(n)
        /\ consoleWritten' = consoleWritten \o SubSeq(localToConsole, 1, m)
        /\ localToConsole' = Rest(localToConsole, m)
  BY DEF StreamReadWrite
<1>2. attached
  <2>1. localToConsoleOffset \in Nat /\ (n > 0 \/ m > 0)
    BY <1>1 DEF RawInv, Typed, localToConsoleOffset
  <2> QED
    BY <1>1, <2>1 DEF WatchReadable, WatchWritable, Watch
<1>3. /\ consoleToLocalOffset \in Nat /\ localToConsoleOffset \in Nat
      /\ consoleToLocalOffset <= BufferLength /\ localToConsoleOffset <= BufferLength
      /\ consoleRead \in Nat /\ stdinRead \in Nat
  BY DEF RawInv, TypeOK, Typed, consoleToLocalOffset, localToConsoleOffset
<1>4. n \in Nat /\ m \in Nat /\ n + consoleToLocalOffset <= BufferLength
  BY <1>3
<1>5. /\ consoleToLocal' \in Seq(Nat)
      /\ consoleToLocalOffset' <= BufferLength
      /\ localWritten \o consoleToLocal = Bytes(1, consoleRead)
           => localWritten \o consoleToLocal' = Bytes(1, consoleRead')
  <2>1. /\ consoleToLocal \in Seq(Nat) /\ localWritten \in Seq(Nat)
        /\ consoleToLocal' = consoleToLocal \o Bytes(consoleRead + 1, consoleRead + n)
        /\ consoleRead' = consoleRead + n
    BY <1>1 DEF Receives, RawInv, Typed
  <2>2. /\ consoleToLocal' \in Seq(Nat) /\ Len(consoleToLocal') = Len(consoleToLocal) + n
        /\ localWritten \o consoleToLocal = Bytes(1, consoleRead)
             => localWritten \o consoleToLocal' = Bytes(1, consoleRead')
    <3>1. consoleRead \in Nat /\ n \in Nat
      BY <1>3, <1>4
    <3>2. /\ consoleToLocal \o Bytes(consoleRead + 1, consoleRead + n) \in Seq(Nat)
          /\ Len(consoleToLocal \o Bytes(consoleRead + 1, consoleRead + n))
               = Len(consoleToLocal) + n
      BY <2>1, <3>1, Takes
    <3>3. ASSUME localWritten \o consoleToLocal = Bytes(1, consoleRead)
          PROVE  localWritten \o (consoleToLocal \o Bytes(consoleRead + 1, consoleRead + n)) = Bytes(1, consoleRead + n)
      <4>1. InOrder(localWritten, consoleToLocal, consoleRead)
        BY <3>3 DEF InOrder
      <4>2. InOrder(localWritten, Extended(consoleToLocal, consoleRead, n), consoleRead + n)
        BY ONLY <2>1, <3>1, <4>1, TakesInOrder
      <4> QED
        BY ONLY <4>2 DEF InOrder, Extended
    <3> QED
      BY ONLY <2>1, <3>2, <3>3
  <2> QED
    BY <1>3, <1>4, <2>2 DEF consoleToLocalOffset
<1>6. /\ consoleWritten' \in Seq(Nat) /\ localToConsole' \in Seq(Nat)
      /\ localToConsoleOffset' <= BufferLength
      /\ consoleWritten' \o localToConsole' = consoleWritten \o localToConsole
  <2>1. /\ localToConsole \in Seq(Nat) /\ consoleWritten \in Seq(Nat)
        /\ m \in 0 .. Len(localToConsole)
    BY <1>3 DEF RawInv, Typed, localToConsoleOffset
  <2>2. /\ consoleWritten' \in Seq(Nat) /\ localToConsole' \in Seq(Nat)
        /\ Len(localToConsole') = Len(localToConsole) - m
        /\ consoleWritten' \o localToConsole' = consoleWritten \o localToConsole
    BY <1>1, <2>1, Moves
  <2> QED
    BY <1>3, <1>4, <2>2 DEF localToConsoleOffset
<1>7. consoleRead' \in 0 .. ConsoleTotal
  BY <1>1, <1>3, <1>4 DEF Receives
<1>8. UNCHANGED << direct, attached, stdio, localEOF, closed, attaches, localWritten, stdinRead >>
      /\ UpdateEvents("none", FALSE)
  BY DEF StreamReadWrite
<1>9. StreamForwards'
  BY <1>5, <1>6, <1>8 DEF RawInv, StreamForwards
<1> QED
  BY <1>2, <1>5, <1>6, <1>7, <1>8, <1>9, TrafficStep DEF RawInv, TypeOK, Typed

(* Reading the local input; a source left behind reads nothing.             *)
LEMMA LocalReadStep ==
  ASSUME RawInv, NEW viaStale \in BOOLEAN, LocalRead(viaStale) PROVE RawInv'
<1> DEFINE room == IF attached /\ stdio THEN BufferLength - localToConsoleOffset ELSE 0
<1>1. /\ localToConsoleOffset \in Nat /\ localToConsoleOffset <= BufferLength
      /\ stdinRead \in Nat
  BY DEF RawInv, TypeOK, Typed, localToConsoleOffset
<1>2. PICK n \in 0 .. room :
        /\ stdinRead + n <= StdinTotal
        /\ n = 0 => room = 0 \/ stdinRead = StdinTotal
        /\ localEOF' = (localEOF \/ n = 0)
        /\ localToConsole' = localToConsole \o Bytes(stdinRead + 1, stdinRead + n)
        /\ stdinRead' = stdinRead + n
  BY DEF LocalRead, LocalReads
<1>3. /\ n \in Nat /\ (attached => n + localToConsoleOffset <= BufferLength)
      /\ ~attached => n = 0 /\ localToConsole = << >>
  BY <1>1, <1>2 DEF RawInv, Cleared
<1>4. /\ localToConsole' \in Seq(Nat) /\ localToConsoleOffset' = localToConsoleOffset + n
      /\ consoleWritten \o localToConsole = Bytes(1, stdinRead)
           => consoleWritten \o localToConsole' = Bytes(1, stdinRead')
  <2>1. localToConsole \in Seq(Nat) /\ consoleWritten \in Seq(Nat)
    BY DEF RawInv, Typed
  <2>2. /\ localToConsole' \in Seq(Nat) /\ Len(localToConsole') = Len(localToConsole) + n
        /\ consoleWritten \o localToConsole = Bytes(1, stdinRead)
             => consoleWritten \o localToConsole' = Bytes(1, stdinRead')
    <3>1. stdinRead \in Nat /\ n \in Nat
      BY <1>1, <1>3
    <3>2. /\ localToConsole \o Bytes(stdinRead + 1, stdinRead + n) \in Seq(Nat)
          /\ Len(localToConsole \o Bytes(stdinRead + 1, stdinRead + n)) = Len(localToConsole) + n
      BY <2>1, <3>1, Takes
    <3>3. ASSUME consoleWritten \o localToConsole = Bytes(1, stdinRead)
          PROVE  consoleWritten \o (localToConsole \o Bytes(stdinRead + 1, stdinRead + n)) = Bytes(1, stdinRead + n)
      <4>1. InOrder(consoleWritten, localToConsole, stdinRead)
        BY <3>3 DEF InOrder
      <4>2. InOrder(consoleWritten, Extended(localToConsole, stdinRead, n), stdinRead + n)
        BY ONLY <2>1, <3>1, <4>1, TakesInOrder
      <4> QED
        BY ONLY <4>2 DEF InOrder, Extended
    <3> QED
      BY ONLY <1>2, <3>2, <3>3
  <2> QED
    BY <2>2 DEF localToConsoleOffset
<1>5. localToConsoleOffset' <= BufferLength
  BY <1>1, <1>3, <1>4 DEF localToConsoleOffset
<1>6. ~attached => localToConsole' = localToConsole
  <2>1. ASSUME ~attached PROVE Len(localToConsole') = 0
    BY <1>3, <1>4, <2>1 DEF localToConsoleOffset
  <2> QED
    BY <1>3, <1>4, <2>1
<1>7. /\ UNCHANGED << direct, attached, stdio, consoleToLocal, closed, attaches,
                      consoleRead, localWritten, consoleWritten >>
      /\ UpdateEvents("stdin", viaStale)
      /\ viaStale => stale["stdin"] > 0
  BY DEF LocalRead, Fires
<1>8. StreamForwards'
  BY <1>4, <1>7 DEF RawInv, StreamForwards
<1>9. stdinRead' \in 0 .. StdinTotal /\ localEOF' \in BOOLEAN /\ "stdin" \in Sources
  BY <1>1, <1>2, <1>3 DEF RawInv, TypeOK, Sources
<1>10. consoleToLocalOffset' <= BufferLength
  BY <1>7 DEF RawInv, TypeOK, consoleToLocalOffset
<1> QED
  BY <1>4, <1>5, <1>6, <1>7, <1>8, <1>9, <1>10, TrafficStep DEF RawInv, TypeOK, Typed, buffers

(* Writing what the console has said, to the local output ...               *)
LEMMA LocalWriteStep ==
  ASSUME RawInv, NEW viaStale \in BOOLEAN, LocalWrite(viaStale) PROVE RawInv'
<1>1. PICK n \in 0 .. consoleToLocalOffset :
        /\ localWritten' = localWritten \o SubSeq(consoleToLocal, 1, n)
        /\ consoleToLocal' = Rest(consoleToLocal, n)
  BY DEF LocalWrite
<1>2. /\ consoleToLocalOffset \in Nat /\ n \in Nat /\ consoleToLocalOffset <= BufferLength
  BY DEF RawInv, TypeOK, Typed, consoleToLocalOffset
<1>3. /\ localWritten' \in Seq(Nat) /\ consoleToLocal' \in Seq(Nat)
      /\ consoleToLocalOffset' = consoleToLocalOffset - n
      /\ localWritten' \o consoleToLocal' = localWritten \o consoleToLocal
  BY <1>1, <1>2, Moves DEF RawInv, Typed, consoleToLocalOffset
<1>4. /\ UNCHANGED << direct, attached, stdio, localToConsole, localEOF, closed, attaches,
                      consoleRead, stdinRead, consoleWritten >>
      /\ UpdateEvents("output", viaStale)
      /\ viaStale => stale["output"] > 0
  BY DEF LocalWrite, Fires
<1>5. StreamForwards'
  BY <1>3, <1>4 DEF RawInv, StreamForwards
<1>6. ~attached => consoleToLocal' = consoleToLocal
  <2>1. ASSUME ~attached PROVE consoleToLocal = << >> /\ Len(consoleToLocal') = 0
    BY <1>2, <1>3, <2>1 DEF RawInv, Cleared, consoleToLocalOffset
  <2> QED
    BY <1>3, <2>1
<1>7. consoleToLocalOffset' <= BufferLength /\ localToConsoleOffset' <= BufferLength
  BY <1>2, <1>3, <1>4 DEF RawInv, TypeOK, consoleToLocalOffset, localToConsoleOffset
<1>8. "output" \in Sources
  BY DEF Sources
<1> QED
  BY <1>3, <1>4, <1>5, <1>6, <1>7, <1>8, TrafficStep DEF RawInv, TypeOK, Typed, buffers

(* ... or, where the console is a pseudo-terminal, back to it.              *)
LEMMA ConsoleWriteStep ==
  ASSUME RawInv, NEW viaStale \in BOOLEAN, ConsoleWrite(viaStale) PROVE RawInv'
<1>1. PICK n \in 0 .. consoleToLocalOffset :
        /\ consoleWritten' = consoleWritten \o SubSeq(consoleToLocal, 1, n)
        /\ consoleToLocal' = Rest(consoleToLocal, n)
  BY DEF ConsoleWrite
<1>2. /\ consoleToLocalOffset \in Nat /\ n \in Nat /\ consoleToLocalOffset <= BufferLength
  BY DEF RawInv, TypeOK, Typed, consoleToLocalOffset
<1>3. /\ consoleWritten' \in Seq(Nat) /\ consoleToLocal' \in Seq(Nat)
      /\ consoleToLocalOffset' = consoleToLocalOffset - n
  BY <1>1, <1>2, Moves DEF RawInv, Typed, consoleToLocalOffset
<1>4. /\ UNCHANGED << direct, attached, stdio, localToConsole, localEOF, closed, attaches,
                      consoleRead, localWritten, stdinRead >>
      /\ UpdateEvents("consoleOutput", viaStale)
      /\ viaStale => stale["consoleOutput"] > 0
  BY DEF ConsoleWrite, Fires
<1>5. direct
  BY DEF ConsoleWrite, Fires, Live, Need, RawInv, Forgotten
<1>6. ~attached => consoleToLocal' = consoleToLocal
  <2>1. ASSUME ~attached PROVE consoleToLocal = << >> /\ Len(consoleToLocal') = 0
    BY <1>2, <1>3, <2>1 DEF RawInv, Cleared, consoleToLocalOffset
  <2> QED
    BY <1>3, <2>1
<1>7. consoleToLocalOffset' <= BufferLength /\ localToConsoleOffset' <= BufferLength
  BY <1>2, <1>3, <1>4 DEF RawInv, TypeOK, consoleToLocalOffset, localToConsoleOffset
<1>8. "consoleOutput" \in Sources /\ StreamForwards'
  BY <1>4, <1>5 DEF Sources, StreamForwards
<1> QED
  BY <1>3, <1>4, <1>6, <1>7, <1>8, TrafficStep DEF RawInv, TypeOK, Typed, buffers

(* Reading the pseudo-terminal.                                            *)
LEMMA ConsoleReadStep ==
  ASSUME RawInv, NEW viaStale \in BOOLEAN, ConsoleRead(viaStale) PROVE RawInv'
<1>1. PICK n \in 1 .. BufferLength - consoleToLocalOffset : Receives(n)
  BY DEF ConsoleRead
<1>2. /\ consoleToLocalOffset \in Nat /\ consoleToLocalOffset <= BufferLength
      /\ consoleRead \in Nat /\ n \in Nat
  BY DEF RawInv, TypeOK, Typed, consoleToLocalOffset
<1>3. consoleToLocal' \in Seq(Nat) /\ consoleToLocalOffset' = consoleToLocalOffset + n
  BY <1>1, <1>2, Takes DEF Receives, RawInv, Typed, consoleToLocalOffset
<1>4. /\ UNCHANGED << direct, attached, stdio, localToConsole, localEOF, closed,
                      attaches, localWritten, stdinRead, consoleWritten >>
      /\ UpdateEvents("consoleInput", viaStale) /\ attached
      /\ viaStale => stale["consoleInput"] > 0
  BY DEF ConsoleRead, Fires
<1>5. direct
  BY DEF ConsoleRead, Fires, Live, Need, RawInv, Forgotten
<1>6. consoleToLocalOffset' <= BufferLength /\ localToConsoleOffset' <= BufferLength
  BY <1>2, <1>3, <1>4 DEF RawInv, TypeOK, consoleToLocalOffset, localToConsoleOffset
<1>7. "consoleInput" \in Sources /\ StreamForwards'
  BY <1>4, <1>5 DEF Sources, StreamForwards
<1>8. consoleRead' \in 0 .. ConsoleTotal
  BY <1>1, <1>2 DEF Receives
<1> QED
  BY <1>3, <1>4, <1>6, <1>7, <1>8, TrafficStep DEF RawInv, TypeOK, Typed

(* The callbacks that end a session.                                        *)
LEMMA ClosingStep ==
  ASSUME RawInv, NEW viaStale \in BOOLEAN,
         \/ StreamError \/ LocalReadClose(viaStale) \/ LocalWriteClose(viaStale)
         \/ ConsoleReadClose(viaStale) \/ ConsoleWriteClose(viaStale)
  PROVE  RawInv'
<1> USE DEF Sources
<1>1. CASE StreamError
  BY <1>1, CloseStep DEF StreamError
<1>2. CASE LocalReadClose(viaStale)
  BY <1>2, CloseStep DEF LocalReadClose
<1>3. CASE LocalWriteClose(viaStale)
  BY <1>3, CloseStep DEF LocalWriteClose
<1>4. CASE ConsoleReadClose(viaStale)
  BY <1>4, CloseStep DEF ConsoleReadClose
<1>5. CASE ConsoleWriteClose(viaStale)
  BY <1>5, CloseStep DEF ConsoleWriteClose
<1> QED
  BY <1>1, <1>2, <1>3, <1>4, <1>5

(* The end of file of a stream; a terminal that cannot be restored keeps    *)
(* the watch.                                                              *)
LEMMA StreamEOFStep ==
  ASSUME RawInv, StreamEOF PROVE RawInv'
<1>1. /\ closed' \in Seq({"clean", "error"}) /\ closed' # << >> /\ attached
      /\ UNCHANGED << attaches, traffic >>
  BY AppendProperties DEF StreamEOF, RawInv, TypeOK, WatchReadable, Watch
<1>2. CASE Detached("watch")
  BY <1>1, <1>2, DetachedStep DEF Sources
<1>3. CASE UNCHANGED << direct, attached, stdio, buffers, localEOF, stale, dead >>
  BY <1>1, <1>3 DEF RawInv, TypeOK, Typed, Forgotten, Cleared, Remembered, StreamForwards,
                    Bit, buffers, traffic, consoleToLocalOffset, localToConsoleOffset
<1> QED
  BY <1>2, <1>3 DEF StreamEOF

(* A call of detach.                                                       *)
LEMMA DetachStep ==
  ASSUME RawInv, Detach PROVE RawInv'
<1>1. closed' \in Seq({"clean", "error"}) /\ "none" \notin Sources
  BY DEF Detach, RawInv, TypeOK, Sources
<1> QED
  BY <1>1, DetachedStep DEF Detach

(* RawInv holds in every state of every behaviour.                         *)
LEMMA Invariance == Spec => []RawInv
<1>1. ASSUME RawInv, [Next]_vars PROVE RawInv'
  <2>1. CASE UNCHANGED vars
    BY <1>1, <2>1 DEF RawInv, TypeOK, Typed, Forgotten, Cleared, Remembered, StreamForwards, vars,
                      Bit, buffers, traffic, consoleToLocalOffset, localToConsoleOffset
  <2>2. CASE Next
    BY <1>1, <2>2, AttachStep, DetachStep, StreamReadWriteStep, StreamEOFStep, LocalReadStep,
       LocalWriteStep, ConsoleReadStep, ConsoleWriteStep, ClosingStep DEF Next
  <2> QED
    BY <1>1, <2>1, <2>2
<1> QED
  BY <1>1, InitRaw, PTL DEF Spec
-----------------------------------------------------------------------------
(* The types of the variables; the buffers never exceed their allocation.   *)
THEOREM TypeCorrect == Spec => []TypeOK
<1>1. RawInv => TypeOK
  BY DEF RawInv
<1> QED
  BY <1>1, Invariance, PTL

(* While a stream console is attached, what was read from the guest is      *)
(* what was written to the local output and what is still buffered, in      *)
(* order, whatever the sources an earlier session left behind do; and the   *)
(* same of the input (the two buffers of console-raw.c:79-85).              *)
THEOREM BytesConserved == Spec => []StreamForwards
<1>1. RawInv => StreamForwards
  BY DEF RawInv
<1> QED
  BY <1>1, Invariance, PTL

(* Input that was read is on its way: an attached stream console that has   *)
(* not failed has a watch, and the output source if it writes to stdout     *)
(* (update_events).                                                        *)
THEOREM BytesOnTheirWay == Spec => []StreamNeverStranded
<1>1. RawInv => StreamNeverStranded
  BY DEF RawInv, Remembered, StreamNeverStranded, Watch, Live, Need
<1> QED
  BY <1>1, Invariance, PTL

ClosesOnce ==
  ~direct /\ closed' \notin {closed, << >>} => attached /\ (attached' => stdio /\ TermFails)

(* A stream console says "closed" only while it is attached, and is         *)
(* detached by then unless its terminal could not be restored               *)
(* (bin/virt-sandbox.c:30-53 counts on one close per console).              *)
THEOREM ClosedWhileAttached == Spec => StreamClosesOnce
<1>1. ASSUME RawInv, [Next]_vars PROVE ClosesOnce
  <2> SUFFICES ASSUME ~direct, closed' # closed, closed' # << >>
               PROVE  attached /\ (attached' => stdio /\ TermFails)
    BY DEF ClosesOnce
  <2>1. ASSUME NEW running, NEW viaStale \in BOOLEAN, NEW how, Close(running, viaStale, how),
               attached
        PROVE  attached' => stdio /\ TermFails
    BY <2>1 DEF Close, Detached, DetachIdle
  <2>2. CASE StreamError
    BY <2>1, <2>2 DEF StreamError, WatchReadable, WatchWritable, Watch
  <2>3. CASE StreamEOF
    BY <2>3 DEF StreamEOF, WatchReadable, Watch, Detached
  <2>4. ASSUME NEW viaStale \in BOOLEAN,
               \/ LocalReadClose(viaStale) \/ LocalWriteClose(viaStale)
               \/ ConsoleReadClose(viaStale) \/ ConsoleWriteClose(viaStale)
        PROVE  attached /\ (attached' => stdio /\ TermFails)
    <3>1. attached
      <4>1. ~ConsoleReadClose(viaStale) /\ ~ConsoleWriteClose(viaStale)
        BY <1>1 DEF ConsoleReadClose, ConsoleWriteClose, Fires, Live, Need, RawInv, Forgotten
      <4>2. LocalWriteClose(viaStale) => attached
        BY <1>1 DEF LocalWriteClose, SomeOutput, consoleToLocalOffset, RawInv, Cleared
      <4> QED
        BY <2>4, <4>1, <4>2 DEF LocalReadClose
    <3>2. \E running, how : Close(running, viaStale, how)
      BY <2>4 DEF LocalReadClose, LocalWriteClose, ConsoleReadClose, ConsoleWriteClose
    <3> QED
      BY <2>1, <3>1, <3>2
  <2>5. CASE Attach \/ Detach \/ StreamReadWrite \/ UNCHANGED vars
    BY <2>5 DEF Attach, Detach, StreamReadWrite, vars
  <2>6. ASSUME NEW viaStale \in BOOLEAN,
               \/ LocalRead(viaStale) \/ LocalWrite(viaStale)
               \/ ConsoleRead(viaStale) \/ ConsoleWrite(viaStale)
        PROVE  FALSE
    BY <2>6 DEF LocalRead, LocalWrite, ConsoleRead, ConsoleWrite
  <2> QED
    BY <1>1, <2>2, <2>3, <2>4, <2>5, <2>6 DEF Next
<1>2. Spec => [][ClosesOnce]_vars
  <2> HIDE DEF ClosesOnce
  <2> QED
    BY <1>1, Invariance, PTL DEF Spec
<1> QED
  BY <1>2 DEF StreamClosesOnce, ClosesOnce

QuietStep == ~attached /\ ~attached' => UNCHANGED << buffers, traffic >>

(* What a detached console had sources for may still be dispatched, but     *)
(* touches no data (detach sets the buffers to NULL,                        *)
(* console-raw.c:749-753).                                                  *)
THEOREM QuietWhenDetached == Spec => DetachedIsQuiet
<1>1. ASSUME RawInv, [Next]_vars PROVE QuietStep
  <2> SUFFICES ASSUME ~attached, ~attached' PROVE UNCHANGED << buffers, traffic >>
    BY DEF QuietStep
  <2>1. /\ consoleToLocal = << >> /\ localToConsole = << >>
        /\ consoleToLocalOffset = 0 /\ localToConsoleOffset = 0
    BY <1>1 DEF RawInv, Cleared, consoleToLocalOffset, localToConsoleOffset
  <2>2. /\ localWritten \in Seq(Nat) /\ consoleWritten \in Seq(Nat) /\ stdinRead \in Nat
    BY <1>1 DEF RawInv, TypeOK, Typed
  <2>3. ASSUME NEW out \in Seq(Nat)
        PROVE  out \o SubSeq(<< >>, 1, 0) = out /\ Rest(<< >>, 0) = << >>
    <3>1. SubSeq(<< >>, 1, 0) = << >> /\ SubSeq(<< >>, 0 + 1, Len(<< >>)) = << >>
      BY SubSeqEmpty
    <3> QED
      BY <3>1, ConcatEmptySeq DEF Rest
  <2>4. ASSUME NEW viaStale \in BOOLEAN, LocalRead(viaStale)
        PROVE  UNCHANGED << buffers, traffic >>
    <3>1. PICK n \in 0 .. 0 :
            /\ localToConsole' = localToConsole \o Bytes(stdinRead + 1, stdinRead + n)
            /\ stdinRead' = stdinRead + n
      BY <2>4 DEF LocalRead, LocalReads
    <3>2. n = 0
      BY <3>1
    <3>3. Bytes(stdinRead + 1, stdinRead + 0) \in Seq(Nat)
          /\ Len(Bytes(stdinRead + 1, stdinRead + 0)) = 0
      BY <2>2, BytesEffect
    <3>4. localToConsole' = << >> /\ stdinRead' = stdinRead
      BY <2>1, <2>2, <3>1, <3>2, <3>3
    <3> QED
      BY <2>1, <2>4, <3>4 DEF LocalRead, buffers, traffic
  <2>5. ASSUME NEW viaStale \in BOOLEAN, LocalWrite(viaStale) \/ ConsoleWrite(viaStale)
        PROVE  UNCHANGED << buffers, traffic >>
    <3>1. CASE LocalWrite(viaStale)
      <4>1. PICK n \in 0 .. 0 : /\ localWritten' = localWritten \o SubSeq(consoleToLocal, 1, n)
                                /\ consoleToLocal' = Rest(consoleToLocal, n)
        BY <2>1, <3>1 DEF LocalWrite
      <4>2. n = 0
        BY <4>1
      <4>3. localWritten' = localWritten /\ consoleToLocal' = << >>
        BY <2>1, <2>2, <2>3, <4>1, <4>2
      <4> QED
        BY <2>1, <3>1, <4>3 DEF LocalWrite, buffers, traffic
    <3>2. CASE ConsoleWrite(viaStale)
      <4>1. PICK n \in 0 .. 0 :
              /\ consoleWritten' = consoleWritten \o SubSeq(consoleToLocal, 1, n)
              /\ consoleToLocal' = Rest(consoleToLocal, n)
        BY <2>1, <3>2 DEF ConsoleWrite
      <4>2. n = 0
        BY <4>1
      <4>3. consoleWritten' = consoleWritten /\ consoleToLocal' = << >>
        BY <2>1, <2>2, <2>3, <4>1, <4>2
      <4> QED
        BY <2>1, <3>2, <4>3 DEF ConsoleWrite, buffers, traffic
    <3> QED
      BY <2>5, <3>1, <3>2
  <2>6. ASSUME NEW running, NEW viaStale \in BOOLEAN, NEW how, Close(running, viaStale, how),
               UNCHANGED traffic
        PROVE  UNCHANGED << buffers, traffic >>
    BY <2>6 DEF Close, DetachIdle
  <2>7. ASSUME NEW viaStale \in BOOLEAN,
               \/ StreamError \/ LocalReadClose(viaStale) \/ LocalWriteClose(viaStale)
               \/ ConsoleReadClose(viaStale) \/ ConsoleWriteClose(viaStale)
        PROVE  UNCHANGED << buffers, traffic >>
    <3>1. /\ UNCHANGED traffic
          /\ \E running, how : \E stl \in BOOLEAN : Close(running, stl, how)
      <4>1. CASE StreamError
        BY <4>1 DEF StreamError
      <4>2. CASE LocalReadClose(viaStale)
        BY <4>2 DEF LocalReadClose
      <4>3. CASE LocalWriteClose(viaStale)
        BY <4>3 DEF LocalWriteClose
      <4>4. CASE ConsoleReadClose(viaStale)
        BY <4>4 DEF ConsoleReadClose
      <4>5. CASE ConsoleWriteClose(viaStale)
        BY <4>5 DEF ConsoleWriteClose
      <4> QED
        BY <2>7, <4>1, <4>2, <4>3, <4>4, <4>5
    <3> QED
      BY <2>6, <3>1
  <2>8. ~ConsoleRead(TRUE) /\ ~ConsoleRead(FALSE)
    BY DEF ConsoleRead
  <2>9. CASE Attach \/ Detach \/ StreamEOF \/ UNCHANGED vars
    BY <2>9 DEF Attach, Detach, StreamEOF, WatchReadable, Watch, vars
  <2>10. ~StreamReadWrite
    <3> SUFFICES ASSUME NEW n \in 0 .. BufferLength - consoleToLocalOffset, NEW m \in 0 .. 0,
                        n + m > 0, n > 0 => WatchReadable
                 PROVE  FALSE
      BY <2>1 DEF StreamReadWrite
    <3>1. n > 0
      BY <2>1
    <3> QED
      BY <3>1 DEF WatchReadable, Watch
  <2> QED
    BY <1>1, <2>4, <2>5, <2>7, <2>8, <2>9, <2>10 DEF Next
<1>2. Spec => [][QuietStep]_vars
  <2> HIDE DEF QuietStep
  <2> QED
    BY <1>1, Invariance, PTL DEF Spec
<1> QED
  BY <1>2 DEF DetachedIsQuiet, QuietStep
=============================================================================
