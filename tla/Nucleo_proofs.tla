---------------------------- MODULE Nucleo_proofs ----------------------------
(***************************************************************************)
(* Proofs about Nucleo.tla: for chunks of any size, any parameters and any *)
(* number of messages on the way.                                          *)
(*                                                                         *)
(* The messages on both links are part of the inductive invariant: what    *)
(* the host sends names a chunk the board can compute, and what the board  *)
(* has sent stays inside the chunk it names until it is read.              *)
(***************************************************************************)
EXTENDS Nucleo, SequenceTheorems, TLAPS

Inside(m) ==
    m.type = "COMPUTE_DATA" => m.i_re < m.chunk.n_re /\ m.i_im < m.chunk.n_im

\* What the board sends, and the part of it that is right.
Reports ==
    {Simple(t) : t \in {"STARTUP", "ABORT", "OK", "VERSION", "DONE"}}
      \cup [type : {"COMPUTE_DATA"}, chunk : Chunks, i_re : Nat, i_im : Nat,
             params : Parameters \cup {NoParameters}]
GoodReports == {m \in Reports : Inside(m)}

LinkInv == fromHost \in Seq(HostMessages) /\ toHost \in Seq(GoodReports)

IInv == BoardType /\ LinkInv /\ RowByRow

-----------------------------------------------------------------------------
(* Lemmas.                                                                 *)

\* A report without data is right.
LEMMA SimpleReport ==
    ASSUME NEW t \in {"STARTUP", "ABORT", "OK", "VERSION", "DONE"}
    PROVE  Simple(t) \in GoodReports /\ Simple(t).type = t
BY DEF GoodReports, Reports, Inside, Simple

\* Data from inside the chunk are right.
LEMMA DataReport ==
    ASSUME NEW c \in Chunks, NEW x \in Nat, NEW y \in Nat,
           NEW p \in Parameters \cup {NoParameters}, x < c.n_re, y < c.n_im
    PROVE  Data(c, x, y, p) \in GoodReports
<1>1. Data(c, x, y, p) \in Reports
  BY DEF Reports, Data
<1>2. Inside(Data(c, x, y, p))
  BY DEF Inside, Data
<1> QED
  BY <1>1, <1>2 DEF GoodReports

\* A product grows with its factor.
LEMMA ProductGrows ==
    ASSUME NEW a \in Nat, NEW b \in Nat, NEW d \in Nat, a <= b
    PROVE  a * d \in Nat /\ b * d \in Nat /\ a * d <= b * d
<1>1. PICK k \in Nat : b = a + k
  <2>1. b - a \in Nat /\ b = a + (b - a)
    BY SMT
  <2> QED
    BY <2>1
<1>2. b * d = a * d + k * d /\ a * d \in Nat /\ k * d \in Nat
  BY <1>1, SMT
<1> QED
  BY <1>2, SMT

\* The position after a pixel, as the loop of main() finds it: pixel y * n + x
\* of a chunk of n columns and m rows is inside the chunk, and the next one is
\* in the next column, or at the start of the next row.
LEMMA NextPosition ==
    ASSUME NEW n \in Nat \ {0}, NEW m \in Nat \ {0}, NEW x \in Nat, NEW y \in Nat,
           x < n, y * n + x < n * m
    PROVE  /\ y < m
           /\ y * n + x \in Nat /\ n * m \in Nat
           /\ (x + 1) % n = 0 => x + 1 = n /\ (y * n + x) + 1 = (y + 1) * n + 0
           /\ (x + 1) % n # 0 => x + 1 < n
<1>1. y * n \in Nat /\ n * m \in Nat
  BY SMT
<1>2. y < m
  <2> SUFFICES ASSUME m <= y PROVE FALSE
    BY SMT
  <2>1. m * n <= y * n
    BY ProductGrows
  <2>2. m * n = n * m
    BY SMT
  <2> QED
    BY <1>1, <2>1, <2>2, SMT
<1>3. (y + 1) * n = y * n + n
  BY SMT
<1>4. CASE x + 1 = n
  BY <1>1, <1>2, <1>3, <1>4, SMT
<1>5. CASE x + 1 # n
  <2>1. x + 1 \in 1 .. n - 1
    BY <1>5, SMT
  <2>2. (x + 1) % n = x + 1
    BY <2>1, SMT
  <2> QED
    BY <1>1, <1>2, <2>1, <2>2, SMT
<1> QED
  BY <1>4, <1>5

\* Taking a message from the link of the host.
LEMMA TakeMessage ==
    ASSUME LinkInv, NEW t, Receives(t)
    PROVE  Head(fromHost) \in HostMessages /\ fromHost' \in Seq(HostMessages)
BY DEF LinkInv, Receives

\* Sending a report.
LEMMA SendReport ==
    ASSUME LinkInv, NEW m \in GoodReports, Send(m)
    PROVE  /\ toHost' \in Seq(GoodReports)
           /\ Len(toHost') = Len(toHost) + 1 /\ toHost'[Len(toHost')] = m
BY DEF LinkInv, Send

\* Sending two.
LEMMA LastOfTwo ==
    ASSUME NEW S, NEW q \in Seq(S), NEW x \in S, NEW y \in S
    PROVE  Len(q \o <<x, y>>) = Len(q) + 2 /\ (q \o <<x, y>>)[Len(q) + 2] = y
BY SMT

\* What a message of the host carries, by its type.
LEMMA MessageContent ==
    ASSUME NEW m \in HostMessages
    PROVE  /\ m.type = "SET_COMPUTE" => m.params \in Parameters
           /\ m.type = "COMPUTE" => m.chunk \in Chunks
BY DEF HostMessages, Simple

-----------------------------------------------------------------------------
(* The inductive invariant.                                                *)

LEMMA InitGood == NucleoInit => IInv
<1> SUFFICES ASSUME NucleoInit PROVE IInv
  OBVIOUS
<1>1. Simple("STARTUP") \in GoodReports
  BY SimpleReport
<1>2. <<Simple("STARTUP")>> \in Seq(GoodReports) /\ <<>> \in Seq(HostMessages)
  BY <1>1
<1> QED
  BY <1>2 DEF NucleoInit, BoardInit, IInv, BoardType, LinkInv, RowByRow

LEMMA NextGood == IInv /\ [NucleoNext]_nucleoVars => IInv'
<1> SUFFICES ASSUME IInv, [NucleoNext]_nucleoVars PROVE IInv'
  OBVIOUS
<1> USE DEF IInv
<1>1. CASE Check
  <2>1. Simple("ABORT") \in GoodReports
    BY SimpleReport
  <2>2. toHost' \in Seq(GoodReports)
    BY <1>1, <2>1, SendReport DEF Check, LinkInv
  <2> QED
    BY <1>1, <2>2 DEF Check, BoardType, LinkInv, RowByRow
<1>2. CASE ReceiveGetVersion
  <2>1. Simple("VERSION") \in GoodReports
    BY SimpleReport
  <2>2. toHost' \in Seq(GoodReports)
    BY <1>2, <2>1, SendReport DEF ReceiveGetVersion
  <2>3. fromHost' \in Seq(HostMessages)
    BY <1>2, TakeMessage DEF ReceiveGetVersion
  <2> QED
    BY <1>2, <2>2, <2>3 DEF ReceiveGetVersion, NextRound, BoardType, LinkInv, RowByRow
<1>3. CASE ReceiveAbort
  <2>1. Simple("OK") \in GoodReports /\ Simple("ABORT") \in GoodReports
    BY SimpleReport
  <2>2. toHost' \in Seq(GoodReports)
    <3>1. <<Simple("OK"), Simple("ABORT")>> \in Seq(GoodReports)
      BY <2>1
    <3> QED
      BY <1>3, <3>1, ConcatProperties DEF ReceiveAbort, LinkInv
  <2>3. fromHost' \in Seq(HostMessages)
    BY <1>3, TakeMessage DEF ReceiveAbort
  <2> QED
    BY <1>3, <2>2, <2>3 DEF ReceiveAbort, NextRound, BoardType, LinkInv, RowByRow
<1>4. CASE ReceiveSetCompute
  <2>1. Simple("OK") \in GoodReports
    BY SimpleReport
  <2>2. toHost' \in Seq(GoodReports)
    BY <1>4, <2>1, SendReport DEF ReceiveSetCompute
  <2>3. fromHost' \in Seq(HostMessages) /\ params' \in Parameters
    BY <1>4, TakeMessage, MessageContent DEF ReceiveSetCompute, Receives
  <2> QED
    BY <1>4, <2>2, <2>3 DEF ReceiveSetCompute, NextRound, BoardType, LinkInv, RowByRow
<1>5. CASE ReceiveCompute
  <2>1. Simple("OK") \in GoodReports
    BY SimpleReport
  <2>2. toHost' \in Seq(GoodReports)
    BY <1>5, <2>1, SendReport DEF ReceiveCompute
  <2>3. fromHost' \in Seq(HostMessages) /\ Head(fromHost).chunk \in Chunks
    BY <1>5, TakeMessage, MessageContent DEF ReceiveCompute, Receives
  <2>4. LinkInv' /\ BoardType'
    BY <1>5, <2>2, <2>3 DEF ReceiveCompute, NextRound, BoardType, LinkInv
  <2>5. CASE computing
    BY <1>5, <2>4, <2>5 DEF ReceiveCompute, RowByRow
  <2>6. CASE ~computing
    <3>1. chunk' \in Chunks /\ i' = 0 /\ j' = 0 /\ pixel' = 0
      BY <1>5, <2>3, <2>6 DEF ReceiveCompute
    <3>2. chunk'.n_re \in Nat \ {0} /\ chunk'.n_im \in Nat \ {0}
      BY <3>1, ChunkAssumption
    <3>3. 0 = 0 * chunk'.n_re + 0 /\ 0 < chunk'.n_re /\ 0 <= chunk'.n_re * chunk'.n_im
      <4>1. chunk'.n_re * chunk'.n_im \in Nat /\ 0 * chunk'.n_re = 0
        BY <3>2, SMT
      <4> QED
        BY <3>2, <4>1, SMT
    <3>4. RowByRow'
      BY <3>1, <3>3 DEF RowByRow
    <3> QED
      BY <2>4, <3>4
  <2> QED
    BY <2>5, <2>6
<1>6. CASE ComputePixel
  <2>1. /\ chunk.n_re \in Nat \ {0} /\ chunk.n_im \in Nat \ {0}
        /\ i \in Nat /\ j \in Nat /\ i < chunk.n_re
        /\ pixel = j * chunk.n_re + i /\ pixel < chunk.n_re * chunk.n_im
        /\ chunk \in Chunks /\ params \in Parameters \cup {NoParameters}
    BY <1>6, ChunkAssumption DEF ComputePixel, BoardType, RowByRow
  <2>2. /\ j < chunk.n_im
        /\ pixel \in Nat /\ chunk.n_re * chunk.n_im \in Nat
        /\ (i + 1) % chunk.n_re = 0 => /\ i + 1 = chunk.n_re
                                       /\ pixel + 1 = (j + 1) * chunk.n_re + 0
        /\ (i + 1) % chunk.n_re # 0 => i + 1 < chunk.n_re
    BY <2>1, NextPosition
  <2>3. Data(chunk, i, j, params) \in GoodReports
    BY <2>1, <2>2, DataReport
  <2>4. toHost' \in Seq(GoodReports)
    BY <1>6, <2>3, SendReport DEF ComputePixel
  <2>5. /\ i' \in Nat /\ j' \in Nat /\ pixel' = pixel + 1 /\ pixel' \in Nat
        /\ i' < chunk.n_re /\ pixel' = j' * chunk.n_re + i'
        /\ pixel' <= chunk.n_re * chunk.n_im
    <3>1. j * chunk.n_re \in Nat
      BY <2>1, SMT
    <3>2. CASE (i + 1) % chunk.n_re = 0
      <4>1. i' = 0 /\ j' = j + 1 /\ pixel' = pixel + 1
        BY <1>6, <3>2 DEF ComputePixel
      <4> QED
        BY <2>1, <2>2, <3>2, <4>1, SMT
    <3>3. CASE (i + 1) % chunk.n_re # 0
      <4>1. i' = i + 1 /\ j' = j /\ pixel' = pixel + 1
        BY <1>6, <3>3 DEF ComputePixel
      <4>2. i + 1 < chunk.n_re
        BY <2>2, <3>3
      <4>3. pixel + 1 = j * chunk.n_re + (i + 1)
        BY <2>1, <3>1, SMT
      <4>4. pixel + 1 <= chunk.n_re * chunk.n_im
        <5> DEFINE all == chunk.n_re * chunk.n_im
        <5>1. pixel \in Nat /\ all \in Nat /\ pixel < all
          BY <2>1, <2>2
        <5> HIDE DEF all
        <5>2. pixel + 1 <= all
          BY <5>1, SMT
        <5> QED
          BY <5>2 DEF all
      <4>5. i + 1 \in Nat /\ pixel + 1 \in Nat
        BY <2>1, <2>2, SMT
      <4> QED
        BY <2>1, <4>1, <4>2, <4>3, <4>4, <4>5
    <3> QED
      BY <3>2, <3>3
  <2> QED
    BY <1>6, <2>4, <2>5 DEF ComputePixel, BoardType, LinkInv, RowByRow
<1>7. CASE ChunkDone
  <2>1. Simple("DONE") \in GoodReports
    BY SimpleReport
  <2>2. toHost' \in Seq(GoodReports)
    BY <1>7, <2>1, SendReport DEF ChunkDone
  <2> QED
    BY <1>7, <2>2 DEF ChunkDone, NextRound, BoardType, LinkInv, RowByRow
<1>8. CASE Restart
  <2>1. Simple("STARTUP") \in GoodReports
    BY SimpleReport
  <2>2. toHost' \in Seq(GoodReports)
    BY <1>8, <2>1, SendReport DEF Restart
  <2>3. fromHost' \in Seq(HostMessages)
    <3>1. PICK n \in 0 .. Len(fromHost) : fromHost' = SubSeq(fromHost, n + 1, Len(fromHost))
      BY <1>8 DEF Restart
    <3>2. fromHost \in Seq(HostMessages) /\ Len(fromHost) \in Nat
      BY DEF LinkInv
    <3>3. n + 1 \in 1 .. Len(fromHost) + 1 /\ Len(fromHost) \in n .. Len(fromHost)
      BY <3>2, SMT
    <3> QED
      BY <3>1, <3>2, <3>3, SubSeqProperties
  <2> QED
    BY <1>8, <2>2, <2>3 DEF Restart, BoardType, LinkInv, RowByRow
<1>9. CASE Button
  BY <1>9 DEF Button, BoardType, LinkInv, RowByRow
<1>10. CASE HostReads
  BY <1>10 DEF HostReads, boardVars, BoardType, LinkInv, RowByRow
<1>11. ASSUME NEW m \in HostMessages, HostSends(m)
       PROVE  IInv'
  BY <1>11 DEF HostSends, boardVars, BoardType, LinkInv, RowByRow
<1>12. CASE UNCHANGED nucleoVars
  BY <1>12 DEF nucleoVars, boardVars, BoardType, LinkInv, RowByRow
<1> QED
  BY <1>1, <1>2, <1>3, <1>4, <1>5, <1>6, <1>7, <1>8, <1>9, <1>10, <1>11, <1>12
     DEF NucleoNext, Work, Receive

\* The links carry right messages and the position follows the pixel counter.
THEOREM BoardInductive == NucleoSpec => []IInv
BY InitGood, NextGood, PTL DEF NucleoSpec

\* BoardType of Nucleo.
THEOREM BoardTypeCorrect == NucleoSpec => []BoardType
BY BoardInductive, PTL DEF IInv

\* PixelsInOrder of Nucleo: the counter that ends a chunk and the position that
\* is sent go together, for chunks of any shape, and what is sent lies inside
\* the chunk it names.
THEOREM PixelsStayInOrder == NucleoSpec => []PixelsInOrder
<1>1. IInv => DataInside
  <2> SUFFICES ASSUME IInv, NEW k \in DOMAIN toHost, toHost[k].type = "COMPUTE_DATA"
               PROVE  toHost[k].i_re < toHost[k].chunk.n_re /\ toHost[k].i_im < toHost[k].chunk.n_im
    BY DEF DataInside
  <2>1. toHost[k] \in GoodReports
    BY DEF IInv, LinkInv
  <2> QED
    BY <2>1 DEF GoodReports, Inside
<1>2. IInv => PixelsInOrder
  BY <1>1 DEF IInv, PixelsInOrder
<1> QED
  BY <1>2, BoardInductive, PTL

-----------------------------------------------------------------------------
\* ReportsEnd of Nucleo: the board leaves a chunk only with a report.
LEMMA EndIsReported ==
    ASSUME IInv, [NucleoNext]_nucleoVars, computing, ~computing' \/ chunk' # chunk
    PROVE  /\ ~computing'
           /\ Len(toHost') > Len(toHost)
           /\ toHost'[Len(toHost')].type \in {"DONE", "ABORT", "STARTUP"}
<1>1. LinkInv /\ Len(toHost) \in Nat
  BY DEF IInv, LinkInv
<1>2. CASE Check
  <2>1. Simple("ABORT") \in GoodReports /\ Simple("ABORT").type = "ABORT"
    BY SimpleReport
  <2>2. Send(Simple("ABORT")) /\ ~computing'
    BY <1>2 DEF Check
  <2>3. Len(toHost') = Len(toHost) + 1 /\ toHost'[Len(toHost')] = Simple("ABORT")
    BY <1>1, <2>1, <2>2, SendReport
  <2> QED
    BY <1>1, <2>1, <2>2, <2>3
<1>3. CASE ReceiveAbort
  <2>1. /\ Simple("OK") \in GoodReports
        /\ Simple("ABORT") \in GoodReports /\ Simple("ABORT").type = "ABORT"
    BY SimpleReport
  <2>2. toHost' = toHost \o <<Simple("OK"), Simple("ABORT")>> /\ ~computing'
    BY <1>3 DEF ReceiveAbort
  <2>3. Len(toHost') = Len(toHost) + 2 /\ toHost'[Len(toHost')] = Simple("ABORT")
    BY <1>1, <2>1, <2>2, LastOfTwo DEF LinkInv
  <2> QED
    BY <1>1, <2>1, <2>2, <2>3
<1>4. CASE ChunkDone
  <2>1. Simple("DONE") \in GoodReports /\ Simple("DONE").type = "DONE"
    BY SimpleReport
  <2>2. Send(Simple("DONE")) /\ ~computing'
    BY <1>4 DEF ChunkDone
  <2>3. Len(toHost') = Len(toHost) + 1 /\ toHost'[Len(toHost')] = Simple("DONE")
    BY <1>1, <2>1, <2>2, SendReport
  <2> QED
    BY <1>1, <2>1, <2>2, <2>3
<1>5. CASE Restart
  <2>1. Simple("STARTUP") \in GoodReports /\ Simple("STARTUP").type = "STARTUP"
    BY SimpleReport
  <2>2. Send(Simple("STARTUP")) /\ ~computing'
    BY <1>5 DEF Restart
  <2>3. Len(toHost') = Len(toHost) + 1 /\ toHost'[Len(toHost')] = Simple("STARTUP")
    BY <1>1, <2>1, <2>2, SendReport
  <2> QED
    BY <1>1, <2>1, <2>2, <2>3
<1>6. ASSUME NEW m \in HostMessages, HostSends(m)
      PROVE  FALSE
  BY <1>6 DEF HostSends, boardVars
<1>7. ReceiveGetVersion \/ ReceiveSetCompute \/ ReceiveCompute \/ ComputePixel \/ Button
        \/ HostReads \/ UNCHANGED nucleoVars => FALSE
  BY DEF ReceiveGetVersion, ReceiveSetCompute, ReceiveCompute, ComputePixel, Button,
         HostReads, boardVars, nucleoVars
<1> QED
  BY <1>2, <1>3, <1>4, <1>5, <1>6, <1>7 DEF NucleoNext, Work, Receive

\* The board never drops a chunk in silence, nor takes another one instead.
THEOREM NoSilentEnd == NucleoSpec => ReportsEnd
<1>1. IInv /\ [NucleoNext]_nucleoVars =>
        [computing /\ (~computing' \/ chunk' # chunk)
           => /\ ~computing'
              /\ Len(toHost') > Len(toHost)
              /\ toHost'[Len(toHost')].type \in {"DONE", "ABORT", "STARTUP"}]_nucleoVars
  BY EndIsReported
<1> QED
  BY <1>1, BoardInductive, PTL DEF NucleoSpec, ReportsEnd
=============================================================================
