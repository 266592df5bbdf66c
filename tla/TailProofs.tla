------------------------------ MODULE TailProofs ------------------------------
(***************************************************************************)
(* What the log adapters count does not depend on how the bytes of the log *)
(* are cut into calls and buffers, for every buffer size, maxRead, maxLine *)
(* and log: it is the number of lines that are not longer than maxLine.    *)
(*                                                                         *)
(* CountsLines speaks of the complete lines.  To be inductive it needs to  *)
(* know of the incomplete one that partial and skipping describe it        *)
(* (LineState), and that what is in buf fits into a line (TypeOK).         *)
(***************************************************************************)
EXTENDS Tail, FiniteSetTheorems, SequenceTheorems, TLAPS

LineState ==
    \E q \in 0..done :
        /\ Line(seen, q, done + 1)
        /\ IF done - q <= MaxLine THEN ~rd.skipping /\ rd.partial = done - q
                                  ELSE rd.skipping /\ rd.partial = 0

IInv == TypeOK /\ LineState /\ CountsLines

ReaderType == [offset : Nat, info : 0..MaxFiles, partial : 0..MaxLine,
               skipping : BOOLEAN]

-----------------------------------------------------------------------------
(* What is read at once is bounded by each of the three limits. *)
LEMMA LeastOfThree ==
    ASSUME NEW a \in Int, NEW b \in Int, NEW c \in Int
    PROVE  /\ Min(Min(a, b), c) \in Int
           /\ Min(Min(a, b), c) <= a /\ Min(Min(a, b), c) <= b /\ Min(Min(a, b), c) <= c
<1> DEFINE m == Min(a, b)
<1>1. m \in Int /\ m <= a /\ m <= b
  BY DEF Min
<1> HIDE DEF m
<1>2. Min(m, c) \in Int /\ Min(m, c) <= m /\ Min(m, c) <= c
  BY <1>1 DEF Min
<1>3. Min(m, c) <= a /\ Min(m, c) <= b
  BY <1>1, <1>2
<1> QED BY <1>2, <1>3 DEF m

(* The kept lines of a finite prefix are finitely many. *)
LEMMA KeptFinite ==
    ASSUME NEW s, NEW n \in Nat
    PROVE  IsFiniteSet(KeptLines(s, n)) /\ \A p \in KeptLines(s, n) : p \in 1..n
<1>1. KeptLines(s, n) \subseteq 1..n
  BY DEF KeptLines
<1>2. IsFiniteSet(1..n)
  BY FS_Interval
<1> QED BY <1>1, <1>2, FS_Subset

(* What follows a prefix does not change its lines. *)
LEMMA KeptPrefix ==
    ASSUME NEW s, NEW t, NEW n \in Nat, \A k \in 1..n : s[k] = t[k]
    PROVE  KeptLines(s, n) = KeptLines(t, n)
<1>1. ASSUME NEW p \in 1..n, NEW q \in 0 .. p - 1
      PROVE  Line(s, q, p) <=> Line(t, q, p)
  BY <1>1 DEF Line
<1> QED BY <1>1 DEF KeptLines

(* Bytes without a newline end no line. *)
LEMMA KeptNoNewline ==
    ASSUME NEW s, NEW m \in Nat, NEW n \in Nat, m <= n,
           \A k \in m + 1 .. n : s[k] # "n"
    PROVE  KeptLines(s, n) = KeptLines(s, m)
  BY DEF KeptLines

(* A byte belongs to one line. *)
LEMMA OneLine ==
    ASSUME NEW s, NEW p \in Nat, NEW q \in 0 .. p - 1, NEW r \in 0 .. p - 1,
           Line(s, q, p), Line(s, r, p)
    PROVE  q = r
  BY DEF Line

(* The next newline adds its line, if that is not too long. *)
LEMMA KeptNewline ==
    ASSUME NEW s, NEW m \in Nat, NEW i \in Nat, m < i, s[i] = "n",
           \A k \in m + 1 .. i - 1 : s[k] # "n",
           NEW q \in 0 .. i - 1, Line(s, q, i)
    PROVE  KeptLines(s, i) = IF i - 1 - q <= MaxLine THEN KeptLines(s, m) \cup {i}
                                                     ELSE KeptLines(s, m)
<1>1. KeptLines(s, i - 1) = KeptLines(s, m)
  BY KeptNoNewline
<1>2. \A r \in 0 .. i - 1 : Line(s, r, i) => r = q
  BY OneLine
<1>3. \A p : p \in KeptLines(s, i) <=>
                p \in KeptLines(s, i - 1) \/ (p = i /\ i - 1 - q <= MaxLine)
  BY <1>2 DEF KeptLines
<1> QED BY <1>1, <1>3

-----------------------------------------------------------------------------
(* Nothing has been read since the last reset. *)
Blank == /\ seen = <<>> /\ done = 0 /\ cycles = 0
         /\ rd.partial = 0 /\ ~rd.skipping

LEMMA BlankInv == Blank => LineState /\ CountsLines
<1> SUFFICES ASSUME Blank PROVE LineState /\ CountsLines
  OBVIOUS
<1>1. Line(seen, 0, done + 1)
  BY DEF Line, Blank
<1>2. 0 \in 0..done /\ done - 0 <= MaxLine /\ ~rd.skipping /\ rd.partial = done - 0
  BY SizesAssumption DEF Blank
<1>3. LineState
  BY <1>1, <1>2 DEF LineState
<1>4. KeptLines(<<>>, 0) = {}
  BY DEF KeptLines
<1> QED BY <1>3, <1>4, FS_EmptySet DEF Blank, CountsLines

(* The initial state. *)
LEMMA InitInv == Init => IInv
<1> SUFFICES ASSUME Init PROVE IInv
  OBVIOUS
<1>1. TypeOK
  <2>1. <<>> \in Seq(Byte) /\ Len(<<>>) = 0
    OBVIOUS
  <2>2. /\ files \in [1..MaxFiles -> Seq(Byte)] /\ path \in 0..MaxFiles
        /\ seen \in Seq(Byte) /\ done \in 0..Len(seen)
    BY <2>1, FilesAssumption DEF Init
  <2>3. /\ rd \in [offset : Nat, info : 0..MaxFiles, partial : 0..MaxLine,
                   skipping : BOOLEAN]
        /\ call \in [pc : {"idle", "read", "feed", "stat"}, read : 0..MaxRead]
    BY SizesAssumption, FilesAssumption DEF Init
  <2>4. cycles \in Nat /\ exposed \in Nat \cup {None} /\ shrunk \in BOOLEAN
    BY DEF Init
  <2>5. /\ rd.offset = Len(seen) /\ Len(seen) - done <= BufSize
        /\ call.pc = "idle" /\ done = Len(seen)
    BY <2>1, SizesAssumption DEF Init
  <2> QED BY <2>2, <2>3, <2>4, <2>5 DEF TypeOK
<1>2. LineState /\ CountsLines
  BY BlankInv DEF Init, Blank
<1> QED BY <1>1, <1>2 DEF IInv

-----------------------------------------------------------------------------
(* Open either starts afresh or leaves all but info as it was. *)
LEMMA OpenStep == IInv /\ Open => IInv'
<1> SUFFICES ASSUME IInv, Open PROVE IInv'
  OBVIOUS
<1> USE DEF IInv
<1>1. /\ UNCHANGED <<files, path, exposed>> /\ shrunk' = FALSE /\ path # 0
      /\ call' = [pc |-> "read", read |-> 0] /\ done = Len(seen)
      /\ call' \in [pc : {"idle", "read", "feed", "stat"}, read : 0..MaxRead]
  BY SizesAssumption DEF Open, TypeOK
<1>2. CASE IsReset(path)
  <2>1. /\ rd' = [offset |-> 0, info |-> path, partial |-> 0, skipping |-> FALSE]
        /\ cycles' = 0 /\ seen' = <<>> /\ done' = 0
    BY <1>2 DEF Open
  <2>2. Blank'
    BY <2>1 DEF Blank
  <2>3. LineState' /\ CountsLines'
    BY <2>2, BlankInv, PTL
  <2>4. <<>> \in Seq(Byte) /\ Len(<<>>) = 0
    OBVIOUS
  <2>5. /\ rd' \in ReaderType /\ rd'.offset = 0 /\ rd'.info = path
    BY <1>1, <2>1, SizesAssumption, FilesAssumption DEF TypeOK, ReaderType
  <2>6. /\ seen' \in Seq(Byte) /\ done' \in 0..Len(seen') /\ done' = Len(seen')
        /\ rd'.offset = Len(seen') /\ Len(seen') - done' <= BufSize
    BY <2>1, <2>4, <2>5, SizesAssumption
  <2>7. TypeOK'
    BY <1>1, <2>1, <2>5, <2>6 DEF TypeOK, ReaderType
  <2> QED BY <2>3, <2>7
<1>3. CASE ~IsReset(path)
  <2>1. rd' = [rd EXCEPT !.info = path] /\ UNCHANGED <<cycles, seen, done>>
    BY <1>3 DEF Open
  <2>2. rd'.partial = rd.partial /\ rd'.skipping = rd.skipping
    BY <2>1 DEF TypeOK
  <2>3. LineState' /\ CountsLines'
    BY <2>1, <2>2 DEF LineState, CountsLines
  <2>4. TypeOK'
    BY <1>1, <2>1 DEF TypeOK
  <2> QED BY <2>3, <2>4
<1> QED BY <1>2, <1>3

(* A chunk extends seen and leaves what feed has dealt with alone. *)
LEMMA ReadChunkStep == IInv /\ ReadChunk => IInv'
<1> SUFFICES ASSUME IInv, ReadChunk PROVE IInv'
  OBVIOUS
<1> USE DEF IInv
<1> DEFINE data == files[rd.info]
           most == Min(Min(BufSize, MaxRead - call.read), Len(data) - rd.offset)
<1>1. PICK n \in 1..most :
        /\ seen' = seen \o SubSeq(data, rd.offset + 1, rd.offset + n)
        /\ rd' = [rd EXCEPT !.offset = @ + n]
        /\ call' = [pc |-> "feed", read |-> call.read + n]
  BY DEF ReadChunk
<1>2. /\ data \in Seq(Byte) /\ Len(data) \in Nat /\ rd.offset \in Nat
      /\ seen \in Seq(Byte) /\ Len(seen) \in Nat /\ call.read \in 0..MaxRead
      /\ rd.offset = Len(seen) /\ done = Len(seen) /\ rd.info # 0
  <2>1. call.pc # "feed" /\ call.pc # "idle"
    BY DEF ReadChunk
  <2>2. rd.info \in 1..MaxFiles /\ rd.info # 0
    BY <2>1, FilesAssumption DEF TypeOK
  <2> QED BY <2>1, <2>2 DEF TypeOK
<1>3. /\ n \in Nat /\ 1 <= n /\ n <= BufSize /\ n <= MaxRead - call.read
      /\ rd.offset + n <= Len(data)
  <2>1. most \in Int /\ most <= BufSize /\ most <= MaxRead - call.read
        /\ most <= Len(data) - rd.offset
    <3>1. BufSize \in Int /\ MaxRead - call.read \in Int /\ Len(data) - rd.offset \in Int
      BY <1>2, SizesAssumption
    <3> QED BY ONLY <3>1, LeastOfThree
  <2> HIDE DEF most
  <2> QED BY <1>2, <2>1, SizesAssumption
<1> HIDE DEF data, most
<1> DEFINE chunk == SubSeq(data, rd.offset + 1, rd.offset + n)
<1>4. chunk \in Seq(Byte) /\ Len(chunk) = n
  BY <1>2, <1>3
<1>5. seen' = seen \o chunk
  BY <1>1
<1> HIDE DEF chunk
<1>6. /\ seen' \in Seq(Byte) /\ Len(seen') = Len(seen) + n
      /\ \A k \in 1..Len(seen) : seen'[k] = seen[k]
  <2>1. /\ seen \o chunk \in Seq(Byte)
        /\ Len(seen \o chunk) = Len(seen) + Len(chunk)
        /\ \A k \in 1 .. Len(seen) + Len(chunk) :
              (seen \o chunk)[k] = IF k <= Len(seen) THEN seen[k] ELSE chunk[k - Len(seen)]
    <3>1. seen \in Seq(Byte) /\ chunk \in Seq(Byte)
      BY <1>2, <1>4
    <3> QED BY ONLY <3>1, ConcatProperties, Zenon
  <2>2. ASSUME NEW k \in 1..Len(seen) PROVE seen'[k] = seen[k]
    <3>1. k \in 1 .. Len(seen) + Len(chunk) /\ k <= Len(seen)
      BY <1>2, <1>3, <1>4
    <3> QED BY <1>5, <2>1, <3>1, Zenon
  <2> QED BY <1>4, <1>5, <2>1, <2>2
<1>7. UNCHANGED <<files, path, cycles, exposed, done, shrunk>>
  BY DEF ReadChunk
<1>8. rd'.partial = rd.partial /\ rd'.skipping = rd.skipping /\ rd'.offset = rd.offset + n
      /\ rd'.info = rd.info
  BY <1>1 DEF TypeOK
<1>9. TypeOK'
  <2>1. /\ rd' \in [offset : Nat, info : 0..MaxFiles, partial : 0..MaxLine,
                    skipping : BOOLEAN]
        /\ call' \in [pc : {"idle", "read", "feed", "stat"}, read : 0..MaxRead]
        /\ call'.pc = "feed"
    <3>1. rd.offset + n \in Nat /\ call.read + n \in 0..MaxRead
      BY <1>2, <1>3, SizesAssumption
    <3>2. rd' = [rd EXCEPT !.offset = rd.offset + n]
      BY <1>1
    <3>3. rd' \in ReaderType
      BY <3>1, <3>2 DEF TypeOK, ReaderType
    <3> QED BY <1>1, <3>1, <3>3 DEF ReaderType
  <2>2. done' \in 0..Len(seen') /\ rd'.offset = Len(seen') /\ Len(seen') - done' <= BufSize
    BY <1>2, <1>3, <1>6, <1>7, <1>8, SizesAssumption
  <2> QED BY <1>2, <1>6, <1>7, <1>8, <2>1, <2>2 DEF TypeOK
<1>10. LineState'
  <2>1. PICK q \in 0..done :
          /\ Line(seen, q, done + 1)
          /\ IF done - q <= MaxLine THEN ~rd.skipping /\ rd.partial = done - q
                                    ELSE rd.skipping /\ rd.partial = 0
    BY DEF LineState
  <2>2. Line(seen', q, done + 1)
    BY <1>2, <1>6, <2>1 DEF Line
  <2> QED BY <1>7, <1>8, <2>1, <2>2 DEF LineState
<1>11. CountsLines'
  <2>1. KeptLines(seen', done) = KeptLines(seen, done)
    BY <1>2, <1>6, KeptPrefix
  <2> QED BY <1>7, <2>1 DEF CountsLines
<1> QED BY <1>9, <1>10, <1>11

(* keep: the rest of the buffer lengthens the incomplete line. *)
LEMMA FeedPartStep == IInv /\ FeedPart => IInv'
<1> SUFFICES ASSUME IInv, FeedPart PROVE IInv'
  OBVIOUS
<1> USE DEF IInv
<1>1. /\ UNCHANGED <<files, path, call, cycles, exposed, seen, shrunk>>
      /\ call.pc = "feed" /\ done' = Len(seen) /\ rd' = Keep(rd, Len(seen) - done)
      /\ \A k \in done + 1 .. Len(seen) : seen[k] # "n"
  BY DEF FeedPart, Newlines
<1>2. /\ done \in Nat /\ Len(seen) \in Nat /\ done < Len(seen)
      /\ rd.partial \in 0..MaxLine /\ rd.skipping \in BOOLEAN
      /\ rd \in [offset : Nat, info : 0..MaxFiles, partial : 0..MaxLine,
                 skipping : BOOLEAN]
  BY DEF FeedPart, TypeOK
<1>3. PICK q \in 0..done :
        /\ Line(seen, q, done + 1)
        /\ IF done - q <= MaxLine THEN ~rd.skipping /\ rd.partial = done - q
                                  ELSE rd.skipping /\ rd.partial = 0
  BY DEF LineState
<1>4. Line(seen, q, Len(seen) + 1)
  BY <1>1, <1>2, <1>3 DEF Line
<1>5. /\ rd' \in [offset : Nat, info : 0..MaxFiles, partial : 0..MaxLine,
                  skipping : BOOLEAN]
      /\ rd'.offset = rd.offset /\ rd'.info = rd.info
      /\ IF Len(seen) - q <= MaxLine THEN ~rd'.skipping /\ rd'.partial = Len(seen) - q
                                     ELSE rd'.skipping /\ rd'.partial = 0
  <2>1. CASE rd.skipping
    <3>1. rd' = rd
      BY <1>1, <2>1 DEF Keep
    <3> QED BY <1>2, <1>3, <2>1, <3>1, SizesAssumption
  <2>2. CASE ~rd.skipping /\ rd.partial + (Len(seen) - done) > MaxLine
    <3>1. rd' = [rd EXCEPT !.partial = 0, !.skipping = TRUE]
      BY <1>1, <2>2 DEF Keep
    <3>2. Len(seen) - q > MaxLine
      BY <1>2, <1>3, <2>2, SizesAssumption
    <3>3. 0 \in 0..MaxLine
      BY SizesAssumption
    <3>4. rd' \in ReaderType /\ rd'.offset = rd.offset /\ rd'.info = rd.info
      BY <1>2, <3>1, <3>3 DEF ReaderType
    <3>5. rd'.skipping /\ rd'.partial = 0
      BY <1>2, <3>1
    <3>6. ~(Len(seen) - q <= MaxLine)
      BY <1>2, <3>2, SizesAssumption
    <3> QED BY <3>4, <3>5, <3>6 DEF ReaderType
  <2>3. CASE ~rd.skipping /\ ~(rd.partial + (Len(seen) - done) > MaxLine)
    <3>1. rd' = [rd EXCEPT !.partial = rd.partial + (Len(seen) - done)]
      BY <1>1, <2>3 DEF Keep
    <3>2. rd.partial + (Len(seen) - done) = Len(seen) - q /\ Len(seen) - q <= MaxLine
      BY <1>2, <1>3, <2>3, SizesAssumption
    <3>3. Len(seen) - q \in 0..MaxLine
      BY <1>2, <3>2, SizesAssumption
    <3>4. rd' = [rd EXCEPT !.partial = Len(seen) - q]
      BY <3>1, <3>2
    <3>5. rd' \in ReaderType /\ rd'.offset = rd.offset /\ rd'.info = rd.info
      BY ONLY <1>2, <3>3, <3>4 DEF ReaderType
    <3>6. ~rd'.skipping /\ rd'.partial = Len(seen) - q
      BY ONLY <1>2, <2>3, <3>4
    <3> QED BY <3>2, <3>5, <3>6 DEF ReaderType
  <2> QED BY <2>1, <2>2, <2>3
<1>6. LineState'
  <2>1. q \in 0..Len(seen)
    BY ONLY <1>2, q \in 0..done
  <2> QED BY ONLY <1>1, <1>4, <1>5, <2>1 DEF LineState
<1>7. CountsLines'
  <2>1. KeptLines(seen, Len(seen)) = KeptLines(seen, done)
    BY <1>1, <1>2, KeptNoNewline
  <2> QED BY <1>1, <2>1 DEF CountsLines
<1>8. TypeOK'
  <2>1. done' \in 0..Len(seen) /\ Len(seen) - done' = 0
    BY ONLY <1>1, <1>2
  <2> QED BY <1>1, <1>2, <1>5, <2>1, SizesAssumption DEF TypeOK
<1> QED BY <1>6, <1>7, <1>8

(* A newline ends the incomplete line: it is counted if it is not too      *)
(* long, and nothing is left of it.                                        *)
LEMMA FeedLineStep == IInv /\ FeedLine => IInv'
<1> SUFFICES ASSUME IInv, FeedLine PROVE IInv'
  OBVIOUS
<1> USE DEF IInv
<1> DEFINE r(i) == IF rd.partial > 0 THEN Keep(rd, i - done - 1) ELSE rd
<1>1. PICK i \in Newlines :
        /\ \A j \in Newlines : i <= j
        /\ cycles' = IF r(i).skipping THEN cycles ELSE cycles + 1
        /\ rd' = [rd EXCEPT !.partial = 0, !.skipping = FALSE]
        /\ done' = i
  BY DEF FeedLine
<1>2. /\ UNCHANGED <<files, path, call, exposed, seen, shrunk>> /\ call.pc = "feed"
  BY DEF FeedLine
<1>3. /\ done \in Nat /\ Len(seen) \in Nat /\ i \in Nat /\ done < i /\ i <= Len(seen)
      /\ seen[i] = "n" /\ rd.partial \in 0..MaxLine /\ rd.skipping \in BOOLEAN
      /\ rd \in ReaderType /\ cycles \in Nat /\ Len(seen) - done <= BufSize
  BY <1>1 DEF Newlines, TypeOK, ReaderType
<1>4. ASSUME NEW k \in done + 1 .. i - 1 PROVE seen[k] # "n"
  <2>1. k \in done + 1 .. Len(seen) /\ ~(i <= k)
    BY ONLY <1>3, <1>4
  <2>2. k \notin Newlines
    BY ONLY <1>1, <2>1
  <2> QED BY <2>1, <2>2 DEF Newlines
<1>5. PICK q \in 0..done :
        /\ Line(seen, q, done + 1)
        /\ IF done - q <= MaxLine THEN ~rd.skipping /\ rd.partial = done - q
                                  ELSE rd.skipping /\ rd.partial = 0
  BY DEF LineState
<1>6. q \in 0 .. i - 1 /\ Line(seen, q, i)
  BY <1>3, <1>4, <1>5 DEF Line
<1>7. r(i).skipping <=> ~(i - 1 - q <= MaxLine)
  <2>1. CASE rd.skipping
    <3>1. r(i) = rd
      BY <2>1 DEF Keep
    <3>2. ~(done - q <= MaxLine)
      BY <1>5, <2>1
    <3> QED BY <1>3, <2>1, <3>1, <3>2, SizesAssumption
  <2>2. CASE ~rd.skipping /\ rd.partial = 0
    <3>1. r(i) = rd
      BY <2>2, SizesAssumption
    <3>2. q = done
      BY <1>3, <1>5, <2>2
    <3> QED BY <1>3, <2>2, <3>1, <3>2, SizesAssumption
  <2>3. CASE ~rd.skipping /\ rd.partial > 0
    <3>1. rd.partial = done - q
      BY <1>3, <1>5, <2>3
    <3>2. rd.partial + (i - done - 1) = i - 1 - q
      BY <1>3, <3>1
    <3>3. CASE i - 1 - q > MaxLine
      <4>1. r(i) = [rd EXCEPT !.partial = 0, !.skipping = TRUE]
        BY <2>3, <3>2, <3>3 DEF Keep
      <4>2. r(i).skipping
        BY <1>3, <4>1 DEF ReaderType
      <4> QED BY <1>3, <3>3, <4>2, SizesAssumption
    <3>4. CASE ~(i - 1 - q > MaxLine)
      <4>1. r(i) = [rd EXCEPT !.partial = rd.partial + (i - done - 1)]
        BY <2>3, <3>2, <3>4 DEF Keep
      <4>2. r(i).skipping = rd.skipping
        BY <1>3, <4>1 DEF ReaderType
      <4> QED BY <1>3, <2>3, <3>4, <4>2, SizesAssumption
    <3> QED BY <3>3, <3>4
  <2> QED BY <1>3, <2>1, <2>2, <2>3
<1>8. CountsLines'
  <2>1. KeptLines(seen, i) = IF i - 1 - q <= MaxLine THEN KeptLines(seen, done) \cup {i}
                                                     ELSE KeptLines(seen, done)
    BY <1>3, <1>4, <1>6, KeptNewline
  <2>2. IsFiniteSet(KeptLines(seen, done)) /\ i \notin KeptLines(seen, done)
    BY <1>3, KeptFinite
  <2>3. Cardinality(KeptLines(seen, done) \cup {i}) = Cardinality(KeptLines(seen, done)) + 1
    BY <2>2, FS_AddElement
  <2>4. cycles = Cardinality(KeptLines(seen, done))
    BY DEF CountsLines
  <2>5. cycles' = Cardinality(KeptLines(seen, i))
    BY <1>1, <1>7, <2>1, <2>3, <2>4
  <2> QED BY <1>1, <1>2, <2>5 DEF CountsLines
<1>9. /\ rd' \in ReaderType /\ rd'.offset = rd.offset /\ rd'.info = rd.info
      /\ ~rd'.skipping /\ rd'.partial = 0
  <2>1. 0 \in 0..MaxLine
    BY SizesAssumption
  <2> QED BY <1>1, <1>3, <2>1 DEF ReaderType
<1>10. LineState'
  <2>1. Line(seen, i, i + 1)
    BY <1>3 DEF Line
  <2>2. i \in 0..i /\ i - i <= MaxLine /\ 0 = i - i
    BY <1>3, SizesAssumption
  <2> QED BY <1>1, <1>2, <1>9, <2>1, <2>2 DEF LineState
<1>11. TypeOK'
  <2>1. cycles' \in Nat
    BY <1>1, <1>3
  <2>2. done' \in 0..Len(seen) /\ Len(seen) - done' <= BufSize
    BY <1>1, <1>3, SizesAssumption
  <2> QED BY <1>2, <1>9, <2>1, <2>2 DEF TypeOK, ReaderType
<1> QED BY <1>8, <1>10, <1>11

(* Steps that read nothing. *)
LEMMA OtherSteps ==
    IInv /\ (Fail \/ ReadEnds \/ FeedEnds \/ Return \/ Engine \/ UNCHANGED vars) => IInv'
<1> SUFFICES ASSUME IInv, Fail \/ ReadEnds \/ FeedEnds \/ Return \/ Engine \/ UNCHANGED vars
             PROVE  IInv'
  OBVIOUS
<1> USE DEF IInv
<1>1. UNCHANGED <<rd, cycles, seen, done>>
  BY DEF Fail, ReadEnds, FeedEnds, Return, Engine, Append1, Create, Truncate, vars
<1>2. LineState' /\ CountsLines'
  BY <1>1 DEF LineState, CountsLines
<1>3. CASE Fail \/ Return
  <2>1. /\ call' = [pc |-> "idle", read |-> 0]
        /\ call' \in [pc : {"idle", "read", "feed", "stat"}, read : 0..MaxRead]
        /\ UNCHANGED <<files, path, shrunk>> /\ call.pc # "feed"
    BY <1>3, SizesAssumption DEF Fail, Return
  <2>2. exposed' \in Nat \cup {None}
    BY <1>3 DEF Fail, Return, TypeOK
  <2> QED BY <1>1, <1>2, <2>1, <2>2 DEF TypeOK
<1>4. CASE ReadEnds \/ FeedEnds
  <2>1. /\ \/ call' = [call EXCEPT !.pc = "stat"] /\ call.pc = "read"
           \/ call' = [call EXCEPT !.pc = "read"] /\ call.pc = "feed" /\ done = Len(seen)
        /\ UNCHANGED <<files, path, exposed, shrunk>>
    BY <1>4 DEF ReadEnds, FeedEnds
  <2> QED BY <1>1, <1>2, <2>1 DEF TypeOK
<1>5. CASE Engine
  <2>1. UNCHANGED <<call, exposed>>
    BY <1>5 DEF Engine, Append1, Create, Truncate
  <2>2. files' \in [1..MaxFiles -> Seq(Byte)] /\ path' \in 0..MaxFiles /\ shrunk' \in BOOLEAN
    <3>1. ASSUME NEW c \in Byte, Append1(c)
          PROVE  files' \in [1..MaxFiles -> Seq(Byte)]
      <4>1. path \in 1..MaxFiles /\ files[path] \in Seq(Byte)
        BY <3>1, FilesAssumption DEF Append1, TypeOK
      <4>2. Append(files[path], c) \in Seq(Byte)
        BY <4>1
      <4> QED BY <3>1, <4>1, <4>2 DEF Append1, TypeOK
    <3>2. ASSUME Truncate PROVE files' \in [1..MaxFiles -> Seq(Byte)] /\ shrunk' \in BOOLEAN
      <4>1. <<>> \in Seq(Byte)
        OBVIOUS
      <4> QED BY <3>2, <4>1 DEF Truncate, TypeOK
    <3>3. ASSUME NEW c \in Byte, Append1(c) PROVE path' \in 0..MaxFiles /\ shrunk' \in BOOLEAN
      BY <3>3 DEF Append1, TypeOK
    <3>4. ASSUME Create
          PROVE  /\ path' \in 0..MaxFiles /\ shrunk' \in BOOLEAN
                 /\ files' \in [1..MaxFiles -> Seq(Byte)]
      BY <3>4, FilesAssumption DEF Create, TypeOK
    <3>5. ASSUME Truncate PROVE path' \in 0..MaxFiles
      BY <3>5 DEF Truncate, TypeOK
    <3> QED BY <1>5, <3>1, <3>2, <3>3, <3>4, <3>5 DEF Engine
  <2> QED BY <1>1, <1>2, <2>1, <2>2 DEF TypeOK
<1>6. CASE UNCHANGED vars
  BY <1>2, <1>6 DEF vars, TypeOK
<1> QED BY <1>3, <1>4, <1>5, <1>6

(* The invariant of the reader, from which the theorems follow. *)
THEOREM Invariant == Spec => []IInv
<1>1. Init => IInv
  BY InitInv
<1>2. IInv /\ [Next]_vars => IInv'
  BY OpenStep, ReadChunkStep, FeedPartStep, FeedLineStep, OtherSteps DEF Next, Collect
<1> QED BY <1>1, <1>2, PTL DEF Spec

(* Every variable keeps its type: partial never grows past maxLine, a call *)
(* never reads more than maxRead, and the offset is what was read.         *)
THEOREM TypeCorrect == Spec => []TypeOK
<1>1. IInv => TypeOK
  BY DEF IInv
<1> QED BY <1>1, Invariant, PTL

(* The counters of a log adapter are the number of lines it was to count,  *)
(* at every moment and however the log is written and read.                *)
THEOREM LinesAreCounted == Spec => []CountsLines
<1>1. IInv => CountsLines
  BY DEF IInv
<1> QED BY <1>1, Invariant, PTL

-----------------------------------------------------------------------------
(* The reader and the file.  What was read is the beginning of the file    *)
(* the offset belongs to, or that file was truncated and is shorter than   *)
(* the offset, so that the next Open will notice: the second only holds if *)
(* a truncated file does not grow back unseen ("regrow").                  *)
Begins == /\ rd.offset <= Len(files[rd.info])
          /\ \A k \in 1..Len(seen) : files[rd.info][k] = seen[k]

OnDisk == /\ rd.info = 0 => seen = <<>>
          /\ rd.info # 0 => Begins \/ (shrunk /\ Len(files[rd.info]) < rd.offset)

LEMMA OpenOnDisk == IInv /\ OnDisk /\ Open => OnDisk'
<1> SUFFICES ASSUME IInv, OnDisk, Open PROVE OnDisk'
  OBVIOUS
<1>1. /\ path # 0 /\ files' = files /\ rd'.info = path /\ path \in 1..MaxFiles
      /\ rd.offset = Len(seen) /\ Len(files[path]) \in Nat /\ Len(seen) \in Nat
  BY FilesAssumption DEF Open, IInv, TypeOK
<1>2. CASE IsReset(path)
  <2>1. seen' = <<>> /\ rd'.offset = 0
    BY <1>2 DEF Open
  <2>2. Len(<<>>) = 0
    OBVIOUS
  <2>3. \A k \in 1..Len(seen') : FALSE
    BY <2>1, <2>2
  <2> QED BY <1>1, <2>1, <2>3 DEF OnDisk, Begins
<1>3. CASE ~IsReset(path)
  <2>1. seen' = seen /\ rd'.offset = rd.offset
    BY <1>3 DEF Open, IInv, TypeOK
  <2>2. CASE rd.info = 0
    <3>1. Len(seen) = 0
      BY <2>2 DEF OnDisk
    <3>2. \A k \in 1..Len(seen) : FALSE
      BY <3>1
    <3> QED BY <1>1, <2>1, <3>1, <3>2 DEF OnDisk, Begins
  <2>3. CASE rd.info # 0
    <3>1. rd.info = path /\ ~(Len(files[path]) < rd.offset)
      BY <1>3, <2>3 DEF IsReset
    <3>2. Begins
      BY <2>3, <3>1 DEF OnDisk
    <3> QED BY <1>1, <2>1, <3>1, <3>2 DEF OnDisk, Begins
  <2> QED BY <2>2, <2>3
<1> QED BY <1>2, <1>3

LEMMA ReadChunkOnDisk == IInv /\ OnDisk /\ ReadChunk => OnDisk'
<1> SUFFICES ASSUME IInv, OnDisk, ReadChunk PROVE OnDisk'
  OBVIOUS
<1> DEFINE data == files[rd.info]
           most == Min(Min(BufSize, MaxRead - call.read), Len(data) - rd.offset)
<1>1. PICK n \in 1..most :
        /\ seen' = seen \o SubSeq(data, rd.offset + 1, rd.offset + n)
        /\ rd' = [rd EXCEPT !.offset = @ + n]
  BY DEF ReadChunk
<1>2. /\ data \in Seq(Byte) /\ Len(data) \in Nat /\ rd.offset \in Nat
      /\ seen \in Seq(Byte) /\ Len(seen) \in Nat /\ call.read \in 0..MaxRead
      /\ rd.offset = Len(seen) /\ rd.info # 0 /\ files' = files
  <2>1. call.pc # "idle" /\ files' = files
    BY DEF ReadChunk
  <2>2. rd.info \in 1..MaxFiles /\ rd.info # 0
    BY <2>1, FilesAssumption DEF IInv, TypeOK
  <2> QED BY <2>1, <2>2 DEF IInv, TypeOK
<1>3. n \in Nat /\ 1 <= n /\ rd.offset + n <= Len(data)
  <2>1. most \in Int /\ most <= Len(data) - rd.offset
    <3>1. BufSize \in Int /\ MaxRead - call.read \in Int /\ Len(data) - rd.offset \in Int
      BY <1>2, SizesAssumption
    <3> QED BY ONLY <3>1, LeastOfThree
  <2> HIDE DEF most
  <2> QED BY <1>2, <2>1
<1>4. Begins
  BY <1>2, <1>3 DEF OnDisk
<1>5. rd'.info = rd.info /\ rd'.offset = rd.offset + n
  BY <1>1 DEF IInv, TypeOK
<1> HIDE DEF data, most
<1> DEFINE chunk == SubSeq(data, rd.offset + 1, rd.offset + n)
<1>6. /\ chunk \in Seq(Byte) /\ Len(chunk) = n
      /\ \A j \in 1..n : chunk[j] = data[rd.offset + j]
  BY <1>2, <1>3
<1>7. seen' = seen \o chunk
  BY <1>1
<1> HIDE DEF chunk
<1>8. /\ Len(seen') = Len(seen) + n
      /\ \A k \in 1 .. Len(seen) + n :
            seen'[k] = IF k <= Len(seen) THEN seen[k] ELSE chunk[k - Len(seen)]
  <2>1. /\ Len(seen \o chunk) = Len(seen) + Len(chunk)
        /\ \A k \in 1 .. Len(seen) + Len(chunk) :
              (seen \o chunk)[k] = IF k <= Len(seen) THEN seen[k] ELSE chunk[k - Len(seen)]
    <3>1. seen \in Seq(Byte) /\ chunk \in Seq(Byte)
      BY <1>2, <1>6
    <3> QED BY ONLY <3>1, ConcatProperties, Zenon
  <2> QED BY <1>6, <1>7, <2>1, Zenon
<1>9. ASSUME NEW k \in 1..Len(seen') PROVE data[k] = seen'[k]
  <2>1. CASE k <= Len(seen)
    BY <1>2, <1>3, <1>4, <1>8, <2>1 DEF Begins, data
  <2>2. CASE ~(k <= Len(seen))
    <3>1. k - Len(seen) \in 1..n /\ rd.offset + (k - Len(seen)) = k
      BY <1>2, <1>3, <1>8, <2>2
    <3> QED BY <1>2, <1>6, <1>8, <2>2, <3>1
  <2> QED BY <2>1, <2>2
<1> QED BY <1>2, <1>3, <1>5, <1>9 DEF OnDisk, Begins, data

LEMMA EngineOnDisk ==
    ASSUME "regrow" \notin Disturbances
    PROVE  IInv /\ OnDisk /\ Engine => OnDisk'
<1> SUFFICES ASSUME IInv, OnDisk, Engine PROVE OnDisk'
  OBVIOUS
<1>1. /\ rd' = rd /\ seen' = seen /\ rd.info \in 0..MaxFiles
      /\ files \in [1..MaxFiles -> Seq(Byte)]
      /\ rd.offset = Len(seen) /\ Len(seen) \in Nat
  BY DEF Engine, Append1, Create, Truncate, IInv, TypeOK
<1>2. CASE rd.info = 0
  BY <1>1, <1>2 DEF OnDisk
<1>3. CASE rd.info # 0
  <2>1. rd.info \in 1..MaxFiles /\ files[rd.info] \in Seq(Byte) /\ Len(files[rd.info]) \in Nat
    BY <1>1, <1>3, FilesAssumption
  <2>2. ASSUME files'[rd.info] = files[rd.info], shrunk => shrunk' PROVE OnDisk'
    BY <1>1, <1>3, <2>2 DEF OnDisk, Begins
  <2>3. CASE Create
    BY <2>2, <2>3 DEF Create
  <2>4. CASE Truncate
    <3>1. path \in 1..MaxFiles /\ files' = [files EXCEPT ![path] = <<>>]
          /\ shrunk' = (shrunk \/ path = rd.info)
      BY <2>4, FilesAssumption DEF Truncate, IInv, TypeOK
    <3>2. CASE path # rd.info
      BY <1>1, <2>1, <2>2, <3>1, <3>2
    <3>3. CASE path = rd.info
      <4>1. files'[rd.info] = <<>> /\ shrunk' /\ Len(<<>>) = 0
        BY <1>1, <3>1, <3>3
      <4>2. CASE Len(seen) = 0
        <5>1. \A k \in 1..Len(seen) : FALSE
          BY <4>2
        <5> QED BY <1>1, <1>3, <4>1, <4>2, <5>1 DEF OnDisk, Begins
      <4> QED BY <1>1, <1>3, <4>1, <4>2 DEF OnDisk
    <3> QED BY <3>2, <3>3
  <2>5. ASSUME NEW c \in Byte, Append1(c) PROVE OnDisk'
    <3>1. /\ path \in 1..MaxFiles /\ files' = [files EXCEPT ![path] = Append(@, c)]
          /\ shrunk' = shrunk /\ (path = rd.info => ~HidesTruncation)
      BY <2>5, FilesAssumption DEF Append1, IInv, TypeOK
    <3>2. CASE path # rd.info
      BY <1>1, <2>1, <2>2, <3>1, <3>2
    <3>3. CASE path = rd.info
      <4>1. files'[rd.info] = Append(files[rd.info], c)
        BY <1>1, <3>1, <3>3
      <4>2. /\ Len(files'[rd.info]) = Len(files[rd.info]) + 1
            /\ \A k \in 1..Len(files[rd.info]) : files'[rd.info][k] = files[rd.info][k]
        BY <2>1, <4>1
      <4>3. CASE Begins
        BY <1>1, <1>3, <2>1, <4>2, <4>3 DEF OnDisk, Begins
      <4>4. CASE shrunk /\ Len(files[rd.info]) < rd.offset
        <5>1. Len(files[rd.info]) + 1 < rd.offset
          BY <1>1, <2>1, <3>1, <3>3, <4>4 DEF HidesTruncation
        <5> QED BY <1>1, <1>3, <3>1, <4>2, <4>4, <5>1 DEF OnDisk
      <4> QED BY <1>3, <4>3, <4>4 DEF OnDisk
    <3> QED BY <3>2, <3>3
  <2> QED BY <2>3, <2>4, <2>5 DEF Engine
<1> QED BY <1>2, <1>3

LEMMA OtherOnDisk ==
    IInv /\ OnDisk /\ (Fail \/ ReadEnds \/ FeedPart \/ FeedLine \/ FeedEnds \/ Return
                       \/ UNCHANGED vars) => OnDisk'
<1> SUFFICES ASSUME IInv, OnDisk, Fail \/ ReadEnds \/ FeedPart \/ FeedLine \/ FeedEnds \/ Return
                                  \/ UNCHANGED vars
             PROVE  OnDisk'
  OBVIOUS
<1>1. UNCHANGED <<files, seen, shrunk>>
  BY DEF Fail, ReadEnds, FeedPart, FeedLine, FeedEnds, Return, vars
<1>2. rd'.info = rd.info /\ rd'.offset = rd.offset
  BY DEF Fail, ReadEnds, FeedPart, FeedLine, FeedEnds, Return, vars, Keep, IInv, TypeOK
<1> QED BY <1>1, <1>2 DEF OnDisk, Begins

(* A Collect that has caught up exposes the number of lines of the log it  *)
(* has open, for any log and however it was replaced or truncated before,  *)
(* if a truncated log does not grow back to the offset between two reads.  *)
THEOREM ExposesWholeLog ==
    ASSUME "regrow" \notin Disturbances
    PROVE  Spec => []ExposesTheLog
<1>1. Init => OnDisk
  BY DEF Init, OnDisk
<1>2. IInv /\ OnDisk /\ [Next]_vars => OnDisk'
  BY OpenOnDisk, ReadChunkOnDisk, EngineOnDisk, OtherOnDisk DEF Next, Collect
<1>3. IInv /\ OnDisk => ExposesTheLog
  <2> SUFFICES ASSUME IInv, OnDisk, call.pc = "stat", ~shrunk, Backlog = 0
               PROVE  cycles = Cardinality(KeptLines(files[rd.info], Len(files[rd.info])))
    BY DEF ExposesTheLog
  <2>1. /\ rd.info \in 1..MaxFiles /\ rd.info # 0 /\ done = Len(seen)
        /\ rd.offset = Len(seen) /\ Len(seen) \in Nat
    BY FilesAssumption DEF IInv, TypeOK
  <2>2. Len(files[rd.info]) \in Nat
    BY <2>1 DEF IInv, TypeOK
  <2>3. Begins
    BY <2>1 DEF OnDisk
  <2>4. Len(files[rd.info]) = Len(seen)
    BY <2>1, <2>2, <2>3 DEF Begins, Backlog
  <2>5. KeptLines(files[rd.info], Len(seen)) = KeptLines(seen, Len(seen))
    BY <2>1, <2>3, KeptPrefix DEF Begins
  <2> QED BY <2>1, <2>4, <2>5 DEF IInv, CountsLines
<1> QED BY <1>1, <1>2, <1>3, Invariant, PTL DEF Spec
=============================================================================
