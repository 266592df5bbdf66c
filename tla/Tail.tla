--------------------------------- MODULE Tail ---------------------------------
(***************************************************************************)
(* Counting the lines of a log while an engine writes it:                  *)
(* internal/tail/tail.go, with the ds4 adapter on top of it                *)
(* (internal/adapter/ds4/ds4.go).                                          *)
(*                                                                         *)
(* A Collect opens the log, decides whether it is still the file the       *)
(* offset belongs to, reads at most maxRead bytes through a buffer, feeds  *)
(* each buffer to the line splitter, and looks at the size again to learn  *)
(* whether it has caught up.  The engine appends, truncates and replaces   *)
(* the log between any two of these steps.                                 *)
(*                                                                         *)
(* A byte is a newline or it is not, and every line the adapter is given   *)
(* counts for one cycle.  seen holds the bytes read since the last reset,  *)
(* the ones after done being still in buf.                                 *)
(***************************************************************************)
EXTENDS Integers, Sequences, FiniteSets

CONSTANTS
    BufSize,       \* min(maxRead, 64<<10)
    MaxRead,       \* maxRead, the bytes read per call
    MaxLine,       \* maxLine, the longest line kept
    MaxFiles,      \* bound: files the path names one after the other
    MaxSize,       \* bound: the size of a file
    Disturbances   \* what the engine does besides appending, of:

(* "replace": the path names a new file.  "truncate": the file is emptied. *)
(* "regrow": it then grows past the reader's offset before the next read.  *)
AllDisturbances == {"replace", "truncate", "regrow"}

(* ds4 keeps lines of 64 KiB, the request log of 1 MiB: never less than a  *)
(* buffer.                                                                 *)
ASSUME SizesAssumption ==
    /\ BufSize \in Nat /\ MaxRead \in Nat /\ MaxLine \in Nat
    /\ 0 < BufSize /\ BufSize <= MaxRead /\ BufSize <= MaxLine
ASSUME FilesAssumption == MaxFiles \in Nat /\ MaxSize \in Nat
ASSUME DisturbancesAssumption == Disturbances \subseteq AllDisturbances

VARIABLES
    files,    \* the bytes of every file there has been
    path,     \* the file the path names, 0 before the engine creates it
    rd,       \* Reader: offset, info (a file or 0), partial (its length),
              \* skipping
    call,     \* Collect and Read: pc and read
    cycles,   \* the adapter's counter
    exposed,  \* what the last Collect returned: cycles or None
    seen,     \* the bytes read since the last reset
    done,     \* how many of them feed has dealt with
    shrunk    \* observer: the file of rd was truncated since its first Stat

vars == <<files, path, rd, call, cycles, exposed, seen, done, shrunk>>

None == -1
Byte == {"x", "n"}

Min(a, b) == IF a < b THEN a ELSE b

Init ==
    /\ files = [f \in 1..MaxFiles |-> <<>>] /\ path = 0
    /\ rd = [offset |-> 0, info |-> 0, partial |-> 0, skipping |-> FALSE]
    /\ call = [pc |-> "idle", read |-> 0]
    /\ cycles = 0 /\ exposed = None
    /\ seen = <<>> /\ done = 0 /\ shrunk = FALSE

-----------------------------------------------------------------------------
(* Read and Collect. *)

(* mutant: only another file is noticed *)
NewFile(f) == rd.info # 0 /\ rd.info # f

(* The path names another file, or the file is shorter than the offset. *)
IsReset(f) == rd.info # 0 /\ (rd.info # f \/ Len(files[f]) < rd.offset)

(* Open and Stat; onReset is the adapter's reset. *)
Open ==
    /\ call.pc = "idle" /\ path # 0
    /\ IF IsReset(path)
       THEN /\ rd' = [offset |-> 0, info |-> path, partial |-> 0, skipping |-> FALSE]
            /\ cycles' = 0 /\ seen' = <<>> /\ done' = 0
       ELSE rd' = [rd EXCEPT !.info = path] /\ UNCHANGED <<cycles, seen, done>>
    /\ call' = [pc |-> "read", read |-> 0]
    /\ shrunk' = FALSE
    /\ UNCHANGED <<files, path, exposed>>

(* There is no log yet, or a system call fails: Collect returns no sample. *)
Fail ==
    /\ \/ call.pc = "idle" /\ path = 0
       \/ call.pc \in {"read", "stat"}
    /\ call' = [pc |-> "idle", read |-> 0]
    /\ exposed' = None
    /\ UNCHANGED <<files, path, rd, cycles, seen, done, shrunk>>

(* mutant: maxRead bounds what is read of the file *)
MoreOfFile == rd.offset < MaxRead

(* for read < r.maxRead *)
MayRead == call.read < MaxRead

(* f.Read fills the buffer, or the part of it that there is data for. *)
ReadChunk ==
    /\ call.pc = "read" /\ MayRead
    /\ LET data == files[rd.info]
           most == Min(Min(BufSize, MaxRead - call.read), Len(data) - rd.offset)
       IN  \E n \in 1..most :
              /\ seen' = seen \o SubSeq(data, rd.offset + 1, rd.offset + n)
              /\ rd' = [rd EXCEPT !.offset = @ + n]
              /\ call' = [pc |-> "feed", read |-> call.read + n]
    /\ UNCHANGED <<files, path, cycles, exposed, done, shrunk>>

(* maxRead bytes are read, or f.Read returns io.EOF. *)
ReadEnds ==
    /\ call.pc = "read"
    /\ ~MayRead \/ Len(files[rd.info]) <= rd.offset
    /\ call' = [call EXCEPT !.pc = "stat"]
    /\ UNCHANGED <<files, path, rd, cycles, exposed, seen, done, shrunk>>

(* mutant: the partial line is not added to *)
KeepLast(r, n) ==
    IF r.skipping THEN r
    ELSE IF n > MaxLine THEN [r EXCEPT !.partial = 0, !.skipping = TRUE]
    ELSE [r EXCEPT !.partial = n]

(* mutant: a long line is kept *)
KeepAll(r, n) == IF r.skipping THEN r ELSE [r EXCEPT !.partial = @ + n]

(* keep: n more bytes of a line whose newline has not come. *)
Keep(r, n) ==
    IF r.skipping THEN r
    ELSE IF r.partial + n > MaxLine THEN [r EXCEPT !.partial = 0, !.skipping = TRUE]
    ELSE [r EXCEPT !.partial = @ + n]

Newlines == {i \in done + 1 .. Len(seen) : seen[i] = "n"}

(* feed: the rest of the buffer has no newline. *)
FeedPart ==
    /\ call.pc = "feed" /\ done < Len(seen)
    /\ Newlines = {}
    /\ rd' = Keep(rd, Len(seen) - done)
    /\ done' = Len(seen)
    /\ UNCHANGED <<files, path, call, cycles, exposed, seen, shrunk>>

(* feed: a newline at i completes a line.  A line that lies in the buffer  *)
(* as a whole is handed over as it is; one with a kept part is put         *)
(* together first, which may make it too long.                             *)
FeedLine ==
    /\ call.pc = "feed"
    /\ \E i \in Newlines :
          /\ \A j \in Newlines : i <= j
          /\ LET r == IF rd.partial > 0 THEN Keep(rd, i - done - 1) ELSE rd
             IN  cycles' = IF r.skipping THEN cycles ELSE cycles + 1
          /\ rd' = [rd EXCEPT !.partial = 0, !.skipping = FALSE]
          /\ done' = i
    /\ UNCHANGED <<files, path, call, exposed, seen, shrunk>>

FeedEnds ==
    /\ call.pc = "feed" /\ done = Len(seen)
    /\ call' = [call EXCEPT !.pc = "read"]
    /\ UNCHANGED <<files, path, rd, cycles, exposed, seen, done, shrunk>>

Backlog == IF Len(files[rd.info]) > rd.offset THEN Len(files[rd.info]) - rd.offset ELSE 0

(* The second Stat.  Collect returns the counter, unless there is a        *)
(* backlog or no cycle at all.                                             *)
Return ==
    /\ call.pc = "stat"
    /\ exposed' = IF Backlog > 0 \/ cycles = 0 THEN None ELSE cycles
    /\ call' = [pc |-> "idle", read |-> 0]
    /\ UNCHANGED <<files, path, rd, cycles, seen, done, shrunk>>

Collect == Open \/ Fail \/ ReadChunk \/ ReadEnds \/ FeedPart \/ FeedLine
           \/ FeedEnds \/ Return

-----------------------------------------------------------------------------
(* The engine. *)

(* A truncated file that grows back to the offset cannot be told from one  *)
(* that was only appended to.                                              *)
HidesTruncation == shrunk /\ rd.offset > 0 /\ Len(files[path]) + 1 >= rd.offset

Append1(c) ==
    /\ path # 0 /\ Len(files[path]) < MaxSize
    /\ path = rd.info /\ HidesTruncation => "regrow" \in Disturbances
    /\ files' = [files EXCEPT ![path] = Append(@, c)]
    /\ UNCHANGED <<path, rd, call, cycles, exposed, seen, done, shrunk>>

Create ==
    /\ path < MaxFiles
    /\ path = 0 \/ "replace" \in Disturbances
    /\ path' = path + 1
    /\ UNCHANGED <<files, rd, call, cycles, exposed, seen, done, shrunk>>

Truncate ==
    /\ "truncate" \in Disturbances
    /\ path # 0 /\ files[path] # <<>>
    /\ files' = [files EXCEPT ![path] = <<>>]
    /\ shrunk' = (shrunk \/ path = rd.info)
    /\ UNCHANGED <<path, rd, call, cycles, exposed, seen, done>>

Engine == (\E c \in Byte : Append1(c)) \/ Create \/ Truncate

Next == Collect \/ Engine

Spec == Init /\ [][Next]_vars

(* The engine creates its log, the exporter is scraped for ever, and a     *)
(* read that is tried again and again succeeds.                            *)
FairSpec == Spec /\ WF_vars(Collect) /\ WF_vars(path = 0 /\ Create)
                 /\ SF_vars(ReadChunk) /\ SF_vars(Return)

-----------------------------------------------------------------------------
(* Every variable has its type; nothing is in buf outside of feed, and the *)
(* offset is the number of bytes read since the last reset.                *)
TypeOK ==
    /\ files \in [1..MaxFiles -> Seq(Byte)] /\ path \in 0..MaxFiles
    /\ rd \in [offset : Nat, info : 0..MaxFiles, partial : 0..MaxLine,
               skipping : BOOLEAN]
    /\ call \in [pc : {"idle", "read", "feed", "stat"}, read : 0..MaxRead]
    /\ cycles \in Nat /\ exposed \in Nat \cup {None} /\ shrunk \in BOOLEAN
    /\ seen \in Seq(Byte) /\ done \in 0..Len(seen)
    /\ rd.offset = Len(seen) /\ Len(seen) - done <= BufSize
    /\ call.pc # "feed" => done = Len(seen)
    /\ call.pc # "idle" => rd.info # 0

(* A line of s starts after q and has no newline before p. *)
Line(s, q, p) ==
    /\ q = 0 \/ s[q] = "n"
    /\ \A k \in q + 1 .. p - 1 : s[k] # "n"

(* The newlines among the first n bytes of s that end a line of at most    *)
(* MaxLine bytes.                                                          *)
KeptLines(s, n) ==
    {p \in 1..n : /\ s[p] = "n"
                  /\ \E q \in 0 .. p - 1 : Line(s, q, p) /\ p - 1 - q <= MaxLine}

(* However the bytes were cut into calls and buffers, the adapter has      *)
(* counted the lines of the log that are not too long, each once.          *)
CountsLines == cycles = Cardinality(KeptLines(seen, done))

(* A Collect that has caught up exposes the number of lines the log holds, *)
(* unless the log was truncated during this very call.                     *)
ExposesTheLog ==
    call.pc = "stat" /\ ~shrunk /\ Backlog = 0 =>
        cycles = Cardinality(KeptLines(files[rd.info], Len(files[rd.info])))

(* Once the log is not truncated any more and stops growing, the reader    *)
(* catches up, however much smaller than the log maxRead is and however    *)
(* the log was replaced meanwhile.                                         *)
CatchesUp ==
    <>[][~Truncate]_vars => []<>(path # 0 /\ rd.offset = Len(files[path]))
=============================================================================
