------------------------------ MODULE FileIO ------------------------------
(***************************************************************************)
(* Pascal text and typed files as prelude.h builds them from C streams,    *)
(* and the status that IoResult returns.  A program with a few file        *)
(* variables calls the routines in any order.                              *)
(*                                                                         *)
(* A record is a line of a text file or an element of a typed file.  A C   *)
(* stream (external) keeps what is written to it until it drains: when it  *)
(* likes, and at the latest when it is closed.  It reads ahead to the end  *)
(* of the file.  The disk holds at most Capacity records; draining into a  *)
(* full disk sets the error mark of the stream and loses the rest.         *)
(*                                                                         *)
(* relied is history: for each name what the statuses that the program     *)
(* saw entitle it to find in the file, or Unknown when one was an error,   *)
(* or when a routine that reports nothing found the disk full.             *)
(***************************************************************************)
EXTENDS Integers, Sequences, SequencesExt, FiniteSets, FiniteSetsExt

CONSTANTS FileVars, FileNames,  \* file variables and file names
          Unwritable,   \* names that cannot be opened for writing
          Records, Hole, \* what is written, and what a seek past the end leaves
          Capacity,     \* records that the disk holds
          MaxRecords    \* bound on the records in a file or a stream

\* Not contents of a file, and not a name.
NoFile == <<"no_file">>
Unknown == <<"unknown">>
NoName == "no_name"

ASSUME FilesAssumption ==
  /\ Unwritable \subseteq FileNames /\ NoName \notin FileNames
  /\ {"no_file", "unknown", Hole} \cap Records = {} /\ Hole \notin {"no_file", "unknown"}
  /\ Capacity \in Nat /\ MaxRecords \in Nat

VARIABLES disk, name, stream, last, relied
fileState == <<disk, name, stream, last, relied>>

Statuses == {0, 2, 5, 100, 101, 103}

Contents == UNION {[1 .. n -> Records \cup {Hole}] : n \in 0 .. MaxRecords}
Closed == [mode |-> "closed", pos |-> 0, pending |-> <<>>, ahead |-> <<>>, failed |-> FALSE]
Opened(mode, pos) == [Closed EXCEPT !.mode = mode, !.pos = pos]

FilesInit == /\ disk = [n \in FileNames |-> NoFile]
        /\ name = [v \in FileVars |-> NoName]
        /\ stream = [v \in FileVars |-> Closed]
        /\ last = 0
        /\ relied = [n \in FileNames |-> NoFile]

----------------------------------------------------------------------------
(* C streams *)

IsOpen(v) == stream[v].mode # "closed"
Writes(v) == stream[v].mode \in {"write", "append"}
Size(n) == IF disk[n] = NoFile THEN 0 ELSE Len(disk[n])
Used == FoldSet(LAMBDA n, sum : sum + Size(n), 0, FileNames)

\* The sequence s with the records r from position p on.
PutAt(s, p, r) ==
    [k \in 1 .. IF p + Len(r) > Len(s) THEN p + Len(r) ELSE Len(s) |->
        IF k > p /\ k <= p + Len(r) THEN r[k - p] ELSE IF k <= Len(s) THEN s[k] ELSE Hole]

Start(v) == IF stream[v].mode = "append" THEN Size(name[v]) ELSE stream[v].pos
\* Where the next record of v goes.
Position(v) == Start(v) + Len(stream[v].pending)
\* What a drained stream leaves in its file: all that it holds, or what fits.
Drained(v) == PutAt(disk[name[v]], Start(v), stream[v].pending)
\* The disk has room for the contents s of the file n.
HasRoom(n, s) == Used - Size(n) + Len(s) <= Capacity
Fits(v) == HasRoom(name[v], Drained(v))
Left(v) == IF Fits(v) THEN Drained(v) ELSE SubSeq(Drained(v), 1, Size(name[v]))

\* The disk and the stream once v has been drained.
DiskAfter(v) == IF stream[v].pending = <<>> THEN disk ELSE [disk EXCEPT ![name[v]] = Left(v)]
\* Draining nothing changes nothing.
StreamAfter(v) == IF stream[v].pending = <<>> THEN stream[v] ELSE
                  [stream[v] EXCEPT !.pending = <<>>,
                                    !.pos = Position(v),
                                    !.failed = @ \/ ~Fits(v)]
----------------------------------------------------------------------------
(* The status *)

\* tp2cc_set_ioresult.  An error in a call on v ends what the program knows of its file.
SetIoResult(v, code) == last' = code
Doubt(v, code, belief) == IF code # 0 /\ name[v] # NoName THEN [belief EXCEPT ![name[v]] = Unknown] ELSE belief
IoResult == last # 0 /\ last' = 0 /\ UNCHANGED <<disk, name, stream, relied>>

\* p_assign would forget the stream of an open file; programs assign closed ones.
Assign(v, n) ==
    /\ ~IsOpen(v)
    /\ name' = [name EXCEPT ![v] = n]
    /\ stream' = [stream EXCEPT ![v] = Closed]
    /\ SetIoResult(v, 0)
    /\ UNCHANGED <<disk, relied>>

\* What fclose and fflush cannot write, p_close and p_truncate tell no one of.
Unreported(v, belief) ==
    IF Writes(v) /\ stream[v].pending # <<>> /\ ~Fits(v) THEN [belief EXCEPT ![name[v]] = Unknown] ELSE belief

\* Mutant: the stream is forgotten, as p_assign does, and not closed.
DiskAfterForgotten(v) == disk

\* fclose drains the stream first.
DiskAfterClose(v) == IF Writes(v) THEN DiskAfter(v) ELSE disk

\* Programs open a file for writing only while no other variable uses it.
MayOpen(v, writing) == \A w \in FileVars \ {v} : IsOpen(w) /\ name[w] = name[v] => ~writing /\ ~Writes(w)

Reset(v) ==
    /\ MayOpen(v, FALSE)
    /\ LET found == name[v] # NoName /\ DiskAfterClose(v)[name[v]] # NoFile
       IN /\ stream' = [stream EXCEPT ![v] = IF found THEN Opened("read", 0) ELSE Closed]
          /\ SetIoResult(v, IF found THEN 0 ELSE 2)
    /\ disk' = DiskAfterClose(v)
    /\ relied' = Unreported(v, relied)
    /\ UNCHANGED name

Creates(v) == name[v] # NoName /\ name[v] \notin Unwritable

Rewrite(v) ==
    /\ MayOpen(v, TRUE)
    /\ stream' = [stream EXCEPT ![v] = IF Creates(v) THEN Opened("write", 0) ELSE Closed]
    /\ disk' = IF Creates(v) THEN [DiskAfterClose(v) EXCEPT ![name[v]] = <<>>] ELSE DiskAfterClose(v)
    /\ relied' = IF Creates(v) THEN [relied EXCEPT ![name[v]] = <<>>] ELSE Unreported(v, relied)
    /\ SetIoResult(v, IF Creates(v) THEN 0 ELSE 5)
    /\ UNCHANGED name

ExistingOrEmpty(s) == IF s = NoFile THEN <<>> ELSE s

AppendTo(v) ==
    /\ MayOpen(v, TRUE)
    /\ stream' = [stream EXCEPT ![v] = IF Creates(v) THEN Opened("append", 0) ELSE Closed]
    /\ disk' = IF Creates(v) THEN [DiskAfterClose(v) EXCEPT ![name[v]] = ExistingOrEmpty(@)] ELSE DiskAfterClose(v)
    /\ relied' = IF Creates(v) THEN [Unreported(v, relied) EXCEPT ![name[v]] = ExistingOrEmpty(@)]
                 ELSE Unreported(v, relied)
    /\ SetIoResult(v, IF Creates(v) THEN 0 ELSE 5)
    /\ UNCHANGED name

\* p_close sets the status to 0 whatever fclose returns.
Close(v) ==
    /\ disk' = DiskAfterClose(v)
    /\ stream' = [stream EXCEPT ![v] = Closed]
    /\ SetIoResult(v, 0)
    /\ relied' = Unreported(v, relied)
    /\ UNCHANGED name

----------------------------------------------------------------------------
(* Calls on an open file *)

NotOpen(v) ==
    /\ ~IsOpen(v)
    /\ SetIoResult(v, 103)
    /\ UNCHANGED <<disk, name, stream>>
    /\ relied' = Doubt(v, 103, relied)

\* A stream that is open for reading takes nothing and marks its error.  One
\* that is open for writing holds the record, and may drain at once.
WriteStream(v, x, drains) ==
    LET s == stream[v]
        held == Append(s.pending, x)
        all == PutAt(disk[name[v]], Start(v), held)
        fits == HasRoom(name[v], all)
    IN IF ~Writes(v) THEN /\ stream' = [stream EXCEPT ![v] = [s EXCEPT !.failed = TRUE]]
                          /\ disk' = disk
       ELSE IF ~drains THEN /\ stream' = [stream EXCEPT ![v] = [s EXCEPT !.pending = held]]
                            /\ disk' = disk
       ELSE /\ disk' = [disk EXCEPT ![name[v]] = IF fits THEN all ELSE SubSeq(all, 1, Size(name[v]))]
            /\ stream' = [stream EXCEPT ![v] = [s EXCEPT !.pending = <<>>, !.pos = Start(v) + Len(held),
                                                         !.failed = s.failed \/ ~fits]]

\* writeln, write and blockwrite.
Write(v, x) ==
    \/ NotOpen(v)
    \/ /\ IsOpen(v) /\ Position(v) < MaxRecords
       /\ \E drains \in BOOLEAN : WriteStream(v, x, drains)
       /\ LET code == IF stream'[v].failed THEN 101 ELSE 0
          IN /\ SetIoResult(v, code)
             /\ relied' = Doubt(v, code, IF relied[name[v]] \in {Unknown, NoFile} THEN relied
                                         ELSE [relied EXCEPT ![name[v]] = PutAt(@, Position(v), <<x>>)])
       /\ UNCHANGED name

\* What a reading stream has ahead of it.
Ahead(v) == IF stream[v].ahead # <<>> THEN stream[v].ahead
            ELSE SubSeq(disk[name[v]], stream[v].pos + 1, Size(name[v]))

\* Reading one record: the stream of a reader moves on, that of a writer fails.
StreamAfterRead(v) ==
    IF Writes(v) THEN [stream[v] EXCEPT !.failed = TRUE]
    ELSE IF Ahead(v) = <<>> THEN stream[v]
    ELSE [stream[v] EXCEPT !.ahead = Tail(Ahead(v)), !.pos = @ + 1]
ReadStream(v) == stream' = [stream EXCEPT ![v] = StreamAfterRead(v)]

\* readln leaves the status alone, also on a closed file.
ReadLn(v) ==
    /\ IsOpen(v)
    /\ ReadStream(v)
    /\ UNCHANGED <<disk, name, last, relied>>

BlockRead(v) ==
    \/ NotOpen(v)
    \/ /\ IsOpen(v)
       /\ ReadStream(v)
       /\ LET code == IF stream'[v].failed THEN 100 ELSE 0
          IN SetIoResult(v, code) /\ relied' = Doubt(v, code, relied)
       /\ UNCHANGED <<disk, name>>

\* eof looks at the next record and puts it back; it has no status.
Eof(v) ==
    /\ IsOpen(v)
    /\ stream' = [stream EXCEPT ![v] = IF Writes(v) THEN [@ EXCEPT !.failed = TRUE] ELSE [@ EXCEPT !.ahead = Ahead(v)]]
    /\ UNCHANGED <<disk, name, last, relied>>

Sought(s, p) == [s EXCEPT !.pos = p, !.ahead = <<>>]

\* fseek drains a writing stream and drops what a reading one has read ahead.
\* Append opens text files, which have neither Seek nor Truncate.
Seek(v, p) ==
    \/ NotOpen(v)
    \/ /\ stream[v].mode \in {"read", "write"}
       /\ LET drained == StreamAfter(v)
              lost == stream[v].pending # <<>> /\ ~Fits(v)
              code == IF lost THEN 103 ELSE 0
          IN /\ stream' = [stream EXCEPT ![v] = IF lost THEN drained ELSE Sought(drained, p)]
             /\ SetIoResult(v, code)
             /\ relied' = Doubt(v, code, relied)
       /\ disk' = DiskAfter(v)
       /\ UNCHANGED name

\* ftruncate cuts or extends the drained file at the position of the stream.
Truncate(v) ==
    \/ NotOpen(v)
    \/ /\ stream[v].mode \in {"read", "write"}
       /\ LET code == IF Writes(v) THEN 0 ELSE 103
              cut(s) == [k \in 1 .. Position(v) |-> IF k <= Len(s) THEN s[k] ELSE Hole]
          IN /\ SetIoResult(v, code)
             /\ disk' = IF Writes(v) THEN [DiskAfter(v) EXCEPT ![name[v]] = cut(@)] ELSE disk
             /\ stream' = IF Writes(v) THEN [stream EXCEPT ![v] = StreamAfter(v)] ELSE stream
             /\ relied' = Doubt(v, code, Unreported(v,
                            IF relied[name[v]] \in {Unknown, NoFile} THEN relied
                            ELSE [relied EXCEPT ![name[v]] = cut(@)]))
       /\ UNCHANGED name

----------------------------------------------------------------------------

FilesNext == \/ IoResult
        \/ \E v \in FileVars : \/ \E n \in FileNames : Assign(v, n)
                            \/ Reset(v) \/ Rewrite(v) \/ AppendTo(v) \/ Close(v)
                            \/ \E x \in Records : Write(v, x)
                            \/ ReadLn(v) \/ BlockRead(v) \/ Eof(v)
                            \/ \E p \in 0 .. MaxRecords - 1 : Seek(v, p)
                            \/ Truncate(v)

FilesSpec == FilesInit /\ [][FilesNext]_fileState

----------------------------------------------------------------------------
(* Properties *)

Known(n) == relied[n] \notin {Unknown, NoFile}

\* A file that no variable has open for writing holds what the program wrote,
\* when each of its calls on that file returned the status 0 (IoResult
\* "returns and clears the last runtime I/O status", user_manual.org:1057), and
\* none of them found the disk full without a word.
ClosedFilesAreComplete ==
    \A n \in FileNames : Known(n) /\ (\A v \in FileVars : Writes(v) => name[v] # n) => disk[n] = relied[n]

\* A reader has before it the rest of what was written, also after seeks, and
\* although the stream reads ahead.
ReadersSeeTheRest ==
    \A v \in FileVars : stream[v].mode = "read" /\ Known(name[v])
        => Ahead(v) = SubSeq(relied[name[v]], stream[v].pos + 1, Len(relied[name[v]]))

\* Files keep what was written: the two above.
\* (p_close, p_rewrite, p_blockwrite, p_truncate, p_reset, p_eof, p_seek.)
FilesKeepWhatWasWritten == ClosedFilesAreComplete /\ ReadersSeeTheRest
============================================================================
