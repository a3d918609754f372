--------------------------- MODULE PersistentFile ---------------------------
(***************************************************************************)
(* persistent_file as the muxer uses it: the compression layer over        *)
(* file::stream over file::splitter.  (The bbdo layer above puts each      *)
(* event in one buffer, hence in one compressed record.)                   *)
(*                                                                         *)
(* The file is a sequence of parts, a part a sequence of cells.  A record  *)
(* is ChunkLen cells <<e, 1>> .. <<e, ChunkLen>>: the first one holds the  *)
(* size of the record, the others its compressed bytes.  The muxer holds   *)
(* its mutex during a call, so reads and writes do not overlap; a crash, a *)
(* full disk or a part removed from the directory may come between any two *)
(* steps of a call.                                                        *)
(***************************************************************************)
EXTENDS Naturals, Sequences, FiniteSets, SequencesExt

CONSTANTS
    FileEvents,     \* bound: number of events written
    FileStarts,     \* bound: number of times the file is opened
    FileFaults,     \* bound: number of full disks and of removed parts
    ChunkLen,       \* cells of a record
    MaxPart,        \* _max_file_size, in cells
    BufSize,        \* BUFSIZ, in cells
    GarbageSizes    \* sizes that payload bytes may decode to, 0: out of bounds

ASSUME FileAssumption ==
    /\ FileEvents \in Nat /\ FileStarts \in Nat /\ FileFaults \in Nat
    /\ ChunkLen \in Nat \ {0} /\ MaxPart \in Nat /\ MaxPart >= ChunkLen
    /\ BufSize \in Nat \ {0} /\ GarbageSizes \subseteq Nat

VARIABLES
    fphase,     \* "closed", "idle", "read" or "write" (in a call of the muxer)
    parts,      \* parts _rid .. _wid: [cells, dirty] or Gone
    rfile,      \* _rfile: "null", "shared" (same FILE as _wfile) or "own"
    roffset,    \* _roffset, in cells
    rbuffer,    \* compression::stream::_rbuffer
    ended,      \* compression::stream::_shutdown
    left,       \* remaining, in splitter::write
    full,       \* the disk is full
    garbage,    \* what a payload cell means as a size
    wnext,      \* history: number of the next event
    given,      \* history: events returned since the file was opened
    read,       \* history: all the events returned
    dropped,    \* history: events a crash, a removal or a short write has dropped
    refused,    \* history: events whose write has thrown
    damaged,    \* history: an incomplete record is or was in the file
    openings,   \* number of times the file was opened
    fileFaults  \* number of faults of the disk

pfVars == <<fphase, parts, rfile, roffset, rbuffer, ended, left, full, garbage,
            wnext, given, read, dropped, refused, damaged, openings, fileFaults>>

Chunk(e) == [i \in 1 .. ChunkLen |-> <<e, i>>]

(* A part whose file is missing from the directory. *)
Gone == [cells |-> <<>>, dirty |-> 0, gone |-> TRUE]
Part(cells, dirty) == [cells |-> cells, dirty |-> dirty, gone |-> FALSE]

AllCells(ps) == FlattenSeq([i \in 1 .. Len(ps) |-> ps[i].cells])

(* The events of the complete records of a sequence of cells, in order. *)
Events(cells) ==
    LET ends == SelectSeq(cells, LAMBDA c : c[2] = ChunkLen)
    IN  [i \in 1 .. Len(ends) |-> ends[i][1]]

(* The same, as a set. *)
EventSet(cells) == {cells[i][1] : i \in {j \in DOMAIN cells : cells[j][2] = ChunkLen}}

Recorded(ps) == UNION {EventSet(ps[i].cells) : i \in DOMAIN ps}
OnDisk == Recorded(parts)
Buffered == EventSet(rbuffer)

PfInit ==
    /\ fphase = "closed" /\ parts = <<>>
    /\ rfile = "null" /\ roffset = 0 /\ rbuffer = <<>> /\ ended = FALSE
    /\ left = 0 /\ full = FALSE /\ garbage \in GarbageSizes
    /\ wnext = 1 /\ given = <<>> /\ read = {} /\ dropped = {} /\ refused = {}
    /\ damaged = FALSE /\ openings = 0 /\ fileFaults = 0

-----------------------------------------------------------------------------
(* splitter::splitter: the parts of the directory, from the lowest to the  *)
(* highest number, and the last one (or the first ever) open for writing.  *)
OpenParts ==
    /\ fphase = "closed"
    /\ openings < FileStarts
    /\ openings' = openings + 1
    /\ fphase' = "idle"
    /\ parts' = LET present == {i \in 1 .. Len(parts) : ~parts[i].gone}
                IN  IF present = {} THEN <<Part(<<>>, 0)>>
                    ELSE SubSeq(parts, CHOOSE i \in present : \A j \in present : i <= j,
                                Len(parts))
    /\ rfile' = "null" /\ roffset' = 0 /\ rbuffer' = <<>> /\ ended' = FALSE
    /\ given' = <<>>
    /\ UNCHANGED <<left, full, garbage, wnext, read, dropped, refused, damaged, fileFaults>>

-----------------------------------------------------------------------------
(* Writing. *)

(* splitter::write, first part: a part that would grow beyond its maximum  *)
(* is followed by a new one.  The FILE of the old one is closed, hence     *)
(* flushed, unless the reader shares it.                                   *)
NextPart ==
    IF Len(Last(parts).cells) + ChunkLen > MaxPart
      THEN Append((IF rfile = "shared" THEN parts
                   ELSE [parts EXCEPT ![Len(parts)].dirty = 0]), Part(<<>>, 0))
      ELSE [parts EXCEPT ![Len(parts)].dirty = 0]

(* A FILE shared by both sides stays with the reader after the roll. *)
ReaderFile ==
    IF rfile = "shared" /\ Len(NextPart) > Len(parts) THEN "own" ELSE rfile

(* compression::stream::write and _flush, then splitter::write: after the  *)
(* end of the file was met the record is refused.                          *)
BeginWrite ==
    /\ fphase = "idle"
    /\ wnext <= FileEvents
    /\ \/ /\ ended
          /\ refused' = refused \union {wnext}
          /\ wnext' = wnext + 1
          /\ UNCHANGED <<fphase, parts, rfile, left>>
       \/ /\ ~ended
          /\ fphase' = "write"
          /\ parts' = NextPart
          /\ rfile' = ReaderFile
          /\ left' = ChunkLen
          /\ UNCHANGED <<refused, wnext>>
    /\ UNCHANGED <<roffset, rbuffer, ended, full, garbage, given, read, dropped,
                   damaged, openings, fileFaults>>

(* splitter::write, one turn of the loop around fwrite: k cells are        *)
(* accepted.  The next turn starts at the beginning of the buffer again.   *)
WriteSome(k) ==
    /\ fphase = "write"
    /\ k <= left /\ (full => k < left)
    /\ left' = left - k
    /\ parts' = [parts EXCEPT ![Len(parts)] =
                    Part(@.cells \o SubSeq(Chunk(wnext), 1, k),
                         @.dirty + k)]
    /\ fphase' = IF left' = 0 THEN "idle" ELSE "write"
    /\ wnext' = IF left' = 0 THEN wnext + 1 ELSE wnext
    /\ dropped' = IF left' = 0 /\ k < ChunkLen THEN dropped \union {wnext} ELSE dropped
    /\ damaged' = (damaged \/ (k > 0 /\ k < ChunkLen))
    /\ UNCHANGED <<rfile, roffset, rbuffer, ended, full, garbage, given, read,
                   refused, openings, fileFaults>>

WriteStep == \E k \in 0 .. ChunkLen : (full \/ k = left) /\ WriteSome(k)

-----------------------------------------------------------------------------
(* Reading. *)

(* The size that compression::stream::read extracts, in cells. *)
Claim(cell) == IF cell[2] = 1 THEN ChunkLen ELSE garbage

(* How much _get_data is asked for: the size, then the whole record. *)
Wanted ==
    IF rbuffer = <<>> \/ Claim(Head(rbuffer)) = 0 THEN 1 ELSE Claim(Head(rbuffer))

BeginRead ==
    /\ fphase = "idle"
    /\ fphase' = "read"
    /\ UNCHANGED <<parts, rfile, roffset, rbuffer, ended, left, full, garbage,
                   wnext, given, read, dropped, refused, damaged, openings, fileFaults>>

(* splitter::_open_read_file: the last part is read through the FILE that  *)
(* writes it.                                                              *)
OpenMode(ps) == IF Len(ps) = 1 THEN "shared" ELSE IF ps[1].gone THEN "null" ELSE "own"

(* The parts of Fetch.  The FILE of the first part is opened. *)
OpenFirst ==
    /\ rfile = "null" /\ OpenMode(parts) # "null"
    /\ rfile' = OpenMode(parts) /\ roffset' = 0
    /\ UNCHANGED <<parts, rbuffer, ended>>

(* Cells are read; the seek before it flushes the FILE. *)
ReadCells ==
    /\ rfile # "null" /\ roffset < Len(parts[1].cells)
    /\ roffset' = IF roffset + BufSize < Len(parts[1].cells)
                    THEN roffset + BufSize ELSE Len(parts[1].cells)
    /\ rbuffer' = rbuffer \o SubSeq(parts[1].cells, roffset + 1, roffset')
    /\ parts' = [parts EXCEPT ![1].dirty = 0]
    /\ UNCHANGED <<rfile, ended>>

PartIsRead == rfile # "null" /\ roffset = Len(parts[1].cells)

(* The part is unlinked and the next one opened. *)
NextFile ==
    /\ PartIsRead /\ Len(parts) > 1
    /\ parts' = Tail(parts)
    /\ rfile' = OpenMode(Tail(parts)) /\ roffset' = 0
    /\ UNCHANGED <<rbuffer, ended>>

(* The shutdown exception of the last part is kept in mind. *)
LastEnd ==
    /\ PartIsRead /\ Len(parts) = 1
    /\ parts' = <<Part(<<>>, 0)>> /\ ended' = TRUE /\ roffset' = 0
    /\ UNCHANGED <<rfile, rbuffer>>

(* A call of _get_data waits for data. *)
Fetching ==
    /\ fphase = "read" /\ Len(rbuffer) < Wanted /\ ~ended
    /\ UNCHANGED <<fphase, left, full, garbage, wnext, given, read, dropped,
                   refused, damaged, openings, fileFaults>>

(* Mutant: the part is unlinked as soon as its last byte is in the buffer. *)
FetchUnlinksEarly ==
    /\ Fetching
    /\ \/ OpenFirst \/ LastEnd
       \/ ReadCells /\ roffset' < Len(parts[1].cells)
       \/ /\ rfile # "null" /\ Len(parts) > 1
          /\ roffset + BufSize >= Len(parts[1].cells)
          /\ rbuffer' = rbuffer \o SubSeq(parts[1].cells, roffset + 1,
                                          Len(parts[1].cells))
          /\ parts' = Tail(parts) /\ rfile' = OpenMode(Tail(parts)) /\ roffset' = 0
          /\ UNCHANGED ended

(* Mutant: the read side does not go on to the next part. *)
FetchStays == Fetching /\ (OpenFirst \/ ReadCells)

(* _get_data, one call of splitter::read: the file is opened; or cells are *)
(* read; or the part has ended.  Nothing happens while the part is         *)
(* missing: the call returns 0 and its callers call it again.              *)
Fetch == Fetching /\ (OpenFirst \/ ReadCells \/ NextFile \/ LastEnd)

Fetched == fphase = "read" /\ rbuffer # <<>> /\ (Len(rbuffer) >= Wanted \/ ended)

(* The record at the start of the buffer can be uncompressed. *)
WholeRecord ==
    /\ Head(rbuffer)[2] = 1
    /\ IsPrefix(Chunk(Head(rbuffer)[1]), rbuffer)

(* compression::stream::read: a record is given to the muxer. *)
Deliver ==
    /\ Fetched /\ WholeRecord
    /\ given' = Append(given, Head(rbuffer)[1])
    /\ read' = read \union {Head(rbuffer)[1]}
    /\ rbuffer' = SubSeq(rbuffer, ChunkLen + 1, Len(rbuffer))
    /\ fphase' = "idle"
    /\ UNCHANGED <<parts, rfile, roffset, ended, left, full, garbage, wnext,
                   dropped, refused, damaged, openings, fileFaults>>

(* Mutant: a whole record is skipped when the data is corrupted. *)
SkipRecord ==
    /\ Fetched /\ ~WholeRecord
    /\ rbuffer' = SubSeq(rbuffer, 1 + Wanted, Len(rbuffer))
    /\ UNCHANGED <<fphase, parts, rfile, roffset, ended, left, full, garbage, wnext,
                   given, read, dropped, refused, damaged, openings, fileFaults>>

(* compression::stream::read: corrupted data is skipped byte by byte. *)
Skip ==
    /\ Fetched /\ ~WholeRecord
    /\ rbuffer' = Tail(rbuffer)
    /\ UNCHANGED <<fphase, parts, rfile, roffset, ended, left, full, garbage, wnext,
                   given, read, dropped, refused, damaged, openings, fileFaults>>

(* No data and no file left: the shutdown exception reaches the muxer,     *)
(* which releases the file.  The part is already unlinked.                 *)
ReadEnd ==
    /\ fphase = "read" /\ rbuffer = <<>> /\ ended
    /\ fphase' = "closed"
    /\ parts' = <<>>
    /\ rfile' = "null" /\ roffset' = 0 /\ ended' = FALSE
    /\ UNCHANGED <<rbuffer, left, full, garbage, wnext, given, read, dropped, refused,
                   damaged, openings, fileFaults>>

-----------------------------------------------------------------------------
(* The end of the object or of the process, and faults of the disk. *)

(* Each part loses some of the cells that were in stdio buffers. *)
Keep(ks) ==
    [i \in 1 .. Len(parts) |->
        IF parts[i].gone THEN Gone
        ELSE Part(SubSeq(parts[i].cells, 1, Len(parts[i].cells) - ks[i]), 0)]

(* A part ends with an incomplete record. *)
Torn(cells) == cells # <<>> /\ Last(cells)[2] # ChunkLen

StopWith(ks) ==
    /\ fphase' = "closed"
    /\ parts' = IF ended THEN <<>> ELSE Keep(ks)
    /\ dropped' = dropped \union
         ((OnDisk \union Buffered) \ (read \union Recorded(parts')))
    /\ damaged' = (damaged \/ \E i \in 1 .. Len(parts') : Torn(parts'[i].cells))
    /\ rfile' = "null" /\ roffset' = 0 /\ rbuffer' = <<>> /\ ended' = FALSE /\ left' = 0
    /\ UNCHANGED <<full, garbage, wnext, given, read, refused, openings, fileFaults>>

(* ~persistent_file: the FILEs are flushed and closed. *)
Close ==
    /\ fphase = "idle"
    /\ StopWith([i \in 1 .. Len(parts) |-> 0])

(* The process dies; what stdio had not written is lost. *)
Die ==
    /\ fphase # "closed"
    /\ openings < FileStarts
    /\ \E ks \in [1 .. Len(parts) -> 0 .. ChunkLen] :
         /\ \A i \in 1 .. Len(parts) : ks[i] <= parts[i].dirty
         /\ StopWith(ks)

(* The disk becomes full, or has room again. *)
DiskFull ==
    /\ fileFaults < FileFaults \/ full
    /\ full' = ~full
    /\ fileFaults' = IF full THEN fileFaults ELSE fileFaults + 1
    /\ UNCHANGED <<fphase, parts, rfile, roffset, rbuffer, ended, left, garbage, wnext,
                   given, read, dropped, refused, damaged, openings>>

(* A part that nobody has open is removed from the directory. *)
LosePart ==
    /\ fileFaults < FileFaults
    /\ \E i \in 2 .. Len(parts) - 1 :
         /\ ~parts[i].gone
         /\ parts' = [parts EXCEPT ![i] = Gone]
         /\ dropped' = dropped \union (EventSet(parts[i].cells) \ read)
    /\ fileFaults' = fileFaults + 1
    /\ UNCHANGED <<fphase, rfile, roffset, rbuffer, ended, left, full, garbage, wnext,
                   given, read, refused, damaged, openings>>

-----------------------------------------------------------------------------

ReadStep == Fetch \/ Deliver \/ Skip \/ ReadEnd

PfNext ==
    \/ OpenParts
    \/ BeginWrite \/ WriteStep
    \/ BeginRead \/ ReadStep
    \/ Close \/ Die \/ DiskFull \/ LosePart

(* A call that was started goes on: the loops have no wait in them.        *)
PfSpec == PfInit /\ [][PfNext]_pfVars
PfFairSpec == PfSpec /\ WF_pfVars(ReadStep) /\ WF_pfVars(WriteStep)

-----------------------------------------------------------------------------
(* Properties. *)

PfTypeOK ==
    /\ fphase \in {"closed", "idle", "read", "write"}
    /\ rfile \in {"null", "shared", "own"}
    /\ fphase # "closed" => parts # <<>> /\ roffset <= Len(parts[1].cells)
    /\ left \in 0 .. ChunkLen /\ (left > 0 <=> fphase = "write")
    /\ wnext \in 1 .. FileEvents + 1

(* Events come out in the order they were written, each once per opening   *)
(* of the file, also after torn records and missing parts.                 *)
ReadInOrder == \A i, j \in 1 .. Len(given) : i < j => given[i] < given[j]

(* Only the last record, and the last one of the part that the reader      *)
(* shares with the writer before, can be lost by a crash of a sound file.  *)
AtRisk ==
    UNION {EventSet(SubSeq(parts[i].cells, Len(parts[i].cells) - parts[i].dirty + 1,
                           Len(parts[i].cells))) : i \in 1 .. Len(parts)}
      \union (Buffered \ OnDisk)
FewAtRisk == damaged \/ Cardinality(AtRisk) <= 2

(* Writes are refused only after a damaged record made the reader meet the *)
(* end of the file before its last event was given out.                    *)
RefusedOnlyDamaged == damaged \/ refused = {}

(* The parts of a sound file are unlinked only when their events were      *)
(* given out, although whole buffers are read ahead: every event that no   *)
(* fault has dropped was read or is on the disk.                           *)
UnlinkedWasRead ==
    \A e \in 1 .. wnext - 1 :
       e \in read \union dropped \union refused \union OnDisk
             \union (IF damaged THEN Buffered ELSE {})

(* The invariant of the files: events come out in order, unlinking and     *)
(* crashes lose no more than the last records, and only damage makes the   *)
(* file refuse writes.                                                     *)
FileInv ==
    PfTypeOK /\ ReadInOrder /\ FewAtRisk /\ RefusedOnlyDamaged /\ UnlinkedWasRead

(* A read returns an event or the end of the file unless a part is missing *)
(* in the middle; a write returns unless the disk stays full.              *)
CallsReturn ==
    /\ []<>(fphase # "read" \/ parts[1].gone)
    /\ []<>(fphase # "write" \/ full)

(* The stack implements the queue of events the muxer relies on. *)
Abstract == INSTANCE EventFile WITH
    up <- fphase # "closed",
    queue <- Events(rbuffer \o (IF parts = <<>> THEN <<>>
                 ELSE SubSeq(parts[1].cells, roffset + 1, Len(parts[1].cells))
                      \o AllCells(Tail(parts)))),
    again <- IF parts = <<>> THEN <<>>
             ELSE SelectSeq(Events(SubSeq(parts[1].cells, 1, roffset)),
                            LAMBDA e : e \notin Buffered),
    atRisk <- IF fphase = "closed" THEN {} ELSE AtRisk
(* Splitter, compression and persistent_file together behave like the      *)
(* queue of EventFile that the muxer relies on.                            *)
ImplementsEventFile == Abstract!Spec

=============================================================================
