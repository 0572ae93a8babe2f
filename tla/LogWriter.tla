------------------------------ MODULE LogWriter ------------------------------
(***************************************************************************)
(* LogWriter, userspace/src/storage/log_writer.cpp: the log file, the      *)
(* rotated file beside it, and the writer that one worker at a time        *)
(* (under writer_mutex) is in.                                             *)
(*                                                                         *)
(* Everything that reaches the file system is a step, because the process  *)
(* may end between two of them: a worker that throws is std::terminate, a  *)
(* signal kills, and the service unit starts the daemon again on the same  *)
(* files.  A file is a sequence of pieces [line, bytes], a missing file an *)
(* empty one; line n is the n-th that write_sample was given.              *)
(*                                                                         *)
(* The stream is the standard library's.  A line goes to its put area and  *)
(* is written from there by flush and by close; what a write that fails    *)
(* has stored stays in the file, and the whole line in the put area.  The  *)
(* flush of a stream that is bad does nothing by the standard (LWG 581),   *)
(* while libstdc++ before GCC 12 writes the put area again: resyncs.       *)
(***************************************************************************)
EXTENDS Naturals, SequencesExt

CONSTANTS RotateBytes,  \* config.log_rotate_bytes, 0 for never
          Sizes,        \* lengths of a line with its newline
          MaxLines      \* bound on the lines written

ASSUME LogAssumption ==
    /\ RotateBytes \in Nat /\ MaxLines \in Nat
    /\ Sizes \subseteq Nat \ {0}
    /\ \E longest \in Sizes : \A size \in Sizes : size <= longest

VARIABLES log, rotated,   \* the contents of path_ and of path_.1
          current_bytes,  \* current_bytes_
          stream,         \* stream_: "closed", "good" or "bad"
          put,            \* the line in its put area
          resyncs,        \* flush writes the put area of a bad stream
          step,           \* where write_sample is
          given,          \* the lengths of the lines given so far
          failed          \* a rename or a write has failed

files == <<log, rotated>>
logVars ==
    <<files, current_bytes, stream, put, resyncs, step, given, failed>>

NoLine == [line |-> 0, bytes |-> 0]

Bytes(file) ==
    LET sum[n \in 0..Len(file)] ==
            IF n = 0 THEN 0 ELSE sum[n - 1] + file[n].bytes
    IN  sum[Len(file)]

Init ==
    /\ log = <<>> /\ rotated = <<>>
    /\ current_bytes = 0 /\ stream = "closed"
    /\ put = NoLine /\ resyncs \in BOOLEAN
    /\ step = "idle" /\ given = <<>> /\ failed = FALSE

-----------------------------------------------------------------------------
(* The file after write has stored so many bytes of a line. *)
Stored(file, piece, stored) ==
    IF stored = 0 THEN file ELSE Append(file, [piece EXCEPT !.bytes = stored])

(***************************************************************************)
(* stream_.close(), and the destructor: the put area is written, as far as *)
(* the write gets, and given up.                                           *)
(***************************************************************************)
CloseStream ==
    /\ \E stored \in 0..put.bytes : log' = Stored(log, put, stored)
    /\ put' = NoLine
    /\ stream' = "closed"

(* open_if_needed.  Mutant: the size of an existing file is not asked for. *)
OpenCountsFromZero ==
    /\ step = "idle" /\ Len(given) < MaxLines
    /\ stream' = IF stream = "closed" THEN "good" ELSE stream
    /\ current_bytes' = IF stream = "closed" THEN 0 ELSE current_bytes
    /\ step' = "check"
    /\ UNCHANGED <<files, put, resyncs, given, failed>>

OpenIfNeeded ==
    /\ step = "idle" /\ Len(given) < MaxLines
    /\ stream' = IF stream = "closed" THEN "good" ELSE stream
    /\ current_bytes' = IF stream = "closed" THEN Bytes(log) ELSE current_bytes
    /\ step' = "check"
    /\ UNCHANGED <<files, put, resyncs, given, failed>>

(* rotate_if_needed: its test, and the close of the stream. *)
Rotates == RotateBytes # 0 /\ current_bytes >= RotateBytes

RotateCheck ==
    /\ step = "check"
    /\ \/ Rotates /\ CloseStream /\ step' = "remove"
       \/ ~Rotates /\ step' = "write" /\ UNCHANGED <<log, put, stream>>
    /\ UNCHANGED <<rotated, current_bytes, resyncs, given, failed>>

(* remove(rotated, ec), whose error is ignored.  Mutant: remove(path_). *)
RemoveLog ==
    /\ step = "remove"
    /\ log' = <<>>
    /\ step' = "rename"
    /\ UNCHANGED <<rotated, current_bytes, stream, put, resyncs, given, failed>>

RemoveRotated ==
    /\ step = "remove"
    /\ rotated' \in {<<>>, rotated}
    /\ step' = "rename"
    /\ UNCHANGED <<log, current_bytes, stream, put, resyncs, given, failed>>

(* rename(path_, rotated, ec), whose error is ignored too. *)
RenameLog ==
    /\ step = "rename"
    /\ \/ rotated' = log /\ log' = <<>> /\ UNCHANGED failed
       \/ failed' = TRUE /\ UNCHANGED files
    /\ current_bytes' = 0
    /\ step' = "reopen"
    /\ UNCHANGED <<stream, put, resyncs, given>>

(* open(path_, trunc).  A failed open throws, which is ProcessKilled. *)
ReopenTruncated ==
    /\ step = "reopen"
    /\ log' = <<>>
    /\ stream' = "good"
    /\ step' = "write"
    /\ UNCHANGED <<rotated, current_bytes, put, resyncs, given, failed>>

(***************************************************************************)
(* stream_ << line, flush, current_bytes_ += size.  Nobody looks at the    *)
(* state of the stream: << on a bad stream does nothing, flush writes the  *)
(* put area or part of it or nothing, and the line is counted all the      *)
(* same.                                                                   *)
(***************************************************************************)
WriteLine ==
    /\ step = "write"
    /\ \E size \in Sizes :
        LET line == [line |-> Len(given) + 1, bytes |-> size]
            area == IF stream = "good" THEN line ELSE put
        IN  /\ \E stored \in 0..area.bytes :
                /\ stream = "good" \/ resyncs \/ stored = 0
                /\ log' = Stored(log, area, stored)
                /\ put' = IF stored < area.bytes THEN area ELSE NoLine
                /\ stream' = IF stored < area.bytes THEN "bad" ELSE stream
                /\ failed' = (failed \/ stored < area.bytes)
            /\ current_bytes' = current_bytes + size
            /\ given' = Append(given, size)
    /\ step' = "idle"
    /\ UNCHANGED <<rotated, resyncs>>

(***************************************************************************)
(* The process is started again after its end: by std::terminate or a      *)
(* signal at any point, where the put area is lost, or by the return of    *)
(* main after the workers, where ~LogWriter closes the stream.             *)
(***************************************************************************)
ProcessKilled ==
    /\ put' = NoLine /\ stream' = "closed"
    /\ step' = "idle" /\ current_bytes' = 0
    /\ UNCHANGED <<files, resyncs, given, failed>>

WriterDestroyed ==
    /\ step = "idle" /\ CloseStream
    /\ current_bytes' = 0
    /\ UNCHANGED <<rotated, resyncs, step, given, failed>>

WriteSample == \/ OpenIfNeeded \/ RotateCheck \/ RemoveRotated \/ RenameLog
               \/ ReopenTruncated \/ WriteLine

Next == WriteSample \/ ProcessKilled \/ WriterDestroyed

Spec == Init /\ [][Next]_logVars

-----------------------------------------------------------------------------
(* The lines given, as whole pieces. *)
Lines == [n \in DOMAIN given |-> [line |-> n, bytes |-> given[n]]]
OnDisk == rotated \o log

(***************************************************************************)
(* What is on disk are the most recent lines, whole, once and in order,    *)
(* and at least log_rotate_bytes of them unless fewer were written: no     *)
(* crash between remove, rename and reopen costs more than the old rotated *)
(* file.  (A rename or a write that fails, which the code ignores, does.)  *)
(***************************************************************************)
RecentLinesKept ==
    ~failed =>
        /\ IsSuffix(OnDisk, Lines)
        /\ OnDisk # Lines => RotateBytes > 0 /\ Bytes(OnDisk) >= RotateBytes

(* No line of the file is there in part. *)
Whole(file) == \A i \in DOMAIN file : file[i].bytes = given[file[i].line]

(***************************************************************************)
(* How far the files outgrow log_rotate_bytes, as current_bytes_ is read   *)
(* from the file at the start and counts lines that are not written.  A    *)
(* file of whole lines stays less than a line above, wherever the process  *)
(* ended before and if remove and rename fail.  If a write fails, close    *)
(* puts the line there a second time: less than two lines above.  A        *)
(* library that resyncs puts it there with every later write_sample, and   *)
(* only the number of lines counted before the rotation bounds the file.   *)
(***************************************************************************)
FilesBounded ==
    RotateBytes > 0 =>
        \A file \in {log, rotated} :
            /\ Whole(file) => Bytes(file) < RotateBytes + Max(Sizes)
            /\ ~resyncs => Bytes(file) < RotateBytes + 2 * Max(Sizes) - 1
            /\ Bytes(file) < (RotateBytes + 1) * Max(Sizes)
=============================================================================
