----------------------------- MODULE ByteRange -----------------------------
(***************************************************************************)
(* Range requests of files.py: what a header such as bytes=2-5, bytes=2- or *)
(* bytes=-5 becomes (ByteRange, compile_byte_ranges), what download_file    *)
(* makes of it for a file of fsize bytes, and which bytes iterfile reads.   *)
(* A number that the header leaves out, and Python's None, are Absent.      *)
(***************************************************************************)
EXTENDS Integers

Absent == -1

\* set_start: a range without a first byte (bytes=-5) starts at 0.
set_start(first) == IF first = Absent THEN 0 ELSE first

\* set_range raises unless start < end.
Accepted(first, last) == last = Absent \/ set_start(first) < last

\* Variant: the length of start-end taken to be end - start.
set_range_exclusive(first, last) ==
  [start |-> set_start(first), end |-> last,
   range |-> IF last = Absent THEN Absent ELSE last - set_start(first)]

set_range(first, last) ==
  [start |-> set_start(first), end |-> last,
   range |-> IF last = Absent THEN Absent ELSE last - set_start(first) + 1]

\* download_file: a range longer than the file ends with it; one without an end, too.
\* fsize is one past the last byte.
Prepared(r, fsize) ==
  IF r.range # Absent /\ r.range > fsize
  THEN [start |-> r.start, end |-> fsize, range |-> fsize - r.start + 1]
  ELSE IF r.end = Absent THEN [r EXCEPT !.end = fsize] ELSE r

\* iterfile, for a file that has length bytes when it is read: with an end, read(range),
\* which reads everything for a negative number or None; without (or with 0), everything.
ReadBytes(r, length) ==
  {i \in 0 .. length - 1 : r.start <= i
                /\ (r.end # 0 /\ r.range >= 0 => i < r.start + r.range)}
=============================================================================
