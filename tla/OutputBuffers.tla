--------------------------- MODULE OutputBuffers ---------------------------
(***************************************************************************)
(* The two buffers a background command's output is collected in           *)
(* (src/cecli/helpers/background_commands.py): CircularBuffer, which keeps *)
(* the newest characters, and PagedOutputBuffer, which spills full pages   *)
(* to disk.  A buffer is a record, its operations are functions of it; a   *)
(* character is its number in the output of the command.                   *)
(***************************************************************************)
EXTENDS Integers, SequencesExt

CONSTANTS
  MaxSize,   \* CircularBuffer.max_size
  PageSize,  \* PagedOutputBuffer.page_size
  Missing    \* a page that could not be written

ASSUME BufferAssumption == MaxSize \in Nat /\ PageSize \in Nat \ {0} /\ Missing \notin Seq(Nat)

\* "paged": PagedOutputBuffer with a directory; "window": without one.
BufferKinds == {"circular", "paged", "window"}

Buffer == [kind : BufferKinds, buffer : Seq(Nat), total_added : Nat,
           window_start : Nat, pages : Seq(Seq(Nat) \cup {Missing})]

NewBuffer(kind) ==
  [kind |-> kind, buffer |-> <<>>, total_added |-> 0, window_start |-> 0, pages |-> <<>>]

\* The last n of a sequence; all of it if it is shorter.
Newest(s, n) == SubSeq(s, (IF Len(s) > n THEN Len(s) - n ELSE 0) + 1, Len(s))

\* Broken variant of Spill: what does not fill a page is dropped with the rest.
SpillAll(b, failing) ==
  LET full == Len(b.buffer) \div PageSize
      page(i) == SubSeq(b.buffer, (i - 1) * PageSize + 1, i * PageSize)
  IN  IF failing \in 1..full
      THEN [b EXCEPT !.pages = @ \o [i \in 1..failing |-> IF i = failing THEN Missing ELSE page(i)],
                     !.window_start = @ + (failing - 1) * PageSize]
      ELSE [b EXCEPT !.pages = @ \o [i \in 1..full |-> page(i)],
                     !.window_start = b.total_added,
                     !.buffer = <<>>]

\* PagedOutputBuffer._spill_locked with a directory: as many full pages as
\* there are; failing = j > 0 is the page whose write raises, which leaves the
\* content in memory and the page counted.
Spill(b, failing) ==
  LET full == Len(b.buffer) \div PageSize
      page(i) == SubSeq(b.buffer, (i - 1) * PageSize + 1, i * PageSize)
  IN  IF failing \in 1..full
      THEN [b EXCEPT !.pages = @ \o [i \in 1..failing |-> IF i = failing THEN Missing ELSE page(i)],
                     !.window_start = @ + (failing - 1) * PageSize]
      ELSE [b EXCEPT !.pages = @ \o [i \in 1..full |-> page(i)],
                     !.window_start = @ + full * PageSize,
                     !.buffer = SubSeq(@, full * PageSize + 1, Len(@))]

\* ... and without: the newest page only.
Trim(b) ==
  [b EXCEPT !.buffer = Newest(@, PageSize),
            !.window_start = @ + Len(b.buffer) - Len(Newest(b.buffer, PageSize))]

\* append.
Added(b, text, failing) ==
  LET more == [b EXCEPT !.buffer = @ \o text, !.total_added = @ + Len(text)]
      full == more.total_added - more.window_start >= PageSize
  IN  CASE b.kind = "circular" -> [more EXCEPT !.buffer = Newest(@, MaxSize)]
        [] b.kind = "paged" -> IF full THEN Spill(more, failing) ELSE more
        [] b.kind = "window" -> IF full THEN Trim(more) ELSE more

\* get_all(clear=True).
Cleared(b) ==
  IF b.kind = "circular" THEN [b EXCEPT !.buffer = <<>>, !.total_added = 0]
  ELSE [b EXCEPT !.buffer = <<>>, !.window_start = b.total_added]

\* Broken variant of NewOutput: the whole window is new once a part of it is.
NewOutputWhole(b, position) ==
  IF position >= b.total_added THEN <<>> ELSE b.buffer

\* get_new_output, whose new position is total_added.
NewOutput(b, position) ==
  IF position >= b.total_added THEN <<>>
  ELSE IF b.kind = "circular" THEN Newest(b.buffer, b.total_added - position)
  ELSE LET start == IF position > b.window_start THEN position ELSE b.window_start
       IN  SubSeq(b.buffer, start - b.window_start + 1, Len(b.buffer))

\* What is on disk.
OnPages(b) == UNION {ToSet(b.pages[i]) : i \in {j \in DOMAIN b.pages : b.pages[j] # Missing}}

=============================================================================
