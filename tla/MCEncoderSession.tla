-------------------------- MODULE MCEncoderSession --------------------------
(* An encoder session with the access units below, and packets of four bytes. *)
EXTENDS EncoderSession

Long == <<0, 0, 0, 1>>
Short == <<0, 0, 1>>
Nal(code, nal) == [code |-> code, nal |-> nal]

\* Lone NALs of all lengths around what a packet and its fragments hold, 1, 4,
\* 5 (two fragments), 6 (three) and 7 bytes (three full ones), IDRs (101) and
\* deltas (65), and an IDR after a delimiter and parameter sets.
Units ==
  {<<Nal(Long, <<65>>)>>,
   <<Nal(Short, <<101, 7, 7, 7>>)>>,
   <<Nal(Long, <<65, 1, 0, 0, 2>>)>>,
   <<Nal(Long, <<101, 1, 2, 3, 4, 5>>)>>,
   <<Nal(Short, <<9, 16>>), Nal(Long, <<103, 1, 2, 3, 4, 5, 6>>),
     Nal(Short, <<104, 1>>), Nal(Short, <<101, 0, 1, 0, 1>>)>>}
=============================================================================
