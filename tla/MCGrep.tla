------------------------------- MODULE MCGrep --------------------------------
(* A finite instance of GrepThreads for TLC: files with the needle in the   *)
(* first, the last, every and no line, an empty one, one that cannot be     *)
(* opened, and a directory.                                                 *)
EXTENDS GrepThreads

Entry(info, opens, lines) == [info |-> info, opens |-> opens, lines |-> lines]

MCEntries ==
  << Entry("FTS_D", FALSE, <<>>),
     Entry("FTS_F", TRUE, <<TRUE, FALSE, TRUE>>),
     Entry("FTS_F", TRUE, <<TRUE, TRUE>>),
     Entry("FTS_F", FALSE, <<TRUE>>),
     Entry("FTS_F", TRUE, <<FALSE>>),
     Entry("FTS_F", TRUE, <<>>),
     Entry("other", FALSE, <<>>),
     Entry("FTS_F", TRUE, <<FALSE, TRUE>>) >>
=============================================================================
