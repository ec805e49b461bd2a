---------------------------- MODULE MCPostProcess ----------------------------
(* Instances of PostProcess: one bundle with every kind of file, two small  *)
(* bundles that are uploaded and removed, in directories of their own and   *)
(* by category, one whose files stay where they are, and one that is        *)
(* uploaded with what failed attempts left.                                 *)
EXTENDS PostProcess

Movie(b) == {File(b, "movie", 1, "usm"), File(b, "movie", 2, "usm")}

\* A video in two segments, one whose first segment is missing, without the
\* magic, an image and an audio container without tracks.
Rich ==
  [written |-> <<Movie(1) \cup
                 {File(1, "clip", 2, "usm"), File(1, "clip", 3, "usm"),
                  File(1, "image", 0, "bmp"), File(1, "voice", 0, "acb")}>>,
   noMagic |-> {File(1, "clip", 2, "usm"), File(1, "clip", 3, "usm")},
   barren |-> {File(1, "voice", 0, "acb")},
   byCategory |-> FALSE, formats |-> {"webp"}, targets |-> {}, removeLocal |-> FALSE,
   faults |-> {"merge", "convert", "again"}]

Uploaded ==
  [written |-> <<{File(1, "image", 0, "bmp")}, {File(2, "text", 0, "json")}>>,
   noMagic |-> {}, barren |-> {}, byCategory |-> FALSE, formats |-> {"png"},
   targets |-> {"s3", "fs"}, removeLocal |-> TRUE,
   faults |-> {"transient", "again"}]

Shared ==
  [written |-> <<Movie(1), {File(2, "text", 0, "json")}>>,
   noMagic |-> {}, barren |-> {}, byCategory |-> TRUE, formats |-> {"png"},
   targets |-> {"s3"}, removeLocal |-> TRUE,
   faults |-> {}]

Kept ==
  [written |-> <<Movie(1) \cup {File(1, "image", 0, "bmp")}>>,
   noMagic |-> {}, barren |-> {}, byCategory |-> FALSE, formats |-> {"png", "webp"},
   targets |-> {"s3"}, removeLocal |-> FALSE,
   faults |-> {"merge", "convert", "transient", "final", "again"}]

\* A video file without a video among others.
Mixed ==
  [written |-> <<{File(1, "voice", 0, "acb"), File(1, "clip", 0, "usm"),
                  File(1, "text", 0, "json")}>>,
   noMagic |-> {}, barren |-> {File(1, "clip", 0, "usm")},
   byCategory |-> FALSE, formats |-> {"png"}, targets |-> {"s3"}, removeLocal |-> TRUE,
   faults |-> {"convert", "final", "again"}]

MCSetups == {Rich, Uploaded, Shared, Kept, Mixed}
===============================================================================
