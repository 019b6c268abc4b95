--------------------------- MODULE MCGenerationPage ---------------------------
(***************************************************************************)
(* An instance of GenerationPage for TLC: every kind of task, texts for    *)
(* each outcome of the classification and one that needs its precedence,   *)
(* an old page with a line that Dola may repeat.                           *)
(***************************************************************************)
EXTENDS GenerationPage

CONSTANTS i1, i2

Job(kind, n, headless) == [kind |-> kind, refs |-> n, headless |-> headless]

EveryJob ==
  {Job("video", 0, FALSE), Job("video", 2, FALSE), Job("resume", 0, FALSE),
   Job("image", 0, FALSE), Job("image", 0, TRUE)}
VideoJob == {Job("video", 0, FALSE)}

(* The assurance that no credits were used, which means nothing; a         *)
(* rejection in the guise of a shortage; a daily limit; another duration.  *)
FourTexts == {{"credits", "unused"}, {"rejection", "credits"}, {"daily"}, {"duration"}}
CleanOrLimited == {{}, {{"daily"}}}
=============================================================================
