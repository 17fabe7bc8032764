--------------------------- MODULE MCFileQuality ---------------------------
(***************************************************************************)
(* An instance of FileQuality: one symbol whose file takes every form the  *)
(* checks tell apart, beside one that is only revised or removed.          *)
(***************************************************************************)
EXTENDS FileQuality

Row(code, price, volume) == [code |-> code, price |-> price, inside |-> TRUE, volume |-> volume]
Sound(rows) == [torn |-> FALSE, header |-> Len(rows), rows |-> rows]

Day1 == Row(101, 10, 4)
Day2 == Row(102, 11, 4)
Day3 == Row(103, 12, 6)

MCFilesOf == [FPT |-> {
    Sound(<<Day1>>),
    Sound(<<Day1, Day2>>),
    Sound(<<Day1, Day2, Day3>>),
    \* the first day or two days revised; a volume with a half that rounds to the same
    Sound(<<Row(101, 9, 4), Day2>>),
    Sound(<<Row(101, 9, 4), Row(102, 8, 4), Day3>>),
    Sound(<<Row(101, 10, 5), Row(102, 11, 3)>>),
    \* no volume at the end, prices outside the range
    Sound(<<Day1, Row(102, 11, 0), Row(103, 11, 0)>>),
    Sound(<<[Day1 EXCEPT !.inside = FALSE], Day2>>),
    \* malformed
    [Sound(<<Day1, Day2>>) EXCEPT !.torn = TRUE],
    [Sound(<<Day1, Day2>>) EXCEPT !.header = 1],
    Sound(<<Day1, Row(113, 11, 4)>>),
    Sound(<<Day2, Day1>>),
    Sound(<<Day1, Row(101, 11, 4)>>),
    \* critical
    Sound(<<Day1, Row(102, NaN, 4)>>),
    Sound(<<Row(101, 0, 4), Day2>>),
    Sound(<<Day1, Row(102, 11, -1)>>),
    Sound(<<Day1, Row(102, 11, NaN)>>)},
  KDH |-> {
    Sound(<<Day1, Day2>>),
    Sound(<<Day1, Row(102, 12, 4)>>)}]
=============================================================================
