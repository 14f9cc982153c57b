----------------------------- MODULE MCCsvFile ------------------------------
(* An instance of CsvFile for TLC: every string of at most MaxLength           *)
(* characters, of which one is of no special meaning.                          *)
EXTENDS CsvFile

CONSTANTS Digit, MaxLength

ShortTexts == BoundedSeq({Quote, Separator, Newline, Digit}, MaxLength)
ShortNumbers == {<<Digit>>}
=============================================================================
