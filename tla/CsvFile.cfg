SPECIFICATION CsvSpec
CONSTANTS
  Quote = Quote
  Separator = Separator
  Newline = Newline
  Digit = Digit
  MaxLength = 2
  Texts <- ShortTexts
  Numbers <- ShortNumbers
  MaxFields = 2
  MaxRows = 2
INVARIANTS RowsOnDisk ReadsBack
CHECK_DEADLOCK FALSE
