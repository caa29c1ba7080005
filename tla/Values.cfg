SPECIFICATION ValuesSpec
CHECK_DEADLOCK FALSE
CONSTANTS
  Parts = {"phones", "encodings", "numbers", "hex", "dates", "arrays", "texts", "ranges", "values", "floats", "placeholders", "copy", "results", "quoting", "params", "options"}
  Texts <- MCTexts
  MaxPhones = 3
INVARIANTS StoredAsMeant ShownAsMeant NothingLost TextsAreScanned ValuesGoThrough ArraysGoThrough RangesGoThrough RowsGoThrough ResultsReadAlike StatementsSayWhatIsMeant
